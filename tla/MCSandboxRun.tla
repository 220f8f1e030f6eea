---------------------------- MODULE MCSandboxRun ----------------------------
(***************************************************************************)
(* A workspace of three files: result.json; an output in a directory that  *)
(* staging leaves out (dist/app); and one behind a symlink.  A run finds   *)
(* all of them there at first, or none.                                    *)
(***************************************************************************)
EXTENDS SandboxRun

CONSTANTS verdict, app, linked

MCFiles == {verdict, app, linked}

ResultJson == [kind |-> "file", covers |-> {verdict}]
AppByName  == [kind |-> "file", covers |-> {app}]
DistDir    == [kind |-> "dir",  covers |-> {app, linked}]
AllByGlob  == [kind |-> "glob", covers |-> {app, linked}]

AllOrNothing == {{}, MCFiles}

AllPaths   == {ResultJson, AppByName, DistDir, AllByGlob}
OneGlob    == {AllByGlob}
OneVerdict == {ResultJson}
=============================================================================
