---------------------------- MODULE MCEgressRules ----------------------------
(***************************************************************************)
(* An instance of EgressRules: one address of each kind, names of up to    *)
(* three labels, and a list entry of each form.                            *)
(***************************************************************************)
EXTENDS EgressRules

MCAddr      == {"public", "other", "private", "loopback", "metadata", "linklocal"}
MCMetadata  == {"metadata"}
MCLinkLocal == {"metadata", "linklocal"}
MCPrivate   == {"private"}
MCInternal  == {"private", "loopback", "metadata", "linklocal"}
MCAllowSets == {{}, {"public"}, {"private", "metadata"}}
MCPort      == {22, 53, 443}
MCName      == {<<"x">>, <<"a", "x">>, <<"b", "a", "x">>, <<"a", "y">>}
MCPattern   == {[name |-> <<"a", "x">>, below |-> FALSE], [name |-> <<"x">>, below |-> TRUE]}
=============================================================================
