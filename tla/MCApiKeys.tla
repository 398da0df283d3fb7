----------------------------- MODULE MCApiKeys ------------------------------
(* Small instances of ApiKeys for TLC; the .cfg files give the other constants. *)
EXTENDS ApiKeys

CONSTANT k1

Manage == {"create", "update", "rotate", "revoke"}
File(id) == [type |-> "file", id |-> id]
Files == [type |-> "file"]
KeyRule == [type |-> "api_key"]

\* Reading any file, and reading one file; both may manage keys.
Broad == [limited |-> TRUE, capabilities |-> Manage \union {"read"}, ruled |-> TRUE,
          resources |-> {Files, KeyRule}]
Narrow == [limited |-> TRUE, capabilities |-> Manage \union {"read"}, ruled |-> TRUE,
           resources |-> {File("f1"), KeyRule}]

MCCeilings == [n \in {"none", "broad", "narrow"} |->
  IF n = "none" THEN Unrestricted ELSE IF n = "broad" THEN Broad ELSE Narrow]
MCOperations == {<<"read", File("f1")>>, <<"read", File("f2")>>}
MCInitialKeys == [k \in {k1} |-> "narrow"]
=============================================================================
