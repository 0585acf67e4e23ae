----------------------------- MODULE MCOrgEvents -----------------------------
(* A small instance of OrgEvents: two emitting goroutines, one reader, one     *)
(* shared map, and a webhook with an id and one without.                       *)
EXTENDS OrgEvents, TLC

CONSTANTS p1, p2, r1, m1

T(text) == [text |-> text, padded |-> FALSE]
Padded(text) == [text |-> text, padded |-> TRUE]

MCParsed == [u \in {"http://mesh"} |-> [scheme |-> "http", host |-> "mesh", user |-> FALSE]]
MCSeconds == ("0" :> 0) @@ ("5" :> 5)

Env(org, require, timeout) ==
  [v \in Emit!Variables |->
     CASE v = "IOMESH_URL" -> T("http://mesh")
       [] v = "IOMESH_ORG" -> org
       [] v = "IOMESH_REQUIRE_ORG" -> require
       [] v = "IOMESH_TIMEOUT" -> timeout
       [] v = "IOMESH_TENANT" -> T("sales")
       [] v = "IOMESH_WORKSPACE" -> Emit!Blank
       [] OTHER -> Emit!Unset]

\* Two organizations, a program without one, and one that requires it in vain; one
\* whose environment does not connect.
MCEnvs ==
  {Env(T("acme"), T("1"), Emit!Unset), Env(Padded("globex"), Emit!Unset, T("5")),
   Env(Emit!Blank, Padded("yes"), T("0")), Env(T("acme"), T("1"), T("soon"))}

MCContents == {<<>>}
MCLLMCalls == {<<>>, [org |-> "other", tenant |-> "given"]}

\* The defaults, a tail read message by message, and a head asked for beyond the cap.
MCRanges == {[from |-> 0, to |-> 0, limit |-> 0], [from |-> 2, to |-> 0, limit |-> 1],
             [from |-> 0, to |-> 1, limit |-> MaxLimit + 1]}

Symmetry == Permutations(Procs)

Hook(id) == [connector |-> T("crm"), department |-> Padded("sales"), source |-> T("crm"),
             id |-> id, type |-> "created"]
MCHooks == {Hook(Padded("e1")), Hook(Emit!Blank)}
==============================================================================
