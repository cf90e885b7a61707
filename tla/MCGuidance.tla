------------------------------ MODULE MCGuidance ------------------------------
(***************************************************************************)
(* Guidance on a small instance: a revision and the same revision edited   *)
(* in place under its label, with other preconditions, one without         *)
(* verification, one with a locator twice, and documents whose hash is     *)
(* another's; a catalog, each way the operator may have changed it by the  *)
(* time of the call, and catalogs that do not load; policies that map both *)
(* preconditions, one, or one twice.                                       *)
(***************************************************************************)
EXTENDS Guidance

Revision(list, locators, verified) ==
  [name |-> "restart@1", operation |-> "op", preconditions |-> list,
   passages |-> locators, verified |-> verified]

MCBody == [k1 |-> Revision("pre", <<"a">>, TRUE), k2 |-> Revision("pre2", <<"a">>, TRUE),
           k3 |-> Revision("pre", <<"a">>, FALSE), k4 |-> Revision("pre", <<"a", "a">>, TRUE)]

D(b, h) == [body |-> b, declared |-> h]

MCLibraries == { {D("k1", "k1")},
                 {D("k2", "k2"), D("k2", "k1")},
                 {D("k1", "k1"), D("k2", "k2"), D("k3", "k3"), D("k4", "k4")} }

E(k, i, f, h) == [key |-> k, id |-> i, path |-> f, sha |-> h]
Doc(es, pr) == [entries |-> es, profile |-> pr]

MCCatalogs ==
  { Doc(<<E("k1", "id1", "f1", "h1"), E("k2", "id2", "f1", "h2")>>, "pr1"),
    Doc(<<E("k1", "id1", "f1", "h2")>>, "pr1"),
    Doc(<<E("k1", "id2", "f1", "h1")>>, "pr1"),
    Doc(<<E("k1", "id1", "f1", "h1")>>, "pr2"),
    Doc(<<E("k1", "id1", "f1", "h1"), E("k1", "id2", "f1", "h2")>>, "pr1"),
    Doc(<<E("k1", "id1", "f1", "h1"), E("k2", "id1", "f1", "h2")>>, "pr1") }

O(i, t) == [index |-> i, adapter |-> "docker_engine_running", timeout |-> t]
A(h, pr) == [path |-> "f1", sha |-> h, profile |-> pr, covers |-> TRUE]

MCPolicies ==
  { [observers |-> <<O(1, 1), O(2, 3)>>, standing |-> {A("h1", "pr2")}],
    [observers |-> <<O(2, 2), O(1, 2)>>, standing |-> {A("h1", "pr1"), A("h2", "pr2")}],
    [observers |-> <<O(2, 1)>>, standing |-> {}],
    [observers |-> <<O(1, 1), O(2, 1), O(1, 2)>>, standing |-> {}] }

=============================================================================
