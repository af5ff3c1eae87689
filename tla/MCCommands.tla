----------------------------- MODULE MCCommands -----------------------------
(* Bounds of the run of Commands: what three processes may be asked to do, *)
(* and what the file may hold before.                                      *)
EXTENDS Commands

CONSTANTS x, y, k

Host(n, a) == [do |-> "add-host", name |-> n, place |-> a]
Client(n, a, s) == [do |-> "add-client", name |-> n, place |-> a, secret |-> s]

SomeCommands ==
  {Host(1, x), Client(2, x, "good"), Client(1, y, "short"), Client(1, y, "nothex"),
   [do |-> "remove", name |-> 1], [do |-> "list"], [do |-> "run"]}

OneHostOneClient ==
  [host |-> <<[kind |-> "host", name |-> 1, place |-> y, secret |-> k]>>,
   client |-> <<[kind |-> "client", name |-> 1, place |-> y, secret |-> "good"]>>]

SomeFiles == {NoFile, OneHostOneClient}
=============================================================================
