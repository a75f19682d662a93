------------------------------ MODULE MCDriver ------------------------------
(***************************************************************************)
(* Instances of Driver for TLC.  A strategy quotes nothing until it sees a *)
(* bid and an ask, so the runs start after the first two events of the     *)
(* market, one order on each side, seen by the agent.                      *)
(***************************************************************************)
EXTENDS Driver

\* Draws that differ, and draws that do not; the driver sends what it wants.
TwoTurns == {Config(TRUE, jitter, 2, 9) : jitter \in BOOLEAN}
ThreeTurns == {Config(TRUE, TRUE, 3, 9)}

Opening ==
  LET b == RefAdd(RefEmpty, FirstId, "Bid", 10, 1, FALSE).book
  IN RefAdd(b, FirstId + 1, "Ask", 12, 2, FALSE).book

Warm ==
  /\ config \in Configs
  /\ pc = "draw" /\ turn = 0 /\ event = Event("Clear", FirstId, FirstId, "Bid", 0, 0)
  /\ truth = Opening /\ view = Opening
  /\ gen = Observe([NewGenerator EXCEPT
                      !.live = {[id |-> FirstId, qty |-> 1, price |-> 10, side |-> "Bid"],
                                [id |-> FirstId + 1, qty |-> 2, price |-> 12, side |-> "Ask"]},
                      !.next = FirstId + 2],
                   Opening)
  /\ inflight = {} /\ feed = <<>>
  /\ log = EmptyLog /\ fillsSeen = 0 /\ agentRead = 0
  /\ stats = NoStats /\ used = {}
  /\ tape = <<>> /\ published = <<>>
  /\ quote = InitQuotes /\ cancelled = {}

WarmSpec == Warm /\ [][DNext]_dvars
=============================================================================
