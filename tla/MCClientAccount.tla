--------------------------- MODULE MCClientAccount ---------------------------
\* The account of a user, for TLC.
EXTENDS ClientAccount

CONSTANTS starter, pro, none, c1, c2

\* Two transfers at a time, each from any component; one transfer while the
\* balance is looked at, to the wallet the service looks for or to another;
\* disputes while it is looked at; the desk; two calls of the agent at a time, with
\* nodes that can read them; each script and the wizard, with nodes of either
\* kind; each program that is run by hand.
Idle == [transfers |-> 0, desk |-> FALSE, agent |-> {}, nodeIv |-> NodeIv,
         byHand |-> {}, observed |-> FALSE, disputing |-> FALSE, astray |-> {}]

Cases ==
    {[Idle EXCEPT !.transfers = 2],
     [Idle EXCEPT !.transfers = 1, !.observed = TRUE],
     [Idle EXCEPT !.transfers = 1, !.observed = TRUE, !.astray = Routes],
     [Idle EXCEPT !.disputing = TRUE, !.observed = TRUE],
     [Idle EXCEPT !.desk = TRUE],
     [Idle EXCEPT !.byHand = ByHand],
     [Idle EXCEPT !.agent = {<<c1, "infer">>, <<c1, "submit">>, <<c2, "infer">>},
                  !.nodeIv = SdkIv]}
    \cup {[Idle EXCEPT !.agent = {<<c1, k>>}, !.nodeIv = n] :
             k \in Scripts \cup {"wizard"}, n \in {NodeIv, SdkIv}}

\* Whoever is admitted to the two halves of a key gets that key: every key of
\* four bytes with three values.
ASSUME KeySurvivesItsHalves ==
    \A key \in [1 .. 4 -> 0 .. 2] : CombineKeyHalves(3, 2, SplitKey(3, key)) = key
=============================================================================
