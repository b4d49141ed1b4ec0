---------------------------- MODULE SessionPool -----------------------------
(***************************************************************************)
(* What session concurrency mode promises, without threads, records or a   *)
(* client: at most limit conversations are open at any time, each one is   *)
(* held once, and every turn of it is asked after the reply to the turn    *)
(* before, on top of everything that was said until then.  The program may *)
(* give up as a whole; unless it does, every conversation is held to its   *)
(* end.                                                                    *)
(***************************************************************************)
EXTENDS Naturals, Sequences, FiniteSets

CONSTANTS Sessions,     \* the session ids
          Turns,        \* of every session: what each of its turns says
          Replies       \* of every session: the reply to each of its turns

VARIABLES talk,         \* what has been said in every session
          turn,         \* how many turns have been asked
          open,         \* the sessions that are being held
          limit,        \* how many may be
          failed        \* the program has given up

poolVars == <<talk, turn, open, limit, failed>>

PoolInit ==
    /\ talk = [s \in Sessions |-> <<>>]
    /\ turn = [s \in Sessions |-> 0]
    /\ open = {}
    /\ limit \in Nat \ {0}
    /\ failed = FALSE

Replied(s) ==
    turn[s] > 0 => /\ talk[s] # <<>>
                   /\ talk[s][Len(talk[s])] = Replies[s][turn[s]]

Open(s) ==
    /\ s \notin open /\ turn[s] = 0 /\ Cardinality(open) < limit
    /\ open' = open \cup {s}
    /\ UNCHANGED <<talk, turn, limit, failed>>

Ask(s) ==
    /\ s \in open /\ Replied(s) /\ turn[s] < Len(Turns[s])
    /\ turn' = [turn EXCEPT ![s] = @ + 1]
    /\ talk' = [talk EXCEPT ![s] = @ \o Turns[s][turn[s] + 1]]
    /\ UNCHANGED <<open, limit, failed>>

Reply(s) ==
    /\ s \in open /\ ~Replied(s)
    /\ talk' = [talk EXCEPT ![s] = Append(@, Replies[s][turn[s]])]
    /\ UNCHANGED <<turn, open, limit, failed>>

Close(s) ==
    /\ s \in open /\ Replied(s) /\ turn[s] = Len(Turns[s])
    /\ open' = open \ {s}
    /\ UNCHANGED <<talk, turn, limit, failed>>

GiveUp == failed' = TRUE /\ UNCHANGED <<talk, turn, open, limit>>

Proceed == ~failed /\ \E s \in Sessions :
                        Open(s) \/ Ask(s) \/ Reply(s) \/ Close(s)

PoolNext == Proceed \/ (~failed /\ GiveUp)

PoolSpec == PoolInit /\ [][PoolNext]_poolVars /\ WF_poolVars(Proceed)

=============================================================================
