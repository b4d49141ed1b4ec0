------------------------- MODULE PreparationProofs -------------------------
(***************************************************************************)
(* Proofs about what surrounds a load.  Of InputData, for all data sets,   *)
(* models and options: sequences that are open at the same time have ids   *)
(* of their own, the requests carry the data the files hold for them,      *)
(* rounds leave no data out, and shared memory is given back.  Of          *)
(* Schedules, for all schedules asked for: together the workers follow it. *)
(* Of Setup, for all command lines and answers of the server: what the     *)
(* load is started with fits together, it makes only calls the service     *)
(* has, and the exit status tells what was written.                        *)
(***************************************************************************)
EXTENDS Preparation, FiniteSetTheorems, SequenceTheorems,
        WellFoundedInduction, TLAPS

-----------------------------------------------------------------------------
(* The sequences of the slots.                                             *)

\* A sequence status has these fields.
StatusFields == {"seq_id", "data_stream_id", "remaining", "length", "phase",
                 "next", "count", "ok", "req"}
Status(st) == st = [f \in StatusFields |-> st[f]]

\* A slot that has begun a sequence, and one that has taken an id for the
\* sequence it is about to begin.
Begun(s) == seq[s].count # 0 \/ ~seq[s].ok
Taking(s) == seq[s].phase \in {"compare", "begin"}

SlotTypes ==
    /\ job \in Jobs
    /\ curr_seq_id \in Nat
    /\ seq = [s \in Sent!Slots |-> seq[s]]
    /\ \A s \in Sent!Slots :
          /\ Status(seq[s])
          /\ seq[s].count \in Nat /\ seq[s].ok \in BOOLEAN
          /\ seq[s].phase \in {"idle", "compare", "begin"}
          /\ ~Begun(s) => seq[s].seq_id = 0 /\ seq[s].remaining = 0

\* The ids the counter has given out.
Given == job.start_id .. job.start_id + curr_seq_id - 1

\* In the first round through the range each value of the counter is the id
\* of one slot's sequence, or the next one of it.
FirstRound ==
    curr_seq_id <= job.range =>
        \A s \in Sent!Slots :
            /\ Begun(s) => seq[s].seq_id \in Given
            /\ Taking(s) => seq[s].next \in Given
            /\ Begun(s) /\ Taking(s) => seq[s].seq_id < seq[s].next
            /\ \A o \in Sent!Slots \ {s} :
                  /\ Begun(s) /\ Begun(o) => seq[s].seq_id # seq[o].seq_id
                  /\ Begun(s) /\ Taking(o) => seq[s].seq_id # seq[o].next
                  /\ Taking(s) /\ Taking(o) => seq[s].next # seq[o].next

IdsInv == SlotTypes /\ FirstRound

LEMMA IdsInit == Sent!Init => IdsInv
<1> SUFFICES ASSUME Sent!Init PROVE IdsInv
  OBVIOUS
<1>1. /\ job \in Jobs /\ curr_seq_id = 0
      /\ seq = [s \in Sent!Slots |-> Sent!NewSequenceStatus]
  BY DEF Sent!Init
<1>2. \A s \in Sent!Slots : seq[s] = Sent!NewSequenceStatus
  BY <1>1
<1>3. seq = [s \in Sent!Slots |-> seq[s]]
  BY <1>1, <1>2
<1>4. \A s \in Sent!Slots : ~Begun(s) /\ ~Taking(s)
  BY <1>2 DEF Sent!NewSequenceStatus, Begun, Taking
<1>5. SlotTypes
  <2>1. Status(Sent!NewSequenceStatus)
    BY DEF Sent!NewSequenceStatus, Status, StatusFields
  <2> QED
    BY <1>1, <1>2, <1>3, <2>1 DEF SlotTypes, Sent!NewSequenceStatus
<1> QED
  BY <1>4, <1>5 DEF IdsInv, FirstRound

\* What a step does to one slot, the others staying as they are.
LEMMA UpdateSlot ==
  ASSUME SlotTypes, NEW s \in Sent!Slots, NEW st, Status(st), job' = job,
         seq' = [seq EXCEPT ![s] = st]
  PROVE  /\ Sent!Slots' = Sent!Slots
         /\ seq' = [t \in Sent!Slots |-> seq'[t]]
         /\ seq'[s] = st
         /\ \A o \in Sent!Slots \ {s} : seq'[o] = seq[o]
BY DEF SlotTypes, Sent!Slots

\* TakeSeqId: the counter's value was given to nobody before.
LEMMA TakeIds ==
  ASSUME Sent!JobsOK, IdsInv, NEW s \in Sent!Slots, Sent!TakeSeqId(s)
  PROVE  IdsInv'
<1> DEFINE st == [seq[s] EXCEPT !.next = Sent!NextSeqId, !.phase = "compare"]
<1>1. /\ curr_seq_id' = curr_seq_id + 1 /\ job' = job
      /\ seq' = [seq EXCEPT ![s] = st]
      /\ seq[s].phase = "idle" /\ seq[s].remaining = 0
  BY DEF Sent!TakeSeqId, IdsInv, SlotTypes
<1>2. /\ job \in Jobs /\ curr_seq_id \in Nat /\ SlotTypes
      /\ job.start_id \in Nat \ {0} /\ job.range \in Nat
  BY DEF IdsInv, SlotTypes, Sent!JobsOK
<1>3. Status(seq[s])
  BY <1>2 DEF SlotTypes
<1>4. /\ Status(st) /\ st.phase = "compare" /\ st.next = Sent!NextSeqId
      /\ st.seq_id = seq[s].seq_id /\ st.remaining = seq[s].remaining
      /\ st.count = seq[s].count /\ st.ok = seq[s].ok
  <2>1. Status(st)
    BY <1>3 DEF Status
  <2>2. st.phase = "compare" /\ st.next = Sent!NextSeqId
    BY <1>3 DEF Status, StatusFields
  <2>3. st.seq_id = seq[s].seq_id /\ st.remaining = seq[s].remaining
    BY <1>3 DEF Status, StatusFields
  <2>4. st.count = seq[s].count /\ st.ok = seq[s].ok
    BY <1>3 DEF Status, StatusFields
  <2> QED
    BY <2>1, <2>2, <2>3, <2>4
<1> HIDE DEF st
<1>5. /\ Sent!Slots' = Sent!Slots /\ seq' = [t \in Sent!Slots |-> seq'[t]]
      /\ seq'[s] = st /\ \A o \in Sent!Slots \ {s} : seq'[o] = seq[o]
  BY <1>1, <1>2, <1>4, UpdateSlot
<1>6. SlotTypes'
  BY <1>1, <1>2, <1>4, <1>5 DEF SlotTypes, Begun
<1>7. FirstRound'
  <2> SUFFICES ASSUME curr_seq_id + 1 <= job.range
               PROVE  FirstRound'
    BY <1>1 DEF FirstRound
  <2>1. Sent!NextSeqId = curr_seq_id + job.start_id
    BY <1>2 DEF Sent!NextSeqId
  <2>2. /\ Given' = job.start_id .. job.start_id + curr_seq_id
        /\ Given = job.start_id .. job.start_id + curr_seq_id - 1
        /\ curr_seq_id <= job.range
    BY <1>1, <1>2 DEF Given
  <2>3. /\ \A o \in Sent!Slots : Begun(o)' <=> Begun(o)
        /\ \A o \in Sent!Slots : seq'[o].seq_id = seq[o].seq_id
        /\ \A o \in Sent!Slots \ {s} :
              (Taking(o)' <=> Taking(o)) /\ seq'[o].next = seq[o].next
        /\ seq'[s].next = curr_seq_id + job.start_id
    BY <1>4, <1>5, <2>1 DEF Begun, Taking
  <2>4. /\ \A o \in Sent!Slots : Begun(o) => seq[o].seq_id \in Given
        /\ \A o \in Sent!Slots : Taking(o) => seq[o].next \in Given
    BY <2>2 DEF IdsInv, FirstRound
  <2>5. /\ \A x \in Given : x # curr_seq_id + job.start_id
        /\ \A x \in Given : x < curr_seq_id + job.start_id
        /\ \A x \in Given : x \in Given'
        /\ curr_seq_id + job.start_id \in Given'
    BY <1>2, <2>2
  <2>6. ~Taking(s)
    BY <1>1 DEF Taking
  <2> QED
    BY <1>5, <2>2, <2>3, <2>4, <2>5, <2>6 DEF IdsInv, FirstRound
<1> QED
  BY <1>6, <1>7 DEF IdsInv

\* The other steps of a slot s make st of its status: it has no id that the
\* slot did not have before.
KeepsIds(s, st) ==
    LET begun == st.count # 0 \/ ~st.ok
        taking == st.phase \in {"compare", "begin"}
    IN  /\ Status(st)
        /\ st.count \in Nat /\ st.ok \in BOOLEAN
        /\ st.phase \in {"idle", "compare", "begin"}
        /\ ~begun => st.seq_id = 0 /\ st.remaining = 0
        /\ begun => \/ Begun(s) /\ st.seq_id = seq[s].seq_id
                    \/ Taking(s) /\ ~taking /\ st.seq_id = seq[s].next
        /\ taking /\ curr_seq_id <= job.range =>
              Taking(s) /\ st.next = seq[s].next

LEMMA SlotKeepsIds ==
  ASSUME IdsInv, NEW s \in Sent!Slots, NEW st, KeepsIds(s, st), job' = job,
         curr_seq_id' = curr_seq_id, seq' = [seq EXCEPT ![s] = st]
  PROVE  IdsInv'
<1>1. SlotTypes /\ Status(st)
  BY DEF IdsInv, KeepsIds
<1>2. /\ Sent!Slots' = Sent!Slots /\ seq' = [t \in Sent!Slots |-> seq'[t]]
      /\ seq'[s] = st /\ \A o \in Sent!Slots \ {s} : seq'[o] = seq[o]
  BY <1>1, UpdateSlot
<1>3. Begun(s)' => \/ Begun(s) /\ seq'[s].seq_id = seq[s].seq_id
                   \/ /\ Taking(s) /\ ~Taking(s)'
                      /\ seq'[s].seq_id = seq[s].next
  BY <1>2 DEF KeepsIds, Begun, Taking
<1>4. Taking(s)' /\ curr_seq_id <= job.range =>
        Taking(s) /\ seq'[s].next = seq[s].next
  BY <1>2 DEF KeepsIds, Taking
<1>5. SlotTypes'
  BY <1>1, <1>2 DEF SlotTypes, KeepsIds, Begun
<1>6. FirstRound'
  <2> SUFFICES ASSUME curr_seq_id <= job.range PROVE FirstRound'
    BY DEF FirstRound
  <2>1. Given' = Given
    BY DEF Given
  <2>2. \A o \in Sent!Slots \ {s} :
           /\ Begun(o)' <=> Begun(o)
           /\ Taking(o)' <=> Taking(o)
           /\ seq'[o].seq_id = seq[o].seq_id
           /\ seq'[o].next = seq[o].next
    BY <1>2 DEF Begun, Taking
  <2>3. ASSUME NEW x \in Sent!Slots
        PROVE  /\ Begun(x) => seq[x].seq_id \in Given
               /\ Taking(x) => seq[x].next \in Given
               /\ Begun(x) /\ Taking(x) => seq[x].seq_id < seq[x].next
               /\ \A o \in Sent!Slots \ {x} :
                    /\ Begun(x) /\ Begun(o) => seq[x].seq_id # seq[o].seq_id
                    /\ Begun(x) /\ Taking(o) => seq[x].seq_id # seq[o].next
                    /\ Taking(x) /\ Taking(o) => seq[x].next # seq[o].next
    BY DEF IdsInv, FirstRound
  <2>4. ASSUME NEW x \in Sent!Slots
        PROVE  /\ Begun(x)' => seq'[x].seq_id \in Given
               /\ Taking(x)' => seq'[x].next \in Given
               /\ Begun(x)' /\ Taking(x)' => seq'[x].seq_id < seq'[x].next
    BY <1>3, <1>4, <2>2, <2>3
  <2>5. ASSUME NEW x \in Sent!Slots, NEW o \in Sent!Slots \ {x}
        PROVE  /\ Begun(x)' /\ Begun(o)' => seq'[x].seq_id # seq'[o].seq_id
               /\ Begun(x)' /\ Taking(o)' => seq'[x].seq_id # seq'[o].next
               /\ Taking(x)' /\ Taking(o)' => seq'[x].next # seq'[o].next
    <3>1. CASE x # s /\ o # s
      BY <2>2, <2>3, <3>1
    <3>2. CASE x = s
      <4>1. o # s /\ x \in Sent!Slots \ {o}
        BY <3>2
      <4>2. CASE Begun(o)
        BY <1>3, <1>4, <2>2, <2>3, <3>2, <4>1, <4>2
      <4>3. CASE ~Begun(o)
        BY <1>3, <1>4, <2>2, <2>3, <3>2, <4>1, <4>3
      <4> QED
        BY <4>2, <4>3
    <3>3. CASE o = s
      <4>1. x # s /\ x \in Sent!Slots \ {o}
        BY <3>3
      <4> QED
        BY <1>3, <1>4, <2>2, <2>3, <3>3, <4>1
    <3> QED
      BY <3>1, <3>2, <3>3
  <2> QED
    BY <1>2, <2>1, <2>4, <2>5 DEF FirstRound
<1> QED
  BY <1>5, <1>6 DEF IdsInv

\* CompareSeqId: in the first round no slot has the id that was taken, not
\* even one that has had no sequence yet, whose id is 0.
LEMMA CompareIds ==
  ASSUME Sent!JobsOK, IdsInv, NEW s \in Sent!Slots, Sent!CompareSeqId(s)
  PROVE  IdsInv'
<1> DEFINE next == IF \E i \in Sent!Slots : seq[i].seq_id = seq[s].next
                   THEN seq[s].seq_id ELSE seq[s].next
           st == [seq[s] EXCEPT !.phase = "begin", !.next = next]
<1>1. /\ curr_seq_id' = curr_seq_id /\ job' = job
      /\ seq' = [seq EXCEPT ![s] = st]
      /\ seq[s].phase = "compare" /\ Status(seq[s])
  BY DEF Sent!CompareSeqId, IdsInv, SlotTypes, Status, StatusFields
<1> HIDE DEF next
<1>2. /\ Status(st) /\ st.phase = "begin" /\ st.next = next
      /\ st.seq_id = seq[s].seq_id /\ st.remaining = seq[s].remaining
      /\ st.count = seq[s].count /\ st.ok = seq[s].ok
  <2>1. Status(st)
    BY <1>1 DEF Status
  <2>2. st.phase = "begin" /\ st.next = next
    BY <1>1 DEF Status, StatusFields
  <2>3. st.seq_id = seq[s].seq_id /\ st.remaining = seq[s].remaining
    BY <1>1 DEF Status, StatusFields
  <2>4. st.count = seq[s].count /\ st.ok = seq[s].ok
    BY <1>1 DEF Status, StatusFields
  <2> QED
    BY <2>1, <2>2, <2>3, <2>4
<1> HIDE DEF st
<1>3. Taking(s)
  BY <1>1 DEF Taking
<1>4. ASSUME curr_seq_id <= job.range
      PROVE  next = seq[s].next
  <2>1. /\ job.start_id \in Nat \ {0} /\ curr_seq_id \in Nat
        /\ seq[s].next \in Given
        /\ Begun(s) => seq[s].seq_id < seq[s].next
    BY <1>3, <1>4 DEF Sent!JobsOK, IdsInv, SlotTypes, FirstRound
  <2>2. seq[s].next \in Nat \ {0}
    BY <2>1 DEF Given
  <2>3. ASSUME NEW i \in Sent!Slots, seq[i].seq_id = seq[s].next
        PROVE  FALSE
    <3>1. Begun(i)
      BY <2>2, <2>3 DEF IdsInv, SlotTypes
    <3>2. i # s
      BY <2>1, <2>2, <2>3, <3>1
    <3> QED
      BY <1>3, <1>4, <2>3, <3>1, <3>2 DEF IdsInv, FirstRound
  <2> QED
    BY <2>3 DEF next
<1>5. KeepsIds(s, st)
  BY <1>2, <1>3, <1>4 DEF KeepsIds, IdsInv, SlotTypes, Begun
<1> QED
  BY <1>1, <1>5, SlotKeepsIds

\* SendRequest changes neither the id of a sequence nor its phase.
LEMMA SendChanges ==
  ASSUME NEW s, NEW st, Status(st), st.count \in Nat, st.ok \in BOOLEAN,
         NEW start, NEW pos, Sent!SendOf(s, st, start, pos)
  PROVE  \E u : /\ seq' = [seq EXCEPT ![s] = u] /\ Status(u)
                /\ u.seq_id = st.seq_id /\ u.phase = st.phase
                /\ u.count \in Nat /\ u.ok \in BOOLEAN
                /\ u.count # 0 \/ ~u.ok
<1>1. CASE Sent!InitInferDataOk
  <2>1. PICK req : seq' = [seq EXCEPT ![s] = [st EXCEPT
                     !.remaining = @ - 1, !.count = @ + 1, !.req = req]]
    BY <1>1 DEF Sent!SendOf
  <2> DEFINE less == st.remaining - 1
             more == st.count + 1
             u == [st EXCEPT !.remaining = less, !.count = more, !.req = req]
  <2>2. seq' = [seq EXCEPT ![s] = u]
    BY <2>1 DEF Status, StatusFields
  <2>3. more \in Nat /\ more # 0
    OBVIOUS
  <2> HIDE DEF less, more
  <2>4. Status(u)
    BY DEF Status
  <2>5. u.seq_id = st.seq_id /\ u.phase = st.phase
    BY DEF Status, StatusFields
  <2>6. u.count = more /\ u.ok = st.ok
    BY DEF Status, StatusFields
  <2> HIDE DEF u
  <2> QED
    BY <2>2, <2>3, <2>4, <2>5, <2>6
<1>2. CASE ~Sent!InitInferDataOk
  <2> DEFINE u == [st EXCEPT !.ok = FALSE, !.remaining = 0]
  <2>1. seq' = [seq EXCEPT ![s] = u]
    BY <1>2 DEF Sent!SendOf
  <2>2. Status(u)
    BY DEF Status
  <2>3. u.seq_id = st.seq_id /\ u.phase = st.phase
    BY DEF Status, StatusFields
  <2>4. u.count = st.count /\ u.ok = FALSE
    BY DEF Status, StatusFields
  <2> HIDE DEF u
  <2> QED
    BY <2>1, <2>2, <2>3, <2>4
<1> QED
  BY <1>1, <1>2

\* InitNewSequence gives the sequence the id that was taken.
LEMMA NewSequenceIs ==
  ASSUME NEW s, Status(seq[s]), NEW st \in Sent!NewSequences(s)
  PROVE  /\ Status(st) /\ st.seq_id = seq[s].next /\ st.phase = "idle"
         /\ st.count = 0 /\ st.ok = seq[s].ok
<1>1. PICK draw :
        st = [seq[s] EXCEPT !.seq_id = seq[s].next, !.phase = "idle",
                            !.count = 0,
                            !.data_stream_id =
                                IF Sent!Json THEN draw[1] ELSE @,
                            !.length = IF Sent!Json THEN draw[2] ELSE @,
                            !.remaining = draw[2]]
  BY DEF Sent!NewSequences
<1>2. Status(st)
  BY <1>1 DEF Status
<1>3. st.seq_id = seq[s].next /\ st.phase = "idle"
  BY <1>1 DEF Status, StatusFields
<1>4. st.count = 0 /\ st.ok = seq[s].ok
  BY <1>1 DEF Status, StatusFields
<1> QED
  BY <1>2, <1>3, <1>4

LEMMA BeginIds ==
  ASSUME IdsInv, NEW s \in Sent!Slots, Sent!BeginSequence(s)
  PROVE  IdsInv'
<1>1. /\ curr_seq_id' = curr_seq_id /\ job' = job
      /\ seq[s].phase = "begin" /\ Status(seq[s]) /\ seq[s].ok \in BOOLEAN
  BY DEF Sent!BeginSequence, IdsInv, SlotTypes
<1>2. PICK st \in Sent!NewSequences(s) : Sent!SendOf(s, st, TRUE, 0)
  BY DEF Sent!BeginSequence
<1>3. /\ Status(st) /\ st.seq_id = seq[s].next /\ st.phase = "idle"
      /\ st.count = 0 /\ st.ok = seq[s].ok
  BY <1>1, NewSequenceIs
<1>4. PICK u : /\ seq' = [seq EXCEPT ![s] = u] /\ Status(u)
               /\ u.seq_id = st.seq_id /\ u.phase = st.phase
               /\ u.count \in Nat /\ u.ok \in BOOLEAN
               /\ u.count # 0 \/ ~u.ok
  <2>1. st.count \in Nat /\ st.ok \in BOOLEAN
    BY <1>1, <1>3
  <2>2. Status(st) /\ Sent!SendOf(s, st, TRUE, 0)
    BY <1>2, <1>3
  <2> QED
    BY <2>1, <2>2, SendChanges, Zenon
<1>5. KeepsIds(s, u)
  BY <1>1, <1>3, <1>4 DEF KeepsIds, Taking
<1> QED
  BY <1>1, <1>4, <1>5, SlotKeepsIds

LEMMA ContinueIds ==
  ASSUME IdsInv, NEW s \in Sent!Slots,
         Sent!ContinueSequence(s) \/ Sent!CompleteOngoingSequence(s)
  PROVE  IdsInv'
<1>1. /\ curr_seq_id' = curr_seq_id /\ job' = job
      /\ seq[s].phase = "idle" /\ seq[s].remaining > 0
      /\ Status(seq[s]) /\ seq[s].count \in Nat /\ seq[s].ok \in BOOLEAN
  BY DEF Sent!ContinueSequence, Sent!CompleteOngoingSequence, IdsInv, SlotTypes
<1>2. Begun(s)
  <2>1. ~(0 > 0)
    OBVIOUS
  <2> QED
    BY <1>1, <2>1 DEF IdsInv, SlotTypes
<1>3. PICK st, start, pos :
        /\ Sent!SendOf(s, st, start, pos)
        /\ Status(st) /\ st.seq_id = seq[s].seq_id /\ st.phase = "idle"
        /\ st.count = seq[s].count /\ st.ok = seq[s].ok
  <2>1. CASE Sent!ContinueSequence(s)
    BY <1>1, <2>1 DEF Sent!ContinueSequence
  <2>2. CASE Sent!CompleteOngoingSequence(s)
    <3> DEFINE st == [seq[s] EXCEPT !.remaining = 1]
    <3>1. Sent!SendOf(s, st, FALSE, seq[s].length - 1)
      BY <2>2 DEF Sent!CompleteOngoingSequence
    <3>2. Status(st)
      BY <1>1 DEF Status
    <3>3. st.seq_id = seq[s].seq_id /\ st.phase = "idle"
      BY <1>1 DEF Status, StatusFields
    <3>4. st.count = seq[s].count /\ st.ok = seq[s].ok
      BY <1>1 DEF Status, StatusFields
    <3> HIDE DEF st
    <3> QED
      BY <3>1, <3>2, <3>3, <3>4
  <2> QED
    BY <2>1, <2>2
<1>4. PICK u : /\ seq' = [seq EXCEPT ![s] = u] /\ Status(u)
               /\ u.seq_id = st.seq_id /\ u.phase = st.phase
               /\ u.count \in Nat /\ u.ok \in BOOLEAN
               /\ u.count # 0 \/ ~u.ok
  <2>1. st.count \in Nat /\ st.ok \in BOOLEAN
    BY <1>1, <1>3
  <2>2. Status(st) /\ Sent!SendOf(s, st, start, pos)
    BY <1>3
  <2> QED
    BY <2>1, <2>2, SendChanges, Zenon
<1>5. KeepsIds(s, u)
  BY <1>2, <1>3, <1>4 DEF KeepsIds
<1> QED
  BY <1>1, <1>4, <1>5, SlotKeepsIds

\* The other steps have nothing to do with sequences.
OtherStep ==
    \/ Sent!ReadDataFromJSON \/ Sent!ReadOrGenerate
    \/ Sent!InitInputs \/ Sent!InitRegion \/ Sent!RegionsReady
    \/ \E t \in Sent!Threads : Sent!InitContext(t) \/ Sent!SendInferRequest(t)
    \/ Sent!Stop \/ Sent!Joined \/ Sent!Destroy \/ Sent!Ended
    \/ UNCHANGED Sent!vars

LEMMA IdsStep ==
  ASSUME Sent!JobsOK, IdsInv, [Sent!Next]_Sent!vars
  PROVE  IdsInv'
<1>1. CASE OtherStep
  <2>1. UNCHANGED <<job, seq, curr_seq_id>>
    BY <1>1 DEF OtherStep, Sent!ReadDataFromJSON, Sent!ReadOrGenerate,
         Sent!InitInputs, Sent!InitRegion, Sent!RegionsReady,
         Sent!InitContext, Sent!SendInferRequest, Sent!Stop,
         Sent!Joined, Sent!Destroy, Sent!Ended, Sent!vars
  <2>2. job' = job /\ seq' = seq /\ curr_seq_id' = curr_seq_id
    BY <2>1
  <2>3. Sent!Slots' = Sent!Slots /\ Given' = Given
    BY <2>2 DEF Sent!Slots, Given
  <2>4. SlotTypes'
    BY <2>2, <2>3 DEF IdsInv, SlotTypes, Begun
  <2>5. FirstRound'
    BY <2>2, <2>3 DEF IdsInv, FirstRound, Begun, Taking
  <2> QED
    BY <2>4, <2>5 DEF IdsInv
<1>2. ASSUME NEW s \in Sent!Slots, Sent!TakeSeqId(s)
      PROVE  IdsInv'
  BY <1>2, TakeIds
<1>3. ASSUME NEW s \in Sent!Slots, Sent!CompareSeqId(s)
      PROVE  IdsInv'
  BY <1>3, CompareIds
<1>4. ASSUME NEW s \in Sent!Slots, Sent!BeginSequence(s)
      PROVE  IdsInv'
  BY <1>4, BeginIds
<1>5. ASSUME NEW s \in Sent!Slots,
             Sent!ContinueSequence(s) \/ Sent!CompleteOngoingSequence(s)
      PROVE  IdsInv'
  BY <1>5, ContinueIds
<1> QED
  BY <1>1, <1>2, <1>3, <1>4, <1>5 DEF Sent!Next, OtherStep

\* In the first round the ids of the open sequences are distinct.
LEMMA IdsImply ==
  ASSUME Sent!JobsOK, IdsInv
  PROVE  Sent!OpenIdsDistinct
<1>0. DOMAIN seq = Sent!Slots
  BY DEF IdsInv, SlotTypes
<1> SUFFICES ASSUME curr_seq_id <= job.range,
                    NEW s \in Sent!Slots, seq[s].remaining > 0
             PROVE  /\ seq[s].seq_id \in
                         job.start_id .. job.start_id + job.range - 1
                    /\ \A o \in Sent!Slots : o # s /\ seq[o].remaining > 0 =>
                          seq[o].seq_id # seq[s].seq_id
  BY <1>0 DEF Sent!OpenIdsDistinct
<1>1. ~(0 > 0)
  OBVIOUS
<1>2. ASSUME NEW o \in Sent!Slots, seq[o].remaining > 0
      PROVE  Begun(o)
  BY <1>1, <1>2 DEF IdsInv, SlotTypes, Begun
<1>3. seq[s].seq_id \in Given
  BY <1>2 DEF IdsInv, FirstRound
<1>4. /\ job.start_id \in Nat /\ job.range \in Nat /\ curr_seq_id \in Nat
  BY DEF Sent!JobsOK, IdsInv, SlotTypes
<1>5. seq[s].seq_id \in job.start_id .. job.start_id + job.range - 1
  BY <1>3, <1>4 DEF Given
<1>6. \A o \in Sent!Slots : o # s /\ seq[o].remaining > 0 =>
         seq[o].seq_id # seq[s].seq_id
  BY <1>2 DEF IdsInv, FirstRound
<1> QED
  BY <1>5, <1>6

-----------------------------------------------------------------------------
(* Shared memory.                                                          *)

\* No request has been sent.
NothingSent ==
    /\ \A s \in Sent!Slots : seq[s].count = 0
    /\ \A t \in Sent!Threads : ctx[t].sent = 0

\* The memory that was allocated for regions that are not kept.
Stray == regions.allocated \ regions.owned

\* Sequences are touched only while the workers run.
QuietOutsideRun ==
    /\ seq = [s \in Sent!Slots |-> seq[s]]
    /\ ctx = [t \in Sent!Threads |-> ctx[t]]
    /\ stage \notin {"run", "stop"} =>
          \A s \in Sent!Slots : seq[s].phase = "idle"
    /\ stage \in {"load", "prepare"} => NothingSent

\* Until the manager is destroyed, what is registered is what is kept, and
\* memory is stray only when making its region ended the run before a request.
RegionsKept ==
    stage # "end" =>
        /\ regions.registered = regions.owned
        /\ regions.owned \subseteq regions.allocated
        /\ \/ Stray = {}
           \/ /\ stage = "destroy" /\ NothingSent
              /\ \E r : Stray \subseteq {r}

RegionsInv == QuietOutsideRun /\ RegionsKept /\ Sent!RegionsReleased

LEMMA RegionsInit == Sent!Init => RegionsInv
<1> SUFFICES ASSUME Sent!Init PROVE RegionsInv
  OBVIOUS
<1>1. /\ stage = "load" /\ regions = Sent!NoRegions
      /\ ctx = [t \in Sent!Threads |-> Sent!NewContext(t)]
      /\ seq = [s \in Sent!Slots |-> Sent!NewSequenceStatus]
  BY DEF Sent!Init
<1>2. \A s \in Sent!Slots : seq[s].count = 0 /\ seq[s].phase = "idle"
  BY <1>1 DEF Sent!NewSequenceStatus
<1>3. \A t \in Sent!Threads : ctx[t].sent = 0
  BY <1>1 DEF Sent!NewContext
<1>4. /\ seq = [s \in Sent!Slots |-> seq[s]]
      /\ ctx = [t \in Sent!Threads |-> ctx[t]]
  BY <1>1
<1>5. QuietOutsideRun
  BY <1>2, <1>3, <1>4 DEF QuietOutsideRun, NothingSent
<1>6. RegionsKept /\ Sent!RegionsReleased
  BY <1>1 DEF RegionsKept, Sent!RegionsReleased, Sent!NoRegions, Stray
<1> QED
  BY <1>5, <1>6 DEF RegionsInv

\* Steps that leave the regions and the sequences alone, and the contexts too
\* or the place where the run is.
LEMMA RegionsUntouched ==
  ASSUME RegionsInv, UNCHANGED <<job, regions, seq, ctx>>,
         \/ stage = "load" /\ stage' \in {"load", "prepare", "destroy"}
         \/ stage = "prepare" /\ stage' \in {"prepare", "run", "destroy"}
         \/ stage = "run" /\ stage' = "stop"
         \/ /\ stage = "stop" /\ stage' = "destroy"
            /\ \A s \in Sent!Slots : seq[s].phase = "idle"
         \/ stage' = stage
  PROVE  RegionsInv'
<1>1. /\ job' = job /\ regions' = regions /\ seq' = seq /\ ctx' = ctx
      /\ Sent!Slots' = Sent!Slots /\ Sent!Threads' = Sent!Threads
  BY DEF Sent!Slots, Sent!Threads
<1>2. NothingSent' <=> NothingSent
  BY <1>1 DEF NothingSent
<1>3. Stray' = Stray
  BY <1>1 DEF Stray
<1>4. QuietOutsideRun'
  BY <1>1, <1>2 DEF RegionsInv, QuietOutsideRun
<1>5. RegionsKept'
  BY <1>1, <1>2, <1>3 DEF RegionsInv, RegionsKept
<1>6. Sent!RegionsReleased'
  BY <1>1 DEF RegionsInv, Sent!RegionsReleased
<1> QED
  BY <1>4, <1>5, <1>6 DEF RegionsInv

\* The steps of the workers leave the regions alone.
LEMMA RegionsWhileRunning ==
  ASSUME RegionsInv, UNCHANGED <<job, stage, regions>>,
         stage \in {"run", "stop"},
         seq' = [s \in Sent!Slots |-> seq'[s]],
         ctx' = [t \in Sent!Threads |-> ctx'[t]]
  PROVE  RegionsInv'
<1>1. /\ Sent!Slots' = Sent!Slots /\ Sent!Threads' = Sent!Threads
      /\ Stray' = Stray
  BY DEF Sent!Slots, Sent!Threads, Stray
<1>2. QuietOutsideRun'
  BY <1>1 DEF QuietOutsideRun
<1>3. RegionsKept'
  BY <1>1 DEF RegionsInv, RegionsKept
<1>4. Sent!RegionsReleased'
  BY DEF Sent!RegionsReleased
<1> QED
  BY <1>2, <1>3, <1>4 DEF RegionsInv

LEMMA RegionsInitRegion ==
  ASSUME RegionsInv, Sent!InitRegion
  PROVE  RegionsInv'
<1>1. /\ stage = "prepare" /\ UNCHANGED <<job, seq, ctx>>
      /\ NothingSent /\ Stray = {}
  BY DEF Sent!InitRegion, RegionsInv, QuietOutsideRun, RegionsKept
<1>2. Sent!Slots' = Sent!Slots /\ Sent!Threads' = Sent!Threads /\ NothingSent'
  BY <1>1 DEF Sent!Slots, Sent!Threads, NothingSent
<1>3. CASE UNCHANGED regions
  <2>1. stage' \in {"prepare", "destroy"}
    BY <1>1 DEF Sent!InitRegion
  <2> QED
    BY <1>1, <1>3, <2>1, RegionsUntouched
<1>4. ASSUME NEW r, NEW done \in 0 .. 3, NEW copied \in BOOLEAN,
             regions' = Sent!CreateMemoryRegion(r, done),
             stage' = IF done = 3 /\ copied THEN stage ELSE "destroy"
      PROVE  RegionsInv'
  <2>1. /\ regions'.allocated = regions.allocated \cup
                                  (IF done > 0 THEN {r} ELSE {})
        /\ regions'.owned = regions.owned \cup
                              (IF done = 3 THEN {r} ELSE {})
        /\ regions'.registered = regions.registered \cup
                                   (IF done = 3 THEN {r} ELSE {})
    BY <1>4 DEF Sent!CreateMemoryRegion
  <2>2. /\ regions.registered = regions.owned
        /\ regions.owned \subseteq regions.allocated
    BY <1>1 DEF RegionsInv, RegionsKept
  <2>3. /\ regions'.registered = regions'.owned
        /\ regions'.owned \subseteq regions'.allocated
    BY <2>1, <2>2
  <2>4. Stray' \subseteq {r} /\ (done = 3 => Stray' = {})
    BY <1>1, <2>1 DEF Stray
  <2>5. RegionsKept'
    BY <1>1, <1>2, <1>4, <2>3, <2>4 DEF RegionsKept
  <2>6. QuietOutsideRun'
    BY <1>1, <1>2, <1>4 DEF RegionsInv, QuietOutsideRun
  <2>7. Sent!RegionsReleased'
    BY <1>1, <1>4 DEF Sent!RegionsReleased
  <2> QED
    BY <2>5, <2>6, <2>7 DEF RegionsInv
<1> QED
  BY <1>3, <1>4 DEF Sent!InitRegion, Sent!CopySharedMemory

LEMMA RegionsDestroy ==
  ASSUME RegionsInv, Sent!Destroy
  PROVE  RegionsInv'
<1>1. /\ stage = "destroy" /\ stage' = "end" /\ regions' = Sent!ReleaseRegions
      /\ UNCHANGED <<job, seq, ctx>>
  BY DEF Sent!Destroy
<1>2. Sent!Slots' = Sent!Slots /\ Sent!Threads' = Sent!Threads
  BY <1>1 DEF Sent!Slots, Sent!Threads
<1>3. QuietOutsideRun' /\ RegionsKept'
  BY <1>1, <1>2 DEF RegionsInv, QuietOutsideRun, RegionsKept
<1>4. Sent!RegionsReleased'
  <2> SUFFICES ASSUME ~(job.shm = "cuda" /\ ~job.in_process)
               PROVE  Sent!RegionsReleased'
    BY <1>1 DEF Sent!RegionsReleased
  <2>1. /\ regions'.allocated = Stray
        /\ \/ job.shm = "system" /\ job.in_process
           \/ regions'.registered = {}
    BY <1>1 DEF Sent!ReleaseRegions, Stray
  <2>2. \/ Stray = {}
        \/ NothingSent /\ \E r : Stray \subseteq {r}
    BY <1>1 DEF RegionsInv, RegionsKept
  <2>3. Cardinality(Stray) <= 1
    <3>1. CASE Stray = {}
      BY <3>1, FS_EmptySet
    <3>2. CASE \E r : Stray = {r}
      BY <3>2, FS_Singleton
    <3>3. Stray = {} \/ \E r : Stray = {r}
      BY <2>2
    <3> QED
      BY <3>1, <3>2, <3>3
  <2>4. DOMAIN seq = Sent!Slots /\ DOMAIN ctx = Sent!Threads
    BY DEF RegionsInv, QuietOutsideRun
  <2>5. (\E s \in DOMAIN seq : seq[s].count > 0)
          \/ (\E t \in DOMAIN ctx : ctx[t].sent > 0) => Stray = {}
    <3>1. ~(0 > 0)
      OBVIOUS
    <3> QED
      BY <2>2, <2>4, <3>1 DEF NothingSent
  <2>6. Sent!Cardinality(regions'.allocated) <= 1
    BY <2>1, <2>3 DEF Sent!Cardinality, Cardinality
  <2>7. (\E s \in DOMAIN seq' : seq'[s].count > 0)
          \/ (\E t \in DOMAIN ctx' : ctx'[t].sent > 0) =>
             regions'.allocated = {}
    BY <1>1, <2>1, <2>5
  <2> QED
    BY <1>1, <2>1, <2>6, <2>7 DEF Sent!RegionsReleased
<1> QED
  BY <1>3, <1>4 DEF RegionsInv

LEMMA RegionsStep ==
  ASSUME RegionsInv, [Sent!Next]_Sent!vars
  PROVE  RegionsInv'
<1>1. CASE Sent!ReadDataFromJSON \/ Sent!ReadOrGenerate
  <2>1. /\ UNCHANGED <<job, regions, seq, ctx>>
        /\ stage = "load" /\ stage' \in {"load", "prepare", "destroy"}
    BY <1>1 DEF Sent!ReadDataFromJSON, Sent!ReadOrGenerate
  <2> QED
    BY <2>1, RegionsUntouched
<1>2. CASE Sent!InitInputs \/ Sent!RegionsReady
  <2>1. /\ UNCHANGED <<job, regions, seq, ctx>>
        /\ stage = "prepare" /\ stage' \in {"run", "destroy"}
    BY <1>2 DEF Sent!InitInputs, Sent!RegionsReady
  <2> QED
    BY <2>1, RegionsUntouched
<1>3. CASE Sent!InitRegion
  BY <1>3, RegionsInitRegion
<1>4. ASSUME NEW t \in Sent!Threads,
             Sent!InitContext(t) \/ Sent!SendInferRequest(t)
      PROVE  RegionsInv'
  <2>1. UNCHANGED <<job, stage, regions, seq>> /\ stage = "run"
    BY <1>4 DEF Sent!InitContext, Sent!SendInferRequest
  <2>2. PICK c : ctx' = [ctx EXCEPT ![t] = c]
    BY <1>4 DEF Sent!InitContext, Sent!SendInferRequest
  <2>3. ctx' = [u \in Sent!Threads |-> ctx'[u]]
    BY <2>2 DEF RegionsInv, QuietOutsideRun
  <2>4. seq' = [s \in Sent!Slots |-> seq'[s]]
    BY <2>1 DEF RegionsInv, QuietOutsideRun
  <2> QED
    BY <2>1, <2>3, <2>4, RegionsWhileRunning
<1>5. ASSUME NEW s \in Sent!Slots,
             \/ Sent!TakeSeqId(s) \/ Sent!CompareSeqId(s)
             \/ Sent!BeginSequence(s) \/ Sent!ContinueSequence(s)
             \/ Sent!CompleteOngoingSequence(s)
      PROVE  RegionsInv'
  <2>1. UNCHANGED <<job, stage, regions, ctx>> /\ stage \in {"run", "stop"}
    <3>1. UNCHANGED <<job, stage, regions, ctx>>
      BY <1>5 DEF Sent!TakeSeqId, Sent!CompareSeqId, Sent!BeginSequence,
         Sent!ContinueSequence, Sent!CompleteOngoingSequence
    <3>2. stage \in {"run", "stop"} \/ seq[s].phase # "idle"
      BY <1>5 DEF Sent!TakeSeqId, Sent!CompareSeqId, Sent!BeginSequence,
         Sent!ContinueSequence, Sent!CompleteOngoingSequence
    <3> QED
      BY <3>1, <3>2 DEF RegionsInv, QuietOutsideRun
  <2>2. \E u : seq' = [seq EXCEPT ![s] = u]
    <3>1. CASE Sent!TakeSeqId(s) \/ Sent!CompareSeqId(s)
      BY <3>1 DEF Sent!TakeSeqId, Sent!CompareSeqId
    <3>2. ASSUME NEW st, NEW start, NEW pos, Sent!SendOf(s, st, start, pos)
          PROVE  \E u : seq' = [seq EXCEPT ![s] = u]
      BY <3>2 DEF Sent!SendOf
    <3>3. CASE Sent!BeginSequence(s)
      BY <3>2, <3>3, Zenon DEF Sent!BeginSequence
    <3>4. CASE Sent!ContinueSequence(s) \/ Sent!CompleteOngoingSequence(s)
      BY <3>2, <3>4, Zenon
         DEF Sent!ContinueSequence, Sent!CompleteOngoingSequence
    <3> QED
      BY <1>5, <3>1, <3>3, <3>4
  <2>3. seq' = [x \in Sent!Slots |-> seq'[x]]
    BY <2>2 DEF RegionsInv, QuietOutsideRun
  <2>4. ctx' = [t \in Sent!Threads |-> ctx'[t]]
    BY <2>1 DEF RegionsInv, QuietOutsideRun
  <2> QED
    BY <2>1, <2>3, <2>4, RegionsWhileRunning
<1>6. CASE Sent!Stop
  <2>1. /\ UNCHANGED <<job, regions, seq, ctx>>
        /\ stage = "run" /\ stage' = "stop"
    BY <1>6 DEF Sent!Stop
  <2> QED
    BY <2>1, RegionsUntouched
<1>7. CASE Sent!Joined
  <2>1. /\ UNCHANGED <<job, regions, seq, ctx>>
        /\ stage = "stop" /\ stage' = "destroy"
        /\ \A s \in Sent!Slots : seq[s].phase = "idle"
    BY <1>7 DEF Sent!Joined
  <2> QED
    BY <2>1, RegionsUntouched
<1>8. CASE Sent!Destroy
  BY <1>8, RegionsDestroy
<1>9. CASE Sent!Ended \/ UNCHANGED Sent!vars
  <2>1. UNCHANGED <<job, regions, seq, ctx>> /\ stage' = stage
    BY <1>9 DEF Sent!Ended, Sent!vars
  <2> QED
    BY <2>1, RegionsUntouched
<1> QED
  BY <1>1, <1>2, <1>3, <1>4, <1>5, <1>6, <1>7, <1>8, <1>9 DEF Sent!Next

-----------------------------------------------------------------------------
(* One invocation, from its command line to its exit status.               *)

\* Modes whose levels have no report of their own.
Unreported == {"PeriodicConcurrency", "SessionConcurrency"}

\* What a step of the end of main relies on: the steps before it were taken,
\* and the parameters do not change any more.
DeliveryInv ==
    /\ pc # "exited" => exit = "none" /\ interrupts \in {0, 1}
    /\ pc \in {"report", "export", "finalize"} =>
          /\ \/ results = "some" \/ interrupts = 1
             \/ params.mode \in Unreported \/ MayFindNone(params)
          /\ params.mode \in Unreported => results = "none"
          /\ "error" \in delivered => interrupts = 1
    /\ pc \in {"export", "finalize"} /\ results = "some" =>
          "summary" \in delivered
    /\ pc \notin {"report", "export", "finalize", "exited"} =>
          "error" \notin delivered
    /\ pc = "finalize" /\ params.profile_export => "export" \in delivered
    /\ ExitStatusTruthful

LEMMA DeliveryInit == Init => DeliveryInv
BY DEF Init, DeliveryInv, ExitStatusTruthful

LEMMA DeliveryStep ==
  ASSUME DeliveryInv, [Next]_vars
  PROVE  DeliveryInv'
<1> USE DEF DeliveryInv, ExitStatusTruthful, Exits
<1>1. CASE ReadOption
  BY <1>1 DEF ReadOption
<1>2. CASE ReadAll \/ Verify
  BY <1>2 DEF ReadAll, Verify
<1>3. CASE \/ CreateBackend \/ InitParser \/ CheckModel
           \/ CreateManager \/ InitManager
  BY <1>3 DEF CreateBackend, InitParser, CheckModel,
              CreateManager, InitManager
<1>4. CASE Profile
  BY <1>4 DEF Profile, Fatal, Outcomes, Unreported
<1>5. CASE WriteReport
  BY <1>5 DEF WriteReport, Unreported
<1>6. CASE GenerateProfileExport
  BY <1>6 DEF GenerateProfileExport
<1>7. CASE Finalize
  BY <1>7 DEF Finalize, Unreported
<1>8. CASE Interrupt
  BY <1>8 DEF Interrupt, SignalHandler
<1>9. CASE Exited \/ UNCHANGED vars
  BY <1>9 DEF Exited, vars
<1> QED
  BY <1>1, <1>2, <1>3, <1>4, <1>5, <1>6, <1>7, <1>8, <1>9 DEF Next

\* The parameters that say which calls the load makes, and of what.
Watched == {"kind", "stop", "protocol", "streaming", "async",
            "collect_metrics"}

\* What the parameters have in common from the first option on.
Parameters(p) == Watched \subseteq DOMAIN p /\ p.kind \in Kinds

\* What VerifyOptions settles about the service, and which Create does.
Vetted(p) ==
    /\ Parameters(p)
    /\ p.collect_metrics => p.kind = "TRITON"
    /\ p.streaming => p.kind # "TENSORFLOW_SERVING"
    /\ p.streaming => p.protocol = "GRPC" \/ p.kind = "TRITON_C_API"
    /\ p.kind = "OPENAI" => p.async
    /\ p.kind = "DYNAMIC_GRPC" => ~p.async

Created(p) == p.kind \in {"OPENAI", "TORCHSERVE"} => p.protocol = "HTTP"

RefusalInv ==
    /\ pc # "exited" => Parameters(params)
    /\ pc \notin {"options", "verify", "exited"} => Vetted(params)
    /\ pc \notin {"options", "verify", "backend", "exited"} =>
          Created(params)
    /\ pc = "checks" /\ IsSequenceModel(parser) =>
          params.kind \notin {"TORCHSERVE", "OPENAI", "DYNAMIC_GRPC"}

\* No option changes the kind of service to one that there is not.
LEMMA OptionKeepsKind ==
  ASSUME NEW p, Parameters(p), NEW o
  PROVE  Parameters(ParseOption(p, o))
<1> USE DEF Checked, Usage, Parameters, Watched
<1>1. ASSUME o.name \in SizingNames
      PROVE  Parameters(SizingOption(p, o))
  BY <1>1 DEF SizingNames, SizingOption
<1>2. Parameters(ConcurrencyRange(p, o))
  BY DEF ConcurrencyRange
<1>3. ASSUME o.name \in StabilityNames
      PROVE  Parameters(StabilityOption(p, o))
  BY <1>3 DEF StabilityNames, StabilityOption
<1>4. Parameters(RequestRateRange(p, o))
  BY DEF RequestRateRange
<1>5. ASSUME o.name \in ScheduleNames
      PROVE  Parameters(ScheduleOption(p, o))
  BY <1>5 DEF ScheduleNames, ScheduleOption
<1>6. ASSUME o.name \in ServiceNames
      PROVE  Parameters(ServiceOption(p, o))
  BY <1>6 DEF ServiceNames, ServiceOption
<1>7. Parameters(SequenceIdRange(p, o))
  BY DEF SequenceIdRange
<1>8. Parameters(SslOption(p, o))
  BY DEF SslOption
<1>9. ASSUME o.name \in ReportingNames
      PROVE  Parameters(ReportingOption(p, o))
  BY <1>9 DEF ReportingNames, ReportingOption
<1>10. Parameters(PeriodicConcurrencyRange(p, o))
  BY DEF PeriodicConcurrencyRange
<1>11. ASSUME o.name \in CountNames
       PROVE  Parameters(CountOption(p, o))
  BY <1>11 DEF CountNames, CountOption
<1>12. ASSUME o.name \in ShortNames
       PROVE  Parameters(ShortOption(p, o))
  BY <1>12 DEF ShortNames, ShortOption
<1>13. Parameters(InvalidOption(p, o))
  BY DEF InvalidOption
<1> HIDE DEF Checked, Usage, Parameters, Watched
<1> QED
  BY <1>1, <1>2, <1>3, <1>4, <1>5, <1>6, <1>7, <1>8, <1>9, <1>10, <1>11,
     <1>12, <1>13 DEF ParseOption, OptionNames

LEMMA FinishKeepsKind ==
  ASSUME NEW p, Parameters(p)
  PROVE  Parameters(FinishParsing(p))
<1> USE DEF Parameters, Watched
<1>1. ASSUME NEW q, Parameters(q)
      PROVE  Parameters(SelectMode(q)) /\ Parameters(DefaultUrl(q))
  BY <1>1 DEF SelectMode, DefaultUrl
<1>2. ASSUME NEW q, Parameters(q)
      PROVE  Parameters(DefaultThreads(q)) /\ Parameters(DefaultSearch(q))
  BY <1>2 DEF DefaultThreads, DefaultSearch
<1>3. ASSUME NEW q, Parameters(q)
      PROVE  Parameters(FixedScheduleCount(q)) /\ Parameters(CountWindows(q))
  BY <1>3 DEF FixedScheduleCount, CountWindows
<1> HIDE DEF Parameters, Watched
<1> QED
  BY <1>1, <1>2, <1>3 DEF FinishParsing

\* Parameters p and q make the same calls.
SameCalls(p, q) ==
    /\ Watched \subseteq DOMAIN q
    /\ q.kind = p.kind /\ q.streaming = p.streaming /\ q.async = p.async
    /\ q.collect_metrics = p.collect_metrics

LEMMA VerifyVets ==
  ASSUME NEW p, Parameters(p), NEW mpi, VerifyOptions(p, mpi).stop = ""
  PROVE  Vetted(VerifyOptions(p, mpi))
<1> DEFINE id == IF p.start_sequence_id = 0
                 THEN [p EXCEPT !.start_sequence_id = 1] ELSE p
           q == PeriodicThreads(id)
<1>1. SameCalls(p, id) /\ id.protocol = p.protocol
  BY DEF SameCalls, Parameters, Watched
<1> HIDE DEF id
<1>2. SameCalls(p, q) /\ q.protocol = p.protocol
  BY <1>1 DEF SameCalls, PeriodicThreads, Watched
<1> HIDE DEF q
<1>3. /\ SameCalls(p, ServiceDefaults(q))
      /\ \/ ServiceDefaults(q).protocol = p.protocol
         \/ p.kind = "TRITON_C_API"
         \/ ServiceDefaults(q).protocol = "GRPC"
  BY <1>2 DEF SameCalls, ServiceDefaults, Watched
<1>4. Usage(p).stop = "usage"
  BY DEF Usage, Parameters, Watched
<1>5. /\ BasicsOk(p) /\ ServiceOk(p) /\ MetricsOk(p)
      /\ VerifyOptions(p, mpi) = ServiceDefaults(q)
  BY <1>4 DEF VerifyOptions, q, id
<1>6. /\ p.collect_metrics => p.kind = "TRITON"
      /\ p.streaming => p.kind # "TENSORFLOW_SERVING"
      /\ p.streaming => p.protocol = "GRPC" \/ p.kind = "TRITON_C_API"
      /\ p.kind = "OPENAI" => p.async
      /\ p.kind = "DYNAMIC_GRPC" => ~p.async
  BY <1>5 DEF BasicsOk, ServiceOk, MetricsOk
<1> QED
  BY <1>3, <1>5, <1>6 DEF Vetted, SameCalls, Parameters

\* The default of the asynchronous API concerns only services that have both.
LEMMA ApiKeepsVetted ==
  ASSUME NEW p, Vetted(p), Created(p),
         IsSequenceModel(parser) =>
            p.kind \notin {"TORCHSERVE", "OPENAI", "DYNAMIC_GRPC"}
  PROVE  Vetted(ChooseApi(p)) /\ Created(ChooseApi(p))
<1> DEFINE q == IF IsSequenceModel(parser) /\ ~p.async
                THEN [p EXCEPT !.async = ~p.forced_sync] ELSE p
<1>1. Vetted(q) /\ Created(q)
  BY DEF Vetted, Created, Parameters, Watched
<1>2. ChooseApi(p) = IF q.streaming /\ q.kind # "DYNAMIC_GRPC"
                     THEN [q EXCEPT !.async = TRUE] ELSE q
  BY DEF ChooseApi
<1> HIDE DEF q
<1> QED
  BY <1>1, <1>2 DEF Vetted, Created, Parameters, Watched

LEMMA SettleKeepsVetted ==
  ASSUME NEW p, Vetted(p), Created(p)
  PROVE  Vetted(SettleConcurrency(p)) /\ Created(SettleConcurrency(p))
BY DEF SettleConcurrency, Vetted, Created, Parameters, Watched

LEMMA RefusalInit == Init => RefusalInv
<1>1. Parameters(DefaultParams)
  BY DEF Parameters, Watched, DefaultParams, Kinds
<1> QED
  BY <1>1 DEF Init, RefusalInv

LEMMA RefusalStep ==
  ASSUME RefusalInv, [Next]_vars
  PROVE  RefusalInv'
<1> USE DEF Exits
<1>1. CASE ReadOption
  <2>1. pc = "options" /\ Parameters(params) /\ pc' \in {"options", "exited"}
    BY <1>1 DEF ReadOption, RefusalInv
  <2>2. Parameters(params')
    BY <1>1, <2>1, OptionKeepsKind DEF ReadOption
  <2> QED
    BY <2>1, <2>2 DEF RefusalInv
<1>2. CASE ReadAll
  <2>1. pc = "options" /\ Parameters(params) /\ pc' \in {"verify", "exited"}
    BY <1>2 DEF ReadAll, RefusalInv
  <2>2. Parameters(params')
    BY <1>2, <2>1, FinishKeepsKind DEF ReadAll
  <2> QED
    BY <2>1, <2>2 DEF RefusalInv
<1>3. CASE Verify
  <2>1. pc = "verify" /\ Parameters(params)
    BY <1>3 DEF Verify, RefusalInv
  <2>2. CASE params'.stop = ""
    <3>1. pc' = "backend" /\ Vetted(params')
      BY <1>3, <2>1, <2>2, VerifyVets DEF Verify
    <3> QED
      BY <3>1 DEF RefusalInv, Vetted
  <2>3. CASE params'.stop # ""
    BY <1>3, <2>3 DEF Verify, RefusalInv
  <2> QED
    BY <2>2, <2>3
<1>4. CASE CreateBackend
  BY <1>4 DEF CreateBackend, Creatable, RefusalInv, Created
<1>5. CASE InitParser
  <2>1. pc = "parser" /\ UNCHANGED params /\ pc' \in {"checks", "exited"}
    BY <1>5 DEF InitParser
  <2>2. pc' = "checks" /\ IsSequenceModel(parser') =>
          params.kind \notin {"TORCHSERVE", "OPENAI", "DYNAMIC_GRPC"}
    <3> SUFFICES ASSUME parser'.status = "ok",
                        params.kind \in {"TORCHSERVE", "OPENAI",
                                         "DYNAMIC_GRPC"}
                 PROVE  ~IsSequenceModel(parser')
      BY <1>5, <2>1 DEF InitParser
    <3>1. parser' # ParserError
      BY DEF ParserError
    <3>2. parser' = InitUndescribed(params.kind, params.batch_size)
      BY <1>5, <3>1 DEF InitParser, Parsed
    <3>3. parser'.scheduler = "NONE"
      BY <3>2 DEF InitUndescribed, ParserError
    <3> QED
      BY <3>3 DEF IsSequenceModel
  <2>3. IsSequenceModel(parser)' <=> IsSequenceModel(parser')
    BY DEF IsSequenceModel
  <2> QED
    BY <2>1, <2>2, <2>3 DEF RefusalInv
<1>6. CASE CheckModel
  <2>1. /\ pc = "checks" /\ pc' \in {"manager", "exited"}
        /\ pc' = "manager" => params' = ChooseApi(params)
    BY <1>6 DEF CheckModel
  <2>2. Vetted(ChooseApi(params)) /\ Created(ChooseApi(params))
    BY <2>1, ApiKeepsVetted DEF RefusalInv
  <2> QED
    BY <2>1, <2>2 DEF RefusalInv, Vetted
<1>7. CASE CreateManager
  <2>1. /\ pc = "manager" /\ pc' \in {"init", "exited"}
        /\ pc' = "init" => params' = SettleConcurrency(params)
    BY <1>7 DEF CreateManager
  <2>2. /\ Vetted(SettleConcurrency(params))
        /\ Created(SettleConcurrency(params))
    BY <2>1, SettleKeepsVetted DEF RefusalInv
  <2> QED
    BY <2>1, <2>2 DEF RefusalInv, Vetted
<1>8. CASE \/ InitManager \/ Profile \/ WriteReport
           \/ GenerateProfileExport \/ Finalize \/ Interrupt
  <2>1. /\ UNCHANGED <<params, parser>>
        /\ \/ pc' \in {pc, "exited"}
           \/ /\ pc \notin {"options", "verify", "backend", "exited"}
              /\ pc' \in {"profile", "report", "export", "finalize"}
    BY <1>8 DEF InitManager, Profile, WriteReport, GenerateProfileExport,
                Finalize, Interrupt, SignalHandler
  <2> QED
    BY <2>1 DEF RefusalInv, IsSequenceModel
<1>9. CASE Exited \/ UNCHANGED vars
  BY <1>9 DEF Exited, vars, RefusalInv, IsSequenceModel
<1> QED
  BY <1>1, <1>2, <1>3, <1>4, <1>5, <1>6, <1>7, <1>8, <1>9 DEF Next

LEMMA RefusalImplies == RefusalInv => RefusedBeforeLoad
<1> SUFFICES ASSUME RefusalInv, Running,
                    ~(params.kind = "TORCHSERVE" /\ params.async),
                    ~(params.kind = "DYNAMIC_GRPC" /\ params.streaming)
             PROVE  LoadCalls(params) \subseteq Overridden(params.kind)
  BY DEF RefusedBeforeLoad
<1>1. Vetted(params) /\ Created(params) /\ params.kind \in Kinds
  BY DEF RefusalInv, Running, Vetted, Parameters
<1>2. CASE params.kind = "TRITON"
  BY <1>2 DEF LoadCalls, InferenceCall, ContextCalls, Overridden, TritonOps,
              SystemRegionOps
<1>3. CASE params.kind = "TRITON_C_API"
  BY <1>1, <1>3 DEF Vetted, LoadCalls, InferenceCall, ContextCalls,
                    Overridden, TritonCApiOps
<1>4. CASE params.kind = "TENSORFLOW_SERVING"
  BY <1>1, <1>4 DEF Vetted, LoadCalls, InferenceCall, ContextCalls,
                    Overridden, TFServeOps
<1>5. CASE params.kind = "TORCHSERVE"
  BY <1>1, <1>5 DEF Vetted, Created, LoadCalls, InferenceCall, ContextCalls,
                    Overridden, TorchServeOps
<1>6. CASE params.kind = "OPENAI"
  BY <1>1, <1>6 DEF Vetted, Created, LoadCalls, InferenceCall, ContextCalls,
                    Overridden, OpenAiOps
<1>7. CASE params.kind = "DYNAMIC_GRPC"
  BY <1>1, <1>7 DEF Vetted, LoadCalls, InferenceCall, ContextCalls,
                    Overridden, DynamicGrpcOps
<1> QED
  BY <1>1, <1>2, <1>3, <1>4, <1>5, <1>6, <1>7 DEF Kinds

\* The parameters that the ranges and their checks are about.
Sized == {"mode", "deprecated", "concurrency_range", "request_rate_range",
          "periodic_concurrency_range", "session_concurrency", "max_threads",
          "sequence_id_range"}
Counting == {"request_count", "measurement_mode",
             "measurement_request_count", "stop"}

LevelRanges == [start : Int, end : Int, step : Int]

\* From the first option on: the numbers are numbers, a range that was given
\* has its mode, and a periodic range does not fall.
Chosen(p) ==
    /\ Sized \cup Counting \subseteq DOMAIN p
    /\ p.concurrency_range \in LevelRanges
    /\ p.request_rate_range \in LevelRanges
    /\ p.periodic_concurrency_range \in LevelRanges
    /\ p.max_threads \in Nat \ {0}
    /\ p.sequence_id_range \in Int
    /\ p.mode = "PeriodicConcurrency" =>
          p.periodic_concurrency_range.start
             =< p.periodic_concurrency_range.end
    /\ p.deprecated \/ ModeAsked(p)

\* Nothing of that is different in q.
SameSizes(p, q) ==
    /\ Sized \cup Counting \subseteq DOMAIN q
    /\ \A f \in Sized : q[f] = p[f]

LEMMA SameSizesChosen ==
  ASSUME NEW p, Chosen(p), NEW q, SameSizes(p, q)
  PROVE  Chosen(q)
<1>1. /\ q.mode = p.mode /\ q.deprecated = p.deprecated
      /\ q.concurrency_range = p.concurrency_range
      /\ q.request_rate_range = p.request_rate_range
      /\ q.periodic_concurrency_range = p.periodic_concurrency_range
      /\ q.session_concurrency = p.session_concurrency
      /\ q.max_threads = p.max_threads
      /\ q.sequence_id_range = p.sequence_id_range
  BY DEF SameSizes, Sized
<1> QED
  BY <1>1 DEF Chosen, SameSizes, ModeAsked

LEMMA SplitRangeType ==
  ASSUME NEW r \in LevelRanges, NEW v \in Seq(Int), v # <<>>
  PROVE  SplitRange(r, v) \in LevelRanges
BY DEF SplitRange, LevelRanges

\* A case for each group of options.
LEMMA OptionKeepsChosen ==
  ASSUME NEW p, Chosen(p), NEW o,
         o.parsed => Converted(o)
  PROVE  Chosen(ParseOption(p, o))
<1> USE DEF Checked, Usage, SameSizes, Sized, Counting
<1>0. Sized \cup Counting \subseteq DOMAIN p
  BY DEF Chosen
<1>1. ASSUME o.name \in SizingNames, Converted(o)
      PROVE  Chosen(SizingOption(p, o))
  <2>1. CASE o.name = "max-threads"
    BY <1>1, <2>1 DEF SizingOption, Chosen, ModeAsked, Converted, NumberNames
  <2>2. CASE o.name # "max-threads"
    <3>1. SameSizes(p, SizingOption(p, o))
      BY <1>0, <1>1, <2>2 DEF SizingNames, SizingOption
    <3> QED
      BY <3>1, SameSizesChosen
  <2> QED
    BY <2>1, <2>2
<1>2. ASSUME o.name = "concurrency-range", Converted(o)
      PROVE  Chosen(ConcurrencyRange(p, o))
  <2>1. SplitRange(p.concurrency_range, o.val) \in LevelRanges
    BY <1>2, SplitRangeType DEF Chosen, Converted, RangeNames
  <2> QED
    BY <2>1 DEF ConcurrencyRange, Chosen, ModeFree, ModeAsked
<1>3. ASSUME o.name \in StabilityNames
      PROVE  SameSizes(p, StabilityOption(p, o))
  BY <1>0, <1>3 DEF StabilityNames, StabilityOption
<1>4. ASSUME o.name = "request-rate-range", Converted(o)
      PROVE  Chosen(RequestRateRange(p, o))
  <2>1. SplitRange(p.request_rate_range, o.val) \in LevelRanges
    BY <1>4, SplitRangeType DEF Chosen, Converted, RangeNames
  <2> QED
    BY <2>1 DEF RequestRateRange, Chosen, ModeFree, ModeAsked
<1>5. ASSUME o.name \in ScheduleNames
      PROVE  Chosen(ScheduleOption(p, o))
  <2>1. CASE o.name = "request-intervals"
    BY <2>1 DEF ScheduleOption, Chosen, ModeFree, ModeAsked
  <2>2. CASE o.name # "request-intervals"
    <3>1. SameSizes(p, ScheduleOption(p, o))
      BY <1>0, <1>5, <2>2 DEF ScheduleNames, ScheduleOption
    <3> QED
      BY <3>1, SameSizesChosen
  <2> QED
    BY <2>1, <2>2
<1>6. ASSUME o.name \in ServiceNames
      PROVE  SameSizes(p, ServiceOption(p, o))
  BY <1>0, <1>6 DEF ServiceNames, ServiceOption
<1>7. ASSUME o.name = "sequence-id-range", Converted(o)
      PROVE  Chosen(SequenceIdRange(p, o))
  BY <1>7 DEF SequenceIdRange, Chosen, ModeAsked, Converted, RangeNames
<1>8. SameSizes(p, SslOption(p, o))
  BY <1>0 DEF SslOption
<1>9. ASSUME o.name \in ReportingNames
      PROVE  SameSizes(p, ReportingOption(p, o))
  BY <1>0, <1>9 DEF ReportingNames, ReportingOption
<1>10. ASSUME o.name = "periodic-concurrency-range", Converted(o)
       PROVE  Chosen(PeriodicConcurrencyRange(p, o))
  <2>1. SplitRange(p.periodic_concurrency_range, o.val) \in LevelRanges
    BY <1>10, SplitRangeType DEF Chosen, Converted, RangeNames
  <2> QED
    BY <2>1 DEF PeriodicConcurrencyRange, Chosen, ModeFree, ModeAsked
<1>11. ASSUME o.name \in CountNames
       PROVE  Chosen(CountOption(p, o))
  <2>1. CASE o.name \in {"fixed-schedule", "session-concurrency"}
    BY <2>1 DEF CountOption, Chosen, ModeFree, ModeAsked
  <2>2. CASE o.name \notin {"fixed-schedule", "session-concurrency"}
    <3>1. SameSizes(p, CountOption(p, o))
      BY <1>0, <1>11, <2>2 DEF CountNames, CountOption
    <3> QED
      BY <3>1, SameSizesChosen
  <2> QED
    BY <2>1, <2>2
<1>12. ASSUME o.name \in ShortNames, Converted(o)
       PROVE  Chosen(ShortOption(p, o))
  <2>1. CASE o.name \in {"d", "t", "c"}
    <3> DEFINE c == p.concurrency_range
               low == [start |-> o.val, end |-> c.end, step |-> c.step]
               high == [start |-> c.start, end |-> o.val, step |-> c.step]
    <3>1. o.name \in {"t", "c"} => o.val \in Int
      BY <1>12 DEF Converted, NumberNames
    <3>2. /\ [c EXCEPT !.start = o.val] = low
          /\ [c EXCEPT !.end = o.val] = high
      BY DEF Chosen, LevelRanges
    <3>3. /\ o.name = "t" => low \in LevelRanges
          /\ o.name = "c" => high \in LevelRanges
          /\ c \in LevelRanges
      BY <3>1 DEF Chosen, LevelRanges
    <3> HIDE DEF low, high
    <3>4. ASSUME NEW r \in LevelRanges
          PROVE  Chosen([p EXCEPT !.deprecated = TRUE,
                                  !.concurrency_range = r])
      BY <3>4, <1>0 DEF Chosen
    <3>5. ShortOption(p, o) # Usage(p) =>
            \E r \in LevelRanges :
               ShortOption(p, o) = [p EXCEPT !.deprecated = TRUE,
                                             !.concurrency_range = r]
      <4>1. CASE o.name = "d"
        <5>1. [p EXCEPT !.deprecated = TRUE]
                 = [p EXCEPT !.deprecated = TRUE, !.concurrency_range = c]
          BY <1>0
        <5> QED
          BY <4>1, <5>1, <3>3 DEF ShortOption
      <4>2. CASE o.name = "t"
        BY <4>2, <3>2, <3>3, <1>0 DEF ShortOption
      <4>3. CASE o.name = "c"
        BY <4>3, <3>2, <3>3, <1>0 DEF ShortOption
      <4> QED
        BY <2>1, <4>1, <4>2, <4>3
    <3>6. Chosen(Usage(p))
      BY SameSizesChosen, <1>0
    <3> QED
      BY <3>4, <3>5, <3>6
  <2>2. CASE o.name \notin {"d", "t", "c"}
    <3>1. SameSizes(p, ShortOption(p, o))
      BY <1>0, <1>12, <2>2 DEF ShortNames, ShortOption
    <3> QED
      BY <3>1, SameSizesChosen
  <2> QED
    BY <2>1, <2>2
<1>13. SameSizes(p, InvalidOption(p, o))
  BY <1>0 DEF InvalidOption
<1> HIDE DEF Checked, Usage, SameSizes, Sized, Counting
<1> QED
  BY <1>1, <1>2, <1>3, <1>4, <1>5, <1>6, <1>7, <1>8, <1>9, <1>10, <1>11,
     <1>12, <1>13, SameSizesChosen DEF ParseOption, OptionNames

\* SelectMode changes the mode only where there was none, or -d, -t or -c was
\* given; DefaultThreads gives a rising range its threads.
LEMMA FinishKeepsChosen ==
  ASSUME NEW p, Chosen(p)
  PROVE  Chosen(FinishParsing(p))
<1>1. ASSUME NEW q, Chosen(q)
      PROVE  Chosen(SelectMode(q))
  BY <1>1 DEF SelectMode, Chosen, Sized, Counting, ModeAsked
<1>2. ASSUME NEW q, Chosen(q)
      PROVE  Chosen(DefaultThreads(q))
  BY <1>2 DEF DefaultThreads, Chosen, Sized, Counting, ModeAsked, Larger,
              DEFAULT_MAX_THREADS, LevelRanges
<1>3. ASSUME NEW q, Chosen(q)
      PROVE  /\ SameSizes(q, DefaultUrl(q))
             /\ SameSizes(q, DefaultSearch(q))
             /\ SameSizes(q, FixedScheduleCount(q))
             /\ SameSizes(q, CountWindows(q))
  BY <1>3 DEF DefaultUrl, DefaultSearch, FixedScheduleCount, CountWindows,
              SameSizes, Chosen, Sized, Counting
<1> QED
  BY <1>1, <1>2, <1>3, SameSizesChosen DEF FinishParsing

\* From the end of the option loop on: a count is waited for in one window.
Counted(p) ==
    p.request_count # 0 =>
        /\ p.measurement_mode = "COUNT_WINDOWS"
        /\ p.measurement_request_count = p.request_count

\* What VerifyOptions leaves: levels begin above 0, a periodic range has its
\* threads.
Levelled(p) ==
    /\ p.mode = "PeriodicConcurrency" =>
          p.periodic_concurrency_range.end =< p.max_threads
    /\ p.concurrency_range.start > 0

\* A counted range does not rise, or is open and does not seem to.
CountFits(p) ==
    p.mode = "Concurrency" /\ p.request_count # 0 =>
        /\ p.request_count >= p.concurrency_range.start
        /\ ~(p.concurrency_range.start < p.concurrency_range.end)

\* What CreateAnalyzerObjects settles between the parameters and the manager.
Settled(p) ==
    /\ DOMAIN manager = DOMAIN NoManager
    /\ manager.max_threads = p.max_threads
    /\ manager.max_concurrency \in Int
    /\ p.mode = "Concurrency" =>    \* where ~async: closed, or open before
          LET r == p.concurrency_range
          IN  /\ r.start =< manager.max_concurrency
              /\ \/ p.sequence_id_range = 0
                 \/ p.sequence_id_range >= manager.max_concurrency
              /\ \/ p.async
                 \/ r.start =< p.max_threads /\ r.end =< p.max_threads
                    /\ r.end # NO_LIMIT
                 \/ r.end = p.max_threads
              /\ p.request_count # 0 =>
                    /\ p.request_count >= r.start
                    /\ r.end \in 1 .. manager.max_concurrency =>
                          r.end =< r.start

ConsistencyInv ==
    /\ pc = "options" => argv \in Seq(Options)
    /\ pc # "exited" => Chosen(params)
    /\ pc \notin {"options", "exited"} => Counted(params)
    /\ pc \notin {"options", "verify", "exited"} => Levelled(params)
    /\ pc \in {"backend", "parser", "checks", "manager"} => CountFits(params)
    /\ pc = "init" \/ Running => Settled(params)
    /\ Running /\ IsSequenceModel(parser) /\ params.mode = "Concurrency" =>
          manager.sequences = manager.max_concurrency

LEMMA FinishCounts ==
  ASSUME NEW p, Chosen(p)
  PROVE  Counted(FinishParsing(p))
<1> DEFINE q == FixedScheduleCount(DefaultSearch(DefaultThreads(
                    DefaultUrl(SelectMode(p)))))
<1>1. Counting \subseteq DOMAIN q
  <2>1. ASSUME NEW r, Counting \subseteq DOMAIN r
        PROVE  /\ Counting \subseteq DOMAIN SelectMode(r)
               /\ Counting \subseteq DOMAIN DefaultUrl(r)
               /\ Counting \subseteq DOMAIN DefaultThreads(r)
               /\ Counting \subseteq DOMAIN DefaultSearch(r)
               /\ Counting \subseteq DOMAIN FixedScheduleCount(r)
    BY <2>1 DEF SelectMode, DefaultUrl, DefaultThreads, DefaultSearch,
                FixedScheduleCount
  <2> QED
    BY <2>1 DEF Chosen
<1>2. FinishParsing(p) = CountWindows(q)
  BY DEF FinishParsing
<1> HIDE DEF q
<1> QED
  BY <1>1, <1>2 DEF CountWindows, Counted, Counting

\* A periodic range gets the threads it needs, or ends at those there are.
LEMMA PeriodicFits ==
  ASSUME NEW p, Chosen(p), Counted(p), CountFits(p),
         p.concurrency_range.start > 0
  PROVE  LET q == PeriodicThreads(p)
         IN  Chosen(q) /\ Counted(q) /\ CountFits(q) /\ Levelled(q)
<1>1. CASE p.mode # "PeriodicConcurrency"
  BY <1>1 DEF PeriodicThreads, Levelled
<1>2. CASE p.mode = "PeriodicConcurrency"
  <2>1. PICK b \in Int, e \in Int, s \in Int :
          p.periodic_concurrency_range = [start |-> b, end |-> e, step |-> s]
    BY DEF Chosen, LevelRanges
  <2>2. PICK t \in Nat \ {0} : p.max_threads = t
    BY DEF Chosen
  <2>3. b =< e
    BY <1>2, <2>1 DEF Chosen
  <2> DEFINE lim == [start |-> b, end |-> t, step |-> s]
  <2>4. CASE e = 0
    <3>1. PeriodicThreads(p) = [p EXCEPT !.periodic_concurrency_range = lim]
      BY <1>2, <2>1, <2>2, <2>4 DEF PeriodicThreads, NO_LIMIT
    <3>2. b =< t /\ lim \in LevelRanges /\ lim.start = b /\ lim.end = t
      BY <2>3, <2>4 DEF LevelRanges
    <3> HIDE DEF lim
    <3> QED
      BY <1>2, <2>2, <3>1, <3>2 DEF Chosen, Sized, Counting, ModeAsked,
                                    Counted, CountFits, Levelled
  <2>5. CASE e # 0
    <3>1. PeriodicThreads(p) = [p EXCEPT !.max_threads = Larger(t, e)]
      BY <1>2, <2>1, <2>2, <2>5 DEF PeriodicThreads, NO_LIMIT
    <3>2. Larger(t, e) \in Nat \ {0} /\ e =< Larger(t, e)
      BY DEF Larger
    <3> QED
      BY <1>2, <2>1, <3>1, <3>2 DEF Chosen, Sized, Counting, ModeAsked,
                                    Counted, CountFits, Levelled
  <2> QED
    BY <2>4, <2>5
<1> QED
  BY <1>1, <1>2

LEMMA VerifyLevels ==
  ASSUME NEW p, Chosen(p), Counted(p), NEW mpi,
         VerifyOptions(p, mpi).stop = ""
  PROVE  LET q == VerifyOptions(p, mpi)
         IN  Chosen(q) /\ Counted(q) /\ Levelled(q) /\ CountFits(q)
<1> DEFINE id == IF p.start_sequence_id = 0
                 THEN [p EXCEPT !.start_sequence_id = 1] ELSE p
           q == PeriodicThreads(id)
<1>1. /\ Usage(p).stop = "usage"
  BY DEF Usage, Chosen, Counting
<1>2. /\ BasicsOk(p) /\ CountsOk(p)
      /\ VerifyOptions(p, mpi) = ServiceDefaults(q)
  BY <1>1 DEF VerifyOptions
<1>3. p.concurrency_range.start > 0 /\ CountFits(p)
  BY <1>2 DEF BasicsOk, CountsOk, CountFits
<1>4. Chosen(id) /\ Counted(id) /\ CountFits(id)
      /\ id.concurrency_range.start > 0
  <2>1. SameSizes(p, id)
    BY DEF SameSizes, Chosen, Sized, Counting
  <2>2. /\ id.request_count = p.request_count
        /\ id.measurement_mode = p.measurement_mode
        /\ id.measurement_request_count = p.measurement_request_count
        /\ id.concurrency_range = p.concurrency_range /\ id.mode = p.mode
    BY DEF Chosen, Sized, Counting
  <2> QED
    BY <1>3, <2>1, <2>2, SameSizesChosen DEF Counted, CountFits
<1> HIDE DEF id
<1>5. Chosen(q) /\ Counted(q) /\ CountFits(q) /\ Levelled(q)
  BY <1>4, PeriodicFits
<1> HIDE DEF q
<1>6. LET d == ServiceDefaults(q)
      IN  /\ SameSizes(q, d)
          /\ d.request_count = q.request_count
          /\ d.measurement_mode = q.measurement_mode
          /\ d.measurement_request_count = q.measurement_request_count
  BY <1>5 DEF ServiceDefaults, SameSizes, Chosen, Sized, Counting
<1> QED
  BY <1>2, <1>5, <1>6, SameSizesChosen
     DEF SameSizes, Sized, Counted, CountFits, Levelled

LEMMA ApiKeepsSizes ==
  ASSUME NEW p, Chosen(p)
  PROVE  LET q == ChooseApi(p)
         IN  /\ SameSizes(p, q)
             /\ q.request_count = p.request_count
             /\ q.measurement_mode = p.measurement_mode
             /\ q.measurement_request_count = p.measurement_request_count
BY DEF ChooseApi, SameSizes, Chosen, Sized, Counting

\* SettleConcurrency, with the manager's max_concurrency of before.
LEMMA SettleSettles ==
  ASSUME NEW p, Chosen(p), Counted(p), CountFits(p), Levelled(p),
         ManagerAccepts(p),
         manager' = [max_threads |-> SettleConcurrency(p).max_threads,
                     max_concurrency |-> MaxConcurrency(p),
                     sequences |-> 0],
         params' = SettleConcurrency(p)
  PROVE  /\ Chosen(params') /\ Counted(params') /\ Levelled(params')
         /\ Settled(params)'
<1>1. PICK b \in Int, e \in Int, s \in Int :
        p.concurrency_range = [start |-> b, end |-> e, step |-> s]
  BY DEF Chosen, LevelRanges
<1>2. PICK t \in Nat \ {0} : p.max_threads = t
  BY DEF Chosen
<1>3. PICK i \in Int : p.sequence_id_range = i
  BY DEF Chosen
<1>4. b > 0
  BY <1>1 DEF Levelled
<1> DEFINE max == Larger(b, e)
           lim == [start |-> b, end |-> t, step |-> s]
<1>5. MaxConcurrency(p) = max
  BY <1>1 DEF MaxConcurrency
<1>6. max \in Nat \ {0} /\ b =< max /\ e =< max
  BY <1>4 DEF Larger
<1>7. p.mode = "Concurrency" => i = 0 \/ i >= max
  BY <1>3, <1>5 DEF ManagerAccepts
<1>8. /\ manager'.max_concurrency = max
      /\ manager'.max_threads = params'.max_threads
      /\ DOMAIN manager' = DOMAIN NoManager
  BY <1>5 DEF NoManager
<1>9. CASE p.mode # "Concurrency" \/ p.async
  <2>1. params' = p
    BY <1>9 DEF SettleConcurrency
  <2>2. p.mode = "Concurrency" /\ p.request_count # 0 =>
          p.request_count >= b /\ ~(b < e)
    BY <1>1 DEF CountFits
  <2> HIDE DEF max
  <2> QED
    BY <1>1, <1>3, <1>6, <1>7, <1>8, <1>9, <2>1, <2>2 DEF Settled
<1>10. CASE p.mode = "Concurrency" /\ ~p.async /\ e = 0
  <2>1. params' = [p EXCEPT !.concurrency_range = lim]
    BY <1>1, <1>2, <1>10 DEF SettleConcurrency, NO_LIMIT
  <2>2. lim \in LevelRanges /\ lim.start = b /\ lim.end = t
    BY DEF LevelRanges
  <2>3. max = b
    BY <1>4, <1>10 DEF Larger
  <2>4. p.request_count # 0 => p.request_count >= b
    BY <1>1, <1>10 DEF CountFits
  <2> HIDE DEF max, lim
  <2>5. /\ Chosen(params') /\ Counted(params') /\ Levelled(params')
    BY <1>4, <1>10, <2>1, <2>2 DEF Chosen, Sized, Counting, ModeAsked, Counted,
                             Levelled
  <2>6. /\ params'.mode = p.mode /\ params'.max_threads = t
        /\ params'.concurrency_range = lim
        /\ params'.sequence_id_range = i
        /\ params'.request_count = p.request_count
    BY <2>1, <1>2, <1>3 DEF Chosen, Sized, Counting
  <2> QED
    BY <1>6, <1>7, <1>8, <2>2, <2>3, <2>4, <2>5, <2>6 DEF Settled
<1>11. CASE p.mode = "Concurrency" /\ ~p.async /\ e # 0
  <2>1. params' = [p EXCEPT !.max_threads = max]
    BY <1>1, <1>5, <1>11 DEF SettleConcurrency, NO_LIMIT
  <2>2. p.request_count # 0 => p.request_count >= b /\ ~(b < e)
    BY <1>1, <1>11 DEF CountFits
  <2> HIDE DEF max
  <2>3. /\ Chosen(params') /\ Counted(params') /\ Levelled(params')
    BY <1>6, <1>11, <2>1 DEF Chosen, Sized, Counting, ModeAsked, Counted,
                             Levelled
  <2>4. /\ params'.mode = p.mode /\ params'.max_threads = max
        /\ params'.concurrency_range = p.concurrency_range
        /\ params'.sequence_id_range = i
        /\ params'.request_count = p.request_count
    BY <2>1, <1>3 DEF Chosen, Sized, Counting
  <2> QED
    BY <1>1, <1>6, <1>7, <1>8, <1>11, <2>2, <2>3, <2>4
       DEF Settled, NO_LIMIT
<1> QED
  BY <1>9, <1>10, <1>11

LEMMA ConsistencyInit ==
  ASSUME OptionsOK, Init
  PROVE  ConsistencyInv
<1>1. Chosen(DefaultParams)
  BY DEF Chosen, Sized, Counting, DefaultParams, LevelRanges, ModeAsked,
         UINT32_MAX
<1>2. argv \in Seq(Options)
  BY DEF OptionsOK, Init
<1> QED
  BY <1>1, <1>2 DEF Init, ConsistencyInv, Running

LEMMA ConsistencyStep ==
  ASSUME OptionsOK, ConsistencyInv, [Next]_vars
  PROVE  ConsistencyInv'
<1> USE DEF Exits, Running
<1>1. CASE ReadOption
  <2>1. pc = "options" /\ Chosen(params) /\ pc' \in {"options", "exited"}
        /\ argv \in Seq(Options)
    BY <1>1 DEF ReadOption, ConsistencyInv
  <2>2. \E o \in Options : params' = ParseOption(params, o)
    <3>1. argv # <<>> => Head(argv) \in Options
      BY <2>1
    <3>2. ExtraOptions \subseteq Options
      BY DEF Options
    <3> QED
      BY <1>1, <3>1, <3>2 DEF ReadOption
  <2>3. Chosen(params')
    BY <2>1, <2>2, OptionKeepsChosen DEF OptionsOK
  <2>4. argv' \in Seq(Options)
    <3>1. argv # <<>> => Tail(argv) \in Seq(Options)
      BY <2>1
    <3>2. argv' = argv \/ (argv # <<>> /\ argv' = Tail(argv))
      BY <1>1 DEF ReadOption
    <3> QED
      BY <2>1, <3>1, <3>2
  <2> QED
    BY <2>1, <2>3, <2>4 DEF ConsistencyInv
<1>2. CASE ReadAll
  <2>1. pc = "options" /\ Chosen(params) /\ pc' \in {"verify", "exited"}
        /\ params' = FinishParsing(params)
    BY <1>2 DEF ReadAll, ConsistencyInv
  <2> QED
    BY <2>1, FinishKeepsChosen, FinishCounts DEF ConsistencyInv
<1>3. CASE Verify
  <2>1. pc = "verify" /\ Chosen(params) /\ Counted(params)
        /\ params' = VerifyOptions(params, mpiRun)
    BY <1>3 DEF Verify, ConsistencyInv
  <2>2. CASE params'.stop = ""
    <3>1. pc' = "backend"
      BY <1>3, <2>2 DEF Verify
    <3> QED
      BY <2>1, <2>2, <3>1, VerifyLevels DEF ConsistencyInv
  <2>3. CASE params'.stop # ""
    BY <1>3, <2>3 DEF Verify, ConsistencyInv
  <2> QED
    BY <2>2, <2>3
<1>4. CASE CreateBackend \/ InitParser
  BY <1>4 DEF CreateBackend, InitParser, ConsistencyInv
<1>5. CASE CheckModel
  <2>1. /\ pc = "checks" /\ pc' \in {"manager", "exited"}
        /\ Chosen(params) /\ Counted(params) /\ Levelled(params)
        /\ CountFits(params)
        /\ params' \in {params, ChooseApi(params)}
    BY <1>5 DEF CheckModel, ConsistencyInv
  <2>2. ASSUME params' = ChooseApi(params)
        PROVE  /\ Chosen(params') /\ Counted(params') /\ Levelled(params')
               /\ CountFits(params')
    BY <2>1, <2>2, ApiKeepsSizes, SameSizesChosen
       DEF SameSizes, Sized, Counted, Levelled, CountFits
  <2> QED
    BY <2>1, <2>2 DEF ConsistencyInv
<1>6. CASE CreateManager
  <2>1. /\ pc = "manager"
        /\ Chosen(params) /\ Counted(params) /\ Levelled(params)
        /\ CountFits(params)
    BY <1>6 DEF CreateManager, ConsistencyInv
  <2>2. CASE ManagerAccepts(params)
    <3>1. /\ pc' = "init" /\ params' = SettleConcurrency(params)
          /\ manager' = [max_threads |-> SettleConcurrency(params).max_threads,
                         max_concurrency |-> MaxConcurrency(params),
                         sequences |-> 0]
      BY <1>6, <2>2 DEF CreateManager
    <3> QED
      BY <2>1, <2>2, <3>1, SettleSettles DEF ConsistencyInv
  <2>3. CASE ~ManagerAccepts(params)
    BY <1>6, <2>3 DEF CreateManager, ConsistencyInv
  <2> QED
    BY <2>2, <2>3
<1>7. CASE InitManager
  <2>1. /\ pc = "init" /\ UNCHANGED <<params, parser>>
        /\ Chosen(params) /\ Counted(params) /\ Levelled(params)
        /\ Settled(params)
    BY <1>7 DEF InitManager, ConsistencyInv
  <2>2. CASE pc' = "exited"
    BY <2>2 DEF ConsistencyInv
  <2>3. CASE pc' = "profile"
    <3>1. manager' = [manager EXCEPT !.sequences = Sequences(params)]
      BY <1>7, <2>3 DEF InitManager
    <3>2. /\ manager'.max_threads = manager.max_threads
          /\ manager'.max_concurrency = manager.max_concurrency
          /\ manager'.sequences = Sequences(params)
          /\ DOMAIN manager' = DOMAIN manager
      BY <2>1, <3>1 DEF Settled, NoManager
    <3>3. Settled(params)'
      BY <2>1, <3>2 DEF Settled
    <3>4. IsSequenceModel(parser) /\ params.mode = "Concurrency" =>
            Sequences(params) = manager.max_concurrency
      BY DEF Sequences
    <3> QED
      BY <2>1, <2>3, <3>2, <3>3, <3>4 DEF ConsistencyInv, IsSequenceModel
  <2> QED
    BY <1>7, <2>2, <2>3 DEF InitManager
<1>8. CASE Profile \/ WriteReport \/ GenerateProfileExport \/ Finalize
  <2>1. /\ UNCHANGED <<params, parser, manager>> /\ Running
        /\ pc' = "exited" \/ Running'
    BY <1>8 DEF Profile, WriteReport, GenerateProfileExport, Finalize
  <2> QED
    BY <2>1 DEF ConsistencyInv, Settled, IsSequenceModel
<1>9. CASE Interrupt
  BY <1>9 DEF Interrupt, SignalHandler, ConsistencyInv, Settled,
              IsSequenceModel
<1>10. CASE Exited \/ UNCHANGED vars
  BY <1>10 DEF Exited, vars, ConsistencyInv, Settled, IsSequenceModel
<1> QED
  BY <1>1, <1>2, <1>3, <1>4, <1>5, <1>6, <1>7, <1>8, <1>9, <1>10 DEF Next

LEMMA ConsistencyImplies ==
  ASSUME OptionsOK, ConsistencyInv
  PROVE  ParametersConsistent
<1> SUFFICES ASSUME Running PROVE ParametersConsistent
  BY DEF ParametersConsistent, LevelsFit, CountedRunIsOneWindow,
         ModeIsTheOneAsked
<1>1. /\ Chosen(params) /\ Counted(params) /\ Levelled(params)
      /\ Settled(params)
      /\ IsSequenceModel(parser) /\ params.mode = "Concurrency" =>
            manager.sequences = manager.max_concurrency
  BY DEF ConsistencyInv, Running
<1>2. PICK b \in Int, e \in Int, s \in Int :
        params.concurrency_range = [start |-> b, end |-> e, step |-> s]
  BY <1>1 DEF Chosen, LevelRanges
<1>3. PICK t \in Nat \ {0} : params.max_threads = t /\ manager.max_threads = t
  BY <1>1 DEF Chosen, Settled
<1>4. PICK m \in Int : manager.max_concurrency = m
  BY <1>1 DEF Settled
<1>5. ASSUME NEW l \in SearchLevels(params)
      PROVE  l \in Int /\ (l = b \/ l =< e \/ e = 0)
  BY <1>2, <1>5 DEF SearchLevels, NO_LIMIT, OptionsOK
<1>6. ASSUME params.mode = "Concurrency", ~params.async,
             NEW l \in SearchLevels(params)
      PROVE  l =< t \/ (l = b /\ e = t)
  BY <1>1, <1>2, <1>3, <1>5, <1>6 DEF Settled, NO_LIMIT
<1>7. ASSUME params.mode = "PeriodicConcurrency"
      PROVE  LET r == params.periodic_concurrency_range
             IN  r.start =< r.end /\ r.end =< manager.max_threads
  BY <1>1, <1>3, <1>7 DEF Chosen, Levelled
<1>8. ASSUME params.mode = "Concurrency", ClosedRange,
             NEW l \in SearchLevels(params)
      PROVE  l =< m
  BY <1>1, <1>2, <1>4, <1>5, <1>8 DEF Settled, ClosedRange
<1>9. ASSUME params.mode = "Concurrency"
      PROVE  params.sequence_id_range = 0 \/ params.sequence_id_range >= m
  BY <1>1, <1>4, <1>9 DEF Settled
<1>10. params.sequence_id_range \in Int
  BY <1>1 DEF Chosen
<1>11. LevelsFit
  BY <1>1, <1>2, <1>3, <1>4, <1>5, <1>6, <1>7, <1>8, <1>9, <1>10
     DEF LevelsFit
<1>12. ASSUME params.request_count # 0, params.mode = "Concurrency",
              ClosedRange
       PROVE  /\ SearchLevels(params) = {b}
              /\ params.request_count >= b
  <2>1. e =< b /\ e # 0 /\ params.request_count >= b
    BY <1>1, <1>2, <1>4, <1>12 DEF Settled, ClosedRange
  <2>2. b \in SearchLevels(params)
    BY <1>2 DEF SearchLevels
  <2>3. ASSUME NEW l \in SearchLevels(params)
        PROVE  l = b
    BY <1>2, <2>1, <2>3 DEF SearchLevels, NO_LIMIT, OptionsOK
  <2> QED
    BY <2>1, <2>2, <2>3
<1>13. CountedRunIsOneWindow
  BY <1>1, <1>2, <1>12 DEF CountedRunIsOneWindow, Counted
<1>14. ModeIsTheOneAsked
  BY <1>1 DEF ModeIsTheOneAsked, Chosen
<1> QED
  BY <1>11, <1>13, <1>14 DEF ParametersConsistent

-----------------------------------------------------------------------------
(* Natural numbers, and turns that come round.                             *)

LEMMA LeastNatural ==
  ASSUME NEW S \in SUBSET Nat, S # {}
  PROVE  \E m \in S : \A j \in S : m <= j
<1> DEFINE R == OpToRel(<, Nat)
<1>1. IsWellFoundedOn(R, Nat)
  BY NatLessThanWellFounded
<1>2. PICK m \in S : \A j \in S : <<j, m>> \notin R
  <2> HIDE DEF R
  <2> QED BY <1>1, WFMin
<1>3. \A j \in S : ~(j < m)
  BY <1>2 DEF OpToRel
<1> QED BY <1>3

LEMMA Induction ==
  ASSUME NEW S, 0 \in S, \A j \in Nat : j \in S => j + 1 \in S
  PROVE  \A j \in Nat : j \in S
<1> SUFFICES ASSUME NEW k \in Nat, k \notin S PROVE FALSE
  OBVIOUS
<1>1. PICK m \in Nat \ S : \A j \in Nat \ S : m <= j
  BY LeastNatural
<1>2. m # 0 /\ m - 1 \in Nat
  BY <1>1
<1>3. m - 1 \in S
  BY <1>1, <1>2
<1> QED BY <1>1, <1>2, <1>3

\* Division with remainder, in the form the backend can use.
LEMMA DivMod ==
  ASSUME NEW a \in Nat, NEW n \in Nat \ {0}
  PROVE  /\ a \div n \in Nat
         /\ a % n \in 0 .. n - 1
         /\ a = n * (a \div n) + (a % n)
<1>1. a \div n \in Nat
  BY SMT
<1>2. a % n \in 0 .. n - 1
  BY SMT
<1>3. a = n * (a \div n) + (a % n)
  BY SMT
<1> QED
  BY <1>1, <1>2, <1>3

LEMMA ProductGrows ==
  ASSUME NEW n \in Nat \ {0}, NEW c \in Nat, NEW d \in Nat, c < d
  PROVE  n * c \in Nat /\ n * d \in Nat /\ n * c + n <= n * d
<1> DEFINE e == d - c - 1
<1>1. e \in Nat /\ d = c + 1 + e
  OBVIOUS
<1> HIDE DEF e
<1>2. n * d = n * c + n + n * e
  BY <1>1
<1>3. n * e \in Nat /\ n * c \in Nat /\ n * d \in Nat
  BY <1>1
<1> QED BY <1>2, <1>3

LEMMA QuotientIs ==
  ASSUME NEW n \in Nat \ {0}, NEW d \in Nat, NEW r \in 0 .. n - 1
  PROVE  /\ n * d + r \in Nat
         /\ (n * d + r) \div n = d
         /\ (n * d + r) % n = r
<1> DEFINE a == n * d + r
           e == a \div n
           s == a % n
<1>1. n * d \in Nat /\ a \in Nat
  OBVIOUS
<1>2. e \in Nat /\ s \in 0 .. n - 1 /\ a = n * e + s
  <2> HIDE DEF a
  <2> QED BY <1>1, DivMod
<1>3. n * e \in Nat
  BY <1>2
<1> HIDE DEF e, s
<1>4. ~(d < e)
  <2> SUFFICES ASSUME d < e PROVE FALSE
    OBVIOUS
  <2>1. n * d + n <= n * e
    BY <1>2, ProductGrows
  <2> QED BY <1>1, <1>2, <1>3, <2>1
<1>5. ~(e < d)
  <2> SUFFICES ASSUME e < d PROVE FALSE
    OBVIOUS
  <2>1. n * e + n <= n * d
    BY <1>2, ProductGrows
  <2> QED BY <1>1, <1>2, <1>3, <2>1
<1>6. e = d
  BY <1>2, <1>4, <1>5
<1>7. s = r
  BY <1>1, <1>2, <1>3, <1>6
<1> QED BY <1>1, <1>6, <1>7 DEF e, s

\* Going through m things again and again: the k-th is the Turn(k, m)-th of
\* them, after Rounds(k, m) whole rounds.
Turn(k, m) == ((k - 1) % m) + 1
Rounds(k, m) == (k - 1) \div m

LEMMA TurnType ==
  ASSUME NEW k \in Nat \ {0}, NEW m \in Nat \ {0}
  PROVE  /\ Turn(k, m) \in 1 .. m /\ Rounds(k, m) \in Nat
         /\ k = Turn(k, m) + m * Rounds(k, m)
<1> DEFINE a == k - 1
<1>1. a \in Nat
  OBVIOUS
<1>2. /\ a \div m \in Nat /\ a % m \in 0 .. m - 1
      /\ a = m * (a \div m) + (a % m)
  <2> HIDE DEF a
  <2> QED BY <1>1, DivMod
<1>3. m * (a \div m) \in Nat
  BY <1>2
<1>4. Turn(k, m) = (a % m) + 1 /\ Rounds(k, m) = a \div m
  BY DEF Turn, Rounds
<1>5. k = a + 1
  OBVIOUS
<1> HIDE DEF a
<1> QED BY <1>1, <1>2, <1>3, <1>4, <1>5

LEMMA TurnIs ==
  ASSUME NEW m \in Nat \ {0}, NEW i \in 1 .. m, NEW d \in Nat
  PROVE  /\ i + m * d \in Nat \ {0}
         /\ Turn(i + m * d, m) = i /\ Rounds(i + m * d, m) = d
<1>1. i - 1 \in 0 .. m - 1 /\ m * d \in Nat
  OBVIOUS
<1>2. /\ (m * d + (i - 1)) \div m = d
      /\ (m * d + (i - 1)) % m = i - 1
  BY <1>1, QuotientIs
<1>3. m * d + (i - 1) = (i + m * d) - 1
  BY <1>1
<1>4. Turn(i + m * d, m) = (i - 1) + 1 /\ Rounds(i + m * d, m) = d
  BY <1>2, <1>3 DEF Turn, Rounds
<1> QED BY <1>1, <1>4

\* Whole rounds later it is the same one's turn.
LEMMA TurnAgain ==
  ASSUME NEW m \in Nat \ {0}, NEW k \in Nat \ {0}, NEW d \in Nat
  PROVE  /\ k + m * d \in Nat \ {0}
         /\ Turn(k + m * d, m) = Turn(k, m)
         /\ Rounds(k + m * d, m) = Rounds(k, m) + d
<1> DEFINE i == Turn(k, m)
           e == Rounds(k, m)
<1>1. i \in 1 .. m /\ e \in Nat /\ k = i + m * e
  BY TurnType
<1> HIDE DEF i, e
<1> DEFINE f == e + d
<1>2. f \in Nat /\ m * f = m * e + m * d /\ m * e \in Nat /\ m * d \in Nat
  BY <1>1
<1>3. f = e + d
  OBVIOUS
<1> HIDE DEF f
<1>4. k + m * d = i + m * f
  BY <1>1, <1>2
<1>5. \A x \in 1 .. m, y \in Nat :
         /\ x + m * y \in Nat \ {0}
         /\ Turn(x + m * y, m) = x /\ Rounds(x + m * y, m) = y
  BY TurnIs
<1>6. /\ i + m * f \in Nat \ {0}
      /\ Turn(i + m * f, m) = i /\ Rounds(i + m * f, m) = f
  BY <1>1, <1>2, <1>5, Zenon
<1> QED BY <1>3, <1>4, <1>6 DEF i, e

-----------------------------------------------------------------------------
(* Lists of positions.                                                     *)

Positions == Nat \ {0}

\* q lists those of the first n positions that are in S, in order.
Lists(q, S, n) ==
  /\ q \in Seq(1 .. n)
  /\ \A i, j \in DOMAIN q : i < j => q[i] < q[j]
  /\ \A k \in 1 .. n : k \in S <=> \E i \in DOMAIN q : q[i] = k

LEMMA ListTypes ==
  ASSUME NEW n \in Nat, NEW S, NEW q, Lists(q, S, n)
  PROVE  /\ Len(q) \in Nat /\ DOMAIN q = 1 .. Len(q)
         /\ \A i \in DOMAIN q : q[i] \in 1 .. n /\ q[i] \in S
<1>1. q \in Seq(1 .. n)
  BY DEF Lists
<1>2. \A i \in 1 .. Len(q) : q[i] \in 1 .. n
  BY <1>1, ElementOfSeq
<1>3. Len(q) \in Nat /\ DOMAIN q = 1 .. Len(q)
  BY <1>1
<1>4. \A i \in DOMAIN q : q[i] \in S
  BY <1>2, <1>3 DEF Lists
<1> QED BY <1>2, <1>3, <1>4

LEMMA ListsOneMore ==
  ASSUME NEW n \in Nat, NEW S, NEW q, Lists(q, S, n)
  PROVE  Lists(IF n + 1 \in S THEN Append(q, n + 1) ELSE q, S, n + 1)
<1>1. q \in Seq(1 .. n + 1) /\ Len(q) \in Nat /\ DOMAIN q = 1 .. Len(q)
      /\ \A i \in DOMAIN q : q[i] \in 1 .. n
  <2>1. q \in Seq(1 .. n) /\ 1 .. n \subseteq 1 .. n + 1
    BY DEF Lists
  <2> QED BY <2>1, ListTypes
<1>2. CASE n + 1 \notin S
  <2>1. \A k \in 1 .. n + 1 : k \in 1 .. n \/ k = n + 1
    OBVIOUS
  <2>2. \A i \in DOMAIN q : q[i] # n + 1
    BY <1>1
  <2>3. \A i, j \in DOMAIN q : i < j => q[i] < q[j]
    BY DEF Lists
  <2>4. \A k \in 1 .. n + 1 : k \in S <=> \E i \in DOMAIN q : q[i] = k
    BY <1>2, <2>1, <2>2 DEF Lists
  <2> QED BY <1>1, <1>2, <2>3, <2>4 DEF Lists
<1>3. CASE n + 1 \in S
  <2> DEFINE r == Append(q, n + 1)
  <2>1. /\ r \in Seq(1 .. n + 1) /\ Len(r) = Len(q) + 1
        /\ DOMAIN r = 1 .. Len(q) + 1
        /\ \A i \in DOMAIN q : r[i] = q[i]
        /\ r[Len(q) + 1] = n + 1
    BY <1>1, AppendProperties
  <2> HIDE DEF r
  <2>2. \A i \in DOMAIN r : i \in DOMAIN q \/ i = Len(q) + 1
    BY <1>1, <2>1
  <2>3. \A i, j \in DOMAIN r : i < j => r[i] < r[j]
    <3> SUFFICES ASSUME NEW i \in DOMAIN r, NEW j \in DOMAIN r, i < j
                 PROVE  r[i] < r[j]
      OBVIOUS
    <3>1. i \in DOMAIN q
      BY <1>1, <2>1
    <3>2. CASE j \in DOMAIN q
      BY <2>1, <3>1, <3>2 DEF Lists
    <3>3. CASE j = Len(q) + 1
      BY <1>1, <2>1, <3>1, <3>3
    <3> QED BY <2>2, <3>2, <3>3
  <2>4. \A k \in 1 .. n + 1 : k \in S <=> \E i \in DOMAIN r : r[i] = k
    <3> SUFFICES ASSUME NEW k \in 1 .. n + 1
                 PROVE  k \in S <=> \E i \in DOMAIN r : r[i] = k
      OBVIOUS
    <3>1. CASE k = n + 1
      <4>1. Len(q) + 1 \in DOMAIN r
        BY <1>1, <2>1
      <4> QED BY <1>3, <2>1, <3>1, <4>1
    <3>2. CASE k \in 1 .. n
      <4>1. k \in S <=> \E i \in DOMAIN q : q[i] = k
        BY <3>2 DEF Lists
      <4>2. (\E i \in DOMAIN q : q[i] = k) <=> \E i \in DOMAIN r : r[i] = k
        <5>1. ASSUME NEW i \in DOMAIN r, r[i] = k
              PROVE  i \in DOMAIN q
          BY <1>1, <2>1, <2>2, <3>2, <5>1
        <5>2. \A i \in DOMAIN q : i \in DOMAIN r /\ r[i] = q[i]
          BY <1>1, <2>1
        <5> QED BY <5>1, <5>2
      <4> QED BY <4>1, <4>2
    <3> QED BY <3>1, <3>2
  <2> QED BY <1>3, <2>1, <2>3, <2>4 DEF Lists, r
<1> QED BY <1>2, <1>3

LEMMA ListWithin ==
  ASSUME NEW n \in Nat, NEW S, NEW q, NEW r, Lists(q, S, n), Lists(r, S, n)
  PROVE  \A k \in DOMAIN q : k \in DOMAIN r /\ r[k] = q[k]
<1> DEFINE B == {k \in DOMAIN q : ~(k \in DOMAIN r /\ r[k] = q[k])}
<1>1. /\ Len(q) \in Nat /\ DOMAIN q = 1 .. Len(q)
      /\ \A i \in DOMAIN q : q[i] \in 1 .. n /\ q[i] \in S
  BY ListTypes
<1>2. /\ Len(r) \in Nat /\ DOMAIN r = 1 .. Len(r)
      /\ \A i \in DOMAIN r : r[i] \in 1 .. n /\ r[i] \in S
  BY ListTypes
<1>3. /\ \A i, j \in DOMAIN q : i < j => q[i] < q[j]
      /\ \A i, j \in DOMAIN r : i < j => r[i] < r[j]
      /\ \A k \in 1 .. n : k \in S => \E i \in DOMAIN q : q[i] = k
      /\ \A k \in 1 .. n : k \in S => \E i \in DOMAIN r : r[i] = k
  BY DEF Lists
<1> SUFFICES ASSUME B # {} PROVE FALSE
  OBVIOUS
<1>4. B \in SUBSET Nat
  BY <1>1
<1>5. PICK k \in B : \A i \in B : k <= i
  <2> HIDE DEF B
  <2> QED BY <1>4, LeastNatural
<1>6. k \in DOMAIN q /\ ~(k \in DOMAIN r /\ r[k] = q[k])
  BY <1>5
<1>7. \A i \in DOMAIN q : i < k => i \in DOMAIN r /\ r[i] = q[i]
  BY <1>1, <1>5
<1> HIDE DEF B
<1>8. PICK j \in DOMAIN r : r[j] = q[k]
  BY <1>1, <1>3, <1>6
<1>9. ~(j < k)
  <2> SUFFICES ASSUME j < k PROVE FALSE
    OBVIOUS
  <2>1. j \in DOMAIN q
    BY <1>1, <1>2, <1>6
  <2>2. r[j] = q[j] /\ q[j] < q[k]
    BY <1>3, <1>6, <1>7, <2>1
  <2> QED BY <1>1, <1>6, <1>8, <2>1, <2>2
<1>10. k \in DOMAIN r /\ k < j
  <2>1. k \in DOMAIN r
    BY <1>1, <1>2, <1>6, <1>9
  <2>2. k # j
    BY <1>6, <1>8, <2>1
  <2> QED BY <1>1, <1>2, <1>6, <1>9, <2>1, <2>2
<1>11. r[k] < q[k] /\ r[k] \in 1 .. n /\ r[k] \in S
  BY <1>2, <1>3, <1>8, <1>10
<1>12. PICK i \in DOMAIN q : q[i] = r[k]
  BY <1>3, <1>11
<1>13. i < k
  <2> SUFFICES ASSUME ~(i < k) PROVE FALSE
    OBVIOUS
  <2>1. i = k \/ k < i
    BY <1>1, <1>6
  <2>2. q[k] <= q[i]
    BY <1>1, <1>3, <1>6, <2>1
  <2> QED BY <1>1, <1>6, <1>11, <1>12, <2>2
<1>14. i \in DOMAIN r /\ r[i] = r[k] /\ r[i] < r[k]
  BY <1>3, <1>7, <1>10, <1>12, <1>13
<1> QED BY <1>2, <1>10, <1>14

\* There is only one such list.
LEMMA OneList ==
  ASSUME NEW n \in Nat, NEW S, NEW q, NEW r, Lists(q, S, n), Lists(r, S, n)
  PROVE  DOMAIN q = DOMAIN r /\ \A k \in DOMAIN q : q[k] = r[k]
<1>1. \A k \in DOMAIN q : k \in DOMAIN r /\ r[k] = q[k]
  BY ListWithin
<1>2. \A k \in DOMAIN r : k \in DOMAIN q /\ q[k] = r[k]
  BY ListWithin
<1> QED BY <1>1, <1>2

-----------------------------------------------------------------------------
(* An endless list, of n positions over and over.                          *)

Periodic(S, n) == \A j \in Positions : j \in S <=> j + n \in S

\* The k-th position of those that q lists.
At(q, n, k) == q[Turn(k, Len(q))] + n * Rounds(k, Len(q))

LEMMA PeriodicRounds ==
  ASSUME NEW n \in Positions, NEW S, Periodic(S, n),
         NEW j \in Positions
  PROVE  \A d \in Nat : j \in S <=> j + n * d \in S
<1> DEFINE B == {d \in Nat : j \in S <=> j + n * d \in S}
<1>1. 0 \in B
  <2>1. j + n * 0 = j
    BY DEF Positions
  <2> QED BY <2>1
<1>2. ASSUME NEW d \in Nat, d \in B
      PROVE  d + 1 \in B
  <2>1. n * (d + 1) = n * d + n /\ n * d \in Nat
    BY DEF Positions
  <2> DEFINE i == j + n * d
  <2>2. i \in Positions /\ j + n * (d + 1) = i + n
    BY <2>1 DEF Positions
  <2>3. j \in S <=> i \in S
    BY <1>2
  <2> HIDE DEF i
  <2>4. i \in S <=> i + n \in S
    BY <2>2 DEF Periodic
  <2> QED BY <2>2, <2>3, <2>4
<1> HIDE DEF B
<1>3. \A d \in Nat : d \in B
  BY <1>1, <1>2, Induction
<1> QED BY <1>3 DEF B

LEMMA EndlessList ==
  ASSUME NEW n \in Positions, NEW S \in SUBSET Positions, Periodic(S, n),
         NEW q, Lists(q, S, n), q # <<>>
  PROVE  /\ \A k \in Positions : /\ At(q, n, k) \in S
                                 /\ At(q, n, k) < At(q, n, k + 1)
         /\ \A j \in S : \E k \in Positions : At(q, n, k) = j
<1> DEFINE m == Len(q)
<1>1. /\ m \in Nat \ {0} /\ DOMAIN q = 1 .. m
      /\ \A i \in 1 .. m : q[i] \in 1 .. n /\ q[i] \in S
  <2>1. /\ Len(q) \in Nat /\ DOMAIN q = 1 .. Len(q)
        /\ \A i \in DOMAIN q : q[i] \in 1 .. n /\ q[i] \in S
    BY ListTypes DEF Positions
  <2>2. q \in Seq(1 .. n)
    BY DEF Lists
  <2> QED BY <2>1, <2>2
<1>2. \A k : At(q, n, k) = q[Turn(k, m)] + n * Rounds(k, m)
  BY DEF At
<1>3. \A i \in 1 .. m, d \in Nat :
         /\ i + m * d \in Nat \ {0}
         /\ Turn(i + m * d, m) = i /\ Rounds(i + m * d, m) = d
  BY <1>1, TurnIs
<1>4. \A i, j \in 1 .. m : i < j => q[i] < q[j]
  BY <1>1 DEF Lists
<1>5. \A j \in Positions, d \in Nat : j \in S <=> j + n * d \in S
  BY PeriodicRounds
<1>6. \A k \in 1 .. n : k \in S => \E i \in 1 .. m : q[i] = k
  BY <1>1 DEF Lists
<1> HIDE DEF m
<1>7. ASSUME NEW k \in Positions
      PROVE  At(q, n, k) \in S /\ At(q, n, k) < At(q, n, k + 1)
  <2> DEFINE i == Turn(k, m)
             d == Rounds(k, m)
  <2>1. i \in 1 .. m /\ d \in Nat /\ k = i + m * d /\ k \in Nat
    BY <1>1, TurnType DEF Positions
  <2>2. At(q, n, k) = q[i] + n * d
    BY <1>2
  <2> HIDE DEF i, d
  <2>3. q[i] \in S /\ q[i] \in 1 .. n /\ q[i] \in Positions
    BY <1>1, <2>1 DEF Positions
  <2>4. q[i] + n * d \in S
    BY <1>5, <2>1, <2>3
  <2>5. n * d \in Nat /\ m * d \in Nat
    BY <1>1, <2>1 DEF Positions
  <2>6. CASE i # m
    <3>1. i + 1 \in 1 .. m /\ k + 1 = (i + 1) + m * d
      BY <1>1, <2>1, <2>5, <2>6
    <3> DEFINE j == i + 1
    <3>2. j \in 1 .. m /\ k + 1 = j + m * d /\ i < j
      BY <1>1, <2>1, <3>1
    <3> HIDE DEF j
    <3>3. Turn(j + m * d, m) = j /\ Rounds(j + m * d, m) = d
      BY <1>3, <2>1, <3>2, Zenon
    <3>4. At(q, n, k + 1) = q[j] + n * d
      BY <1>2, <3>2, <3>3
    <3>5. q[i] < q[j] /\ q[j] \in 1 .. n
      BY <1>1, <1>4, <2>1, <3>2
    <3> QED BY <2>2, <2>3, <2>4, <2>5, <3>4, <3>5
  <2>7. CASE i = m
    <3> DEFINE e == d + 1
    <3>1. /\ e \in Nat /\ m * e = m * d + m /\ n * e = n * d + n
          /\ 1 \in 1 .. m
      BY <1>1, <2>1 DEF Positions
    <3> HIDE DEF e
    <3>2. k + 1 = 1 + m * e
      BY <1>1, <2>1, <2>5, <2>7, <3>1
    <3>3. Turn(1 + m * e, m) = 1 /\ Rounds(1 + m * e, m) = e
      BY <1>3, <3>1, Zenon
    <3>4. At(q, n, k + 1) = q[1] + n * e
      BY <1>2, <3>2, <3>3
    <3>5. q[1] \in 1 .. n
      BY <1>1, <3>1
    <3> QED BY <2>2, <2>3, <2>4, <2>5, <3>1, <3>4, <3>5 DEF Positions
  <2> QED BY <2>6, <2>7
<1>8. ASSUME NEW j \in S
      PROVE  \E k \in Positions : At(q, n, k) = j
  <2> DEFINE r == Turn(j, n)
             d == Rounds(j, n)
  <2>1. r \in 1 .. n /\ d \in Nat /\ j = r + n * d
    BY TurnType DEF Positions
  <2> HIDE DEF r, d
  <2>2. r \in S
    BY <1>5, <2>1 DEF Positions
  <2>3. PICK i \in 1 .. m : q[i] = r
    BY <1>6, <2>1, <2>2
  <2> DEFINE k == i + m * d
  <2>4. k \in Nat \ {0} /\ Turn(k, m) = i /\ Rounds(k, m) = d
    BY <1>3, <2>1
  <2> HIDE DEF k
  <2>5. At(q, n, k) = j
    BY <1>2, <2>1, <2>3, <2>4
  <2> QED BY <2>4, <2>5 DEF Positions
<1> QED BY <1>7, <1>8

\* f enumerates S, in order.
Enumerates(f, S) ==
  /\ f \in [Positions -> Positions]
  /\ \A k \in Positions : f[k] \in S /\ f[k] < f[k + 1]
  /\ \A j \in S : \E k \in Positions : f[k] = j

LEMMA Increases ==
  ASSUME NEW f, NEW S, Enumerates(f, S),
         NEW i \in Positions, NEW j \in Positions, i < j
  PROVE  f[i] < f[j]
<1> DEFINE B == {d \in Nat : f[i] < f[i + 1 + d]}
<1>1. \A k \in Positions : f[k] \in Nat /\ f[k] < f[k + 1]
  BY DEF Enumerates, Positions
<1>2. 0 \in B
  <2>1. i + 1 + 0 = i + 1
    BY DEF Positions
  <2> QED BY <1>1, <2>1
<1>3. ASSUME NEW d \in Nat, d \in B
      PROVE  d + 1 \in B
  <2> DEFINE k == i + 1 + d
  <2>1. k \in Positions /\ i + 1 + (d + 1) = k + 1 /\ k + 1 \in Positions
    BY DEF Positions
  <2>2. f[i] < f[k]
    BY <1>3
  <2> HIDE DEF k
  <2>3. f[i] < f[k + 1]
    BY <1>1, <2>1, <2>2
  <2> QED BY <2>1, <2>3
<1> HIDE DEF B
<1>4. \A d \in Nat : d \in B
  BY <1>2, <1>3, Induction
<1>5. j - i - 1 \in Nat /\ i + 1 + (j - i - 1) = j
  BY DEF Positions
<1>6. j - i - 1 \in B
  BY <1>4, <1>5
<1> QED BY <1>5, <1>6 DEF B

\* The k-th element has k up to it.
LEMMA RankOf ==
  ASSUME NEW f, NEW S, Enumerates(f, S), NEW k \in Positions
  PROVE  Cardinality({i \in 1 .. f[k] : i \in S}) = k
<1> DEFINE U == {i \in 1 .. f[k] : i \in S}
           g == [l \in 1 .. k |-> f[l]]
<1>1. /\ \A l \in Positions : f[l] \in Nat /\ f[l] # 0 /\ f[l] \in S
      /\ \A j \in S : \E l \in Positions : f[l] = j
      /\ \A i, j \in Positions : i < j => f[i] < f[j]
  BY Increases DEF Enumerates, Positions
<1>2. 1 .. k \subseteq Positions /\ k \in 1 .. k /\ k \in Nat
  BY DEF Positions
<1>3. ASSUME NEW l \in 1 .. k
      PROVE  g[l] \in U
  <2>1. l = k \/ l < k
    BY <1>2
  <2>2. f[l] <= f[k]
    BY <1>1, <1>2, <2>1
  <2> QED BY <1>1, <1>2, <2>2
<1>4. ASSUME NEW i \in 1 .. k, NEW j \in 1 .. k, g[i] = g[j]
      PROVE  i = j
  <2>1. ~(i < j) /\ ~(j < i)
    BY <1>1, <1>2, <1>4
  <2> QED BY <2>1
<1>5. ASSUME NEW j \in U
      PROVE  \E l \in 1 .. k : g[l] = j
  <2>1. PICK l \in Positions : f[l] = j
    BY <1>1
  <2>2. ~(k < l)
    BY <1>1, <1>2, <2>1
  <2>3. l \in 1 .. k
    BY <2>2 DEF Positions
  <2> QED BY <2>1, <2>3
<1>6. g \in Bijection(1 .. k, U)
  BY <1>3, <1>4, <1>5 DEF Bijection, Injection, Surjection, IsInjective
<1>7. ExistsBijection(1 .. k, U)
  BY <1>6 DEF ExistsBijection
<1> QED BY <1>2, <1>7, FS_CountingElements

LEMMA OneOfRank ==
  ASSUME NEW f, NEW S, Enumerates(f, S), NEW k \in Positions, NEW j \in S,
         Cardinality({i \in 1 .. j : i \in S}) = k
  PROVE  j = f[k]
<1>1. PICK l \in Positions : f[l] = j
  BY DEF Enumerates
<1>2. Cardinality({i \in 1 .. f[l] : i \in S}) = l
  BY RankOf
<1> QED BY <1>1, <1>2

\* Where every n positions have an element, the k-th is among the first k * n.
LEMMA RankBound ==
  ASSUME NEW f, NEW S \in SUBSET Positions, Enumerates(f, S),
         NEW n \in Positions, NEW s \in S, s <= n, Periodic(S, n),
         NEW k \in Positions
  PROVE  f[k] \in 1 .. k * n
<1> DEFINE B == {d \in Nat : f[d + 1] <= (d + 1) * n}
<1>1. /\ \A l \in Positions : f[l] \in Nat /\ f[l] # 0 /\ f[l] \in S
      /\ \A j \in S : \E l \in Positions : f[l] = j
      /\ \A i, j \in Positions : i < j => f[i] < f[j]
  BY Increases DEF Enumerates, Positions
<1>2. 0 \in B
  <2>1. PICK l \in Positions : f[l] = s
    BY <1>1
  <2>2. l = 1 \/ 1 < l
    BY DEF Positions
  <2>3. f[1] <= f[l]
    BY <1>1, <2>2 DEF Positions
  <2>4. f[0 + 1] = f[1] /\ (0 + 1) * n = n
    BY DEF Positions
  <2> QED BY <1>1, <2>1, <2>3, <2>4 DEF Positions
<1>3. ASSUME NEW d \in Nat, d \in B
      PROVE  d + 1 \in B
  <2> DEFINE i == d + 1
  <2>1. i \in Positions /\ i + 1 \in Positions /\ d + 1 + 1 = i + 1
        /\ (i + 1) * n = i * n + n /\ i * n \in Nat
    BY DEF Positions
  <2>2. f[i] <= i * n
    BY <1>3
  <2> HIDE DEF i
  <2>3. f[i] + n \in S
    BY <1>1, <2>1 DEF Periodic
  <2>4. PICK l \in Positions : f[l] = f[i] + n
    BY <1>1, <2>3
  <2>5. i < l
    <3> SUFFICES ASSUME ~(i < l) PROVE FALSE
      OBVIOUS
    <3>1. l = i \/ l < i
      BY <2>1 DEF Positions
    <3>2. f[l] <= f[i]
      BY <1>1, <2>1, <3>1
    <3> QED BY <1>1, <2>1, <2>4, <3>2 DEF Positions
  <2>6. l = i + 1 \/ i + 1 < l
    BY <2>1, <2>5 DEF Positions
  <2>7. f[i + 1] <= f[l]
    BY <1>1, <2>1, <2>6
  <2>8. f[i + 1] <= (i + 1) * n
    BY <1>1, <2>1, <2>2, <2>4, <2>7 DEF Positions
  <2> QED BY <2>1, <2>8
<1> HIDE DEF B
<1>4. \A d \in Nat : d \in B
  BY <1>2, <1>3, Induction
<1>5. k - 1 \in Nat /\ (k - 1) + 1 = k
  BY DEF Positions
<1>6. f[k] <= k * n
  BY <1>4, <1>5 DEF B
<1> QED BY <1>1, <1>6 DEF Positions

-----------------------------------------------------------------------------
(* The sums of the intervals.                                              *)

\* The loop of Due.
Summing(p, g, k) ==
  g = [i \in 0 .. k |-> IF i = 0 THEN 0
                        ELSE g[i - 1] + p[((i - 1) % Len(p)) + 1]]

LEMMA SumExists ==
  ASSUME NEW p
  PROVE  \A k \in Nat : \E g : Summing(p, g, k)
<1> DEFINE D == {k \in Nat : \E g : Summing(p, g, k)}
<1>1. 0 \in D
  <2> DEFINE g == [i \in 0 .. 0 |-> 0]
  <2>1. Summing(p, g, 0)
    BY DEF Summing
  <2> QED BY <2>1
<1>2. ASSUME NEW k \in Nat, k \in D
      PROVE  k + 1 \in D
  <2>1. PICK g : Summing(p, g, k)
    BY <1>2
  <2> DEFINE h == [i \in 0 .. k + 1 |->
                     IF i = k + 1 THEN g[k] + p[((i - 1) % Len(p)) + 1]
                     ELSE g[i]]
  <2>2. ASSUME NEW i \in 0 .. k + 1
        PROVE  h[i] = IF i = 0 THEN 0
                      ELSE h[i - 1] + p[((i - 1) % Len(p)) + 1]
    <3>1. CASE i = k + 1
      <4>1. i # 0 /\ i - 1 \in 0 .. k + 1 /\ i - 1 # k + 1 /\ i - 1 = k
        BY <3>1
      <4>2. h[i - 1] = g[k]
        BY <4>1
      <4> QED BY <3>1, <4>1, <4>2
    <3>2. CASE i # k + 1
      <4>1. i \in 0 .. k
        BY <3>2
      <4>2. i # 0 => i - 1 \in 0 .. k + 1 /\ i - 1 # k + 1
        BY <4>1
      <4>3. g[i] = IF i = 0 THEN 0
                   ELSE g[i - 1] + p[((i - 1) % Len(p)) + 1]
        BY <2>1, <4>1 DEF Summing
      <4>4. h[i] = g[i] /\ (i # 0 => h[i - 1] = g[i - 1])
        BY <3>2, <4>2
      <4> QED BY <4>3, <4>4
    <3> QED BY <3>1, <3>2
  <2>3. Summing(p, h, k + 1)
    BY <2>2 DEF Summing
  <2>4. k + 1 \in Nat
    OBVIOUS
  <2> HIDE DEF h
  <2> QED BY <2>3, <2>4
<1> HIDE DEF D
<1>3. \A k \in Nat : k \in D
  BY <1>1, <1>2, Induction
<1> QED BY <1>3 DEF D

LEMMA SumsAgree ==
  ASSUME NEW p, NEW g, NEW h, NEW k \in Nat, NEW l \in Nat, k <= l,
         Summing(p, g, k), Summing(p, h, l)
  PROVE  \A i \in 0 .. k : g[i] = h[i]
<1> DEFINE B == {i \in Nat : i <= k => g[i] = h[i]}
<1>1. \A i \in 0 .. k : g[i] = IF i = 0 THEN 0
                               ELSE g[i - 1] + p[((i - 1) % Len(p)) + 1]
  BY DEF Summing
<1>2. \A i \in 0 .. l : h[i] = IF i = 0 THEN 0
                               ELSE h[i - 1] + p[((i - 1) % Len(p)) + 1]
  BY DEF Summing
<1>3. 0 \in B
  BY <1>1, <1>2
<1>4. ASSUME NEW i \in Nat, i \in B
      PROVE  i + 1 \in B
  <2>1. CASE i + 1 <= k
    <3> DEFINE j == i + 1
    <3>1. j \in 0 .. k /\ j \in 0 .. l /\ j # 0 /\ j - 1 = i /\ g[i] = h[i]
          /\ j \in Nat
      BY <1>4, <2>1
    <3> HIDE DEF j
    <3>2. g[j] = g[j - 1] + p[((j - 1) % Len(p)) + 1]
      BY <1>1, <3>1
    <3>3. h[j] = h[j - 1] + p[((j - 1) % Len(p)) + 1]
      BY <1>2, <3>1
    <3>4. g[j] = h[j]
      BY <3>1, <3>2, <3>3
    <3> QED BY <3>1, <3>4 DEF j
  <2>2. CASE ~(i + 1 <= k)
    BY <2>2
  <2> QED BY <2>1, <2>2
<1> HIDE DEF B
<1>5. \A i \in Nat : i \in B
  BY <1>3, <1>4, Induction
<1> QED BY <1>5 DEF B

\* f sums the elements of p over and over.
SumsOf(f, p) ==
  /\ f \in [Nat -> Nat] /\ f[0] = 0
  /\ \A j \in Nat : f[j + 1] = f[j] + p[Turn(j + 1, Len(p))]

LEMMA DueSums ==
  ASSUME plan.kind # "poisson", plan.intervals \in Seq(Nat),
         plan.intervals # <<>>
  PROVE  SumsOf([j \in Nat |-> Timing!Due(j)], plan.intervals)
<1> DEFINE p == plan.intervals
           G(j) == CHOOSE g : Summing(p, g, j)
           f == [j \in Nat |-> Timing!Due(j)]
<1>1. \A j \in Nat : Summing(p, G(j), j)
  <2> HIDE DEF p
  <2> QED BY SumExists
<1>2. \A j \in Nat : f[j] = G(j)[j]
  BY DEF Timing!Due, Summing
<1>3. /\ Len(p) \in Nat \ {0}
      /\ \A i \in 1 .. Len(p) : p[i] \in Nat
  BY ElementOfSeq
<1> HIDE DEF p, G, f
<1>4. f[0] = 0
  BY <1>1, <1>2 DEF Summing
<1>5. ASSUME NEW j \in Nat
      PROVE  f[j + 1] = f[j] + p[Turn(j + 1, Len(p))]
  <2> DEFINE k == j + 1
  <2>1. k \in Nat /\ k \in 0 .. k /\ k # 0 /\ k - 1 = j /\ j <= k
        /\ j \in 0 .. j
    OBVIOUS
  <2> HIDE DEF k
  <2>2. Summing(p, G(k), k) /\ Summing(p, G(j), j)
    BY <1>1, <2>1
  <2>3. G(k)[k] = G(k)[k - 1] + p[((k - 1) % Len(p)) + 1]
    <3> DEFINE h == G(k)
    <3>1. Summing(p, h, k)
      BY <2>2
    <3> HIDE DEF h
    <3>2. h[k] = h[k - 1] + p[((k - 1) % Len(p)) + 1]
      BY <2>1, <3>1 DEF Summing
    <3> QED BY <3>2 DEF h
  <2>4. G(j)[j] = G(k)[j]
    BY <2>1, <2>2, SumsAgree
  <2>5. f[k] = f[j] + p[((k - 1) % Len(p)) + 1]
    BY <1>2, <2>1, <2>3, <2>4
  <2> QED BY <2>5 DEF k, Turn
<1>6. \A j \in Nat : f[j] \in Nat
  <2> DEFINE B == {j \in Nat : f[j] \in Nat}
  <2>1. 0 \in B
    BY <1>4
  <2>2. ASSUME NEW j \in Nat, j \in B
        PROVE  j + 1 \in B
    <3>1. j + 1 \in Nat \ {0}
      OBVIOUS
    <3>2. Turn(j + 1, Len(p)) \in 1 .. Len(p)
      BY <1>3, <3>1, TurnType
    <3>3. p[Turn(j + 1, Len(p))] \in Nat
      BY <1>3, <3>2
    <3>4. f[j + 1] = f[j] + p[Turn(j + 1, Len(p))] /\ f[j] \in Nat
      BY <1>5, <2>2
    <3> QED BY <3>1, <3>3, <3>4
  <2> HIDE DEF B
  <2>3. \A j \in Nat : j \in B
    BY <2>1, <2>2, Induction
  <2> QED BY <2>3 DEF B
<1>7. f \in [Nat -> Nat]
  <2>1. f = [j \in Nat |-> f[j]]
    BY DEF f
  <2> QED BY <1>6, <2>1
<1> QED BY <1>4, <1>5, <1>7 DEF SumsOf, f, p

\* Whole rounds of the intervals add up.
LEMMA SumShift ==
  ASSUME NEW p \in Seq(Nat), p # <<>>, NEW f, SumsOf(f, p),
         NEW n \in Nat, n % Len(p) = 0
  PROVE  \A j \in Nat : f[n + j] = f[n] + f[j]
<1> DEFINE B == {j \in Nat : f[n + j] = f[n] + f[j]}
           L == Len(p)
           d == n \div L
<1>1. L \in Nat \ {0} /\ \A i \in 1 .. L : p[i] \in Nat
  BY ElementOfSeq
<1>2. d \in Nat /\ n = L * d
  <2> HIDE DEF L
  <2>1. n \div L \in Nat /\ n = L * (n \div L) + (n % L)
    BY <1>1, DivMod
  <2>2. L * (n \div L) \in Nat /\ n % L = 0
    BY <1>1, <2>1 DEF L
  <2> QED BY <2>1, <2>2
<1>3. \A j \in Nat : f[j] \in Nat /\ f[j + 1] = f[j] + p[Turn(j + 1, L)]
  BY DEF SumsOf
<1>4. f[0] = 0
  BY DEF SumsOf
<1> HIDE DEF L, d
<1>5. 0 \in B
  <2>1. n + 0 = n /\ f[n] \in Nat
    BY <1>3
  <2> QED BY <1>4, <2>1
<1>6. ASSUME NEW j \in Nat, j \in B
      PROVE  j + 1 \in B
  <2> DEFINE k == j + 1
             i == n + j
  <2>1. k \in Nat \ {0} /\ i \in Nat /\ n + (j + 1) = i + 1
        /\ i + 1 = k + L * d
    BY <1>2
  <2>2. f[i] = f[n] + f[j]
    BY <1>6
  <2>3. f[k] = f[j] + p[Turn(k, L)]
    BY <1>3
  <2> HIDE DEF k, i
  <2>4. Turn(k + L * d, L) = Turn(k, L) /\ Turn(k, L) \in 1 .. L
    <3>1. \A x \in Nat \ {0}, y \in Nat :
             Turn(x + L * y, L) = Turn(x, L) /\ Turn(x, L) \in 1 .. L
      <4> SUFFICES ASSUME NEW x \in Nat \ {0}, NEW y \in Nat
                   PROVE  /\ Turn(x + L * y, L) = Turn(x, L)
                          /\ Turn(x, L) \in 1 .. L
        OBVIOUS
      <4>1. Turn(x + L * y, L) = Turn(x, L)
        BY <1>1, TurnAgain
      <4>2. Turn(x, L) \in 1 .. L
        BY <1>1, TurnType
      <4> QED BY <4>1, <4>2
    <3> QED BY <1>2, <2>1, <3>1, Zenon
  <2>5. f[i + 1] = f[i] + p[Turn(k, L)]
    <3>1. f[i + 1] = f[i] + p[Turn(i + 1, L)]
      BY <1>3, <2>1
    <3>2. Turn(i + 1, L) = Turn(k, L)
      BY <2>1, <2>4
    <3> QED BY <3>1, <3>2
  <2>6. f[i + 1] = f[n] + f[k]
    <3> DEFINE x == p[Turn(k, L)]
    <3>1. x \in Nat /\ f[n] \in Nat /\ f[j] \in Nat
      BY <1>1, <1>3, <2>4
    <3>2. f[k] = f[j] + x /\ f[i + 1] = f[i] + x
      BY <2>3, <2>5
    <3> HIDE DEF x
    <3> QED BY <2>2, <3>1, <3>2
  <2>7. k = j + 1
    BY DEF k
  <2> QED BY <2>1, <2>6, <2>7
<1> HIDE DEF B
<1>7. \A j \in Nat : j \in B
  BY <1>5, <1>6, Induction
<1> QED BY <1>7 DEF B

\* Each round of n adds the same to f.
EveryRound(f, n, j) == \A d \in Nat : f[j + n * d] = f[j] + f[n] * d

LEMMA SumRounds ==
  ASSUME NEW p \in Seq(Nat), p # <<>>, NEW f, SumsOf(f, p),
         NEW n \in Nat, n % Len(p) = 0, NEW j \in Nat
  PROVE  EveryRound(f, n, j)
<1> DEFINE B == {d \in Nat : f[j + n * d] = f[j] + f[n] * d}
<1>1. \A i \in Nat : f[n + i] = f[n] + f[i]
  BY SumShift
<1>2. \A i \in Nat : f[i] \in Nat
  BY DEF SumsOf
<1>3. 0 \in B
  <2>1. j + n * 0 = j /\ f[n] * 0 = 0
    BY <1>2
  <2> QED BY <1>2, <2>1
<1>4. ASSUME NEW d \in Nat, d \in B
      PROVE  d + 1 \in B
  <2> DEFINE i == j + n * d
  <2>1. n * (d + 1) = n * d + n /\ n * d \in Nat
    OBVIOUS
  <2>2. i \in Nat /\ j + n * (d + 1) = n + i
    BY <2>1
  <2>3. f[i] = f[j] + f[n] * d
    BY <1>4
  <2> HIDE DEF i
  <2>4. f[n + i] = f[n] + (f[j] + f[n] * d)
    BY <1>1, <2>2, <2>3
  <2>5. f[n] * (d + 1) = f[n] * d + f[n] /\ f[n] * d \in Nat
    <3>1. \A x \in Nat : x * (d + 1) = x * d + x /\ x * d \in Nat
      OBVIOUS
    <3>2. f[n] \in Nat
      BY <1>2
    <3> QED BY <3>1, <3>2
  <2>6. f[n + i] = f[j] + f[n] * (d + 1)
    BY <1>2, <2>4, <2>5
  <2> QED BY <2>2, <2>6
<1> HIDE DEF B
<1>5. \A d \in Nat : d \in B
  BY <1>3, <1>4, Induction
<1> QED BY <1>5 DEF B, EveryRound

-----------------------------------------------------------------------------
(* The parts of the workers.                                               *)

Mine(w) == {j \in Positions : Timing!ThreadIdOf(j) = w}

\* The loop of Dealt over the first k timestamps.
Dealing(w, g, k) ==
  g = [j \in 0 .. k |-> IF j = 0 THEN <<>>
                        ELSE IF Timing!ThreadIdOf(j) = w
                             THEN Append(g[j - 1], stamps[j])
                        ELSE g[j - 1]]

LEMMA DealtUnfold ==
  ASSUME NEW w, Len(stamps) \in Nat
  PROVE  \E g : /\ Dealing(w, g, Len(stamps))
                /\ Timing!Dealt(w) = g[Len(stamps)]
<1> DEFINE D == {k \in Nat : \E g : Dealing(w, g, k)}
<1>1. 0 \in D
  <2> DEFINE g == [n \in 0 .. 0 |-> <<>>]
  <2>1. Dealing(w, g, 0)
    BY DEF Dealing
  <2> QED BY <2>1
<1>2. ASSUME NEW k \in Nat, k \in D
      PROVE  k + 1 \in D
  <2>1. PICK g : Dealing(w, g, k)
    BY <1>2
  <2> DEFINE h == [n \in 0 .. k + 1 |->
                     IF n = k + 1
                     THEN IF Timing!ThreadIdOf(n) = w
                          THEN Append(g[k], stamps[n])
                          ELSE g[k]
                     ELSE g[n]]
  <2>2. ASSUME NEW n \in 0 .. k + 1
        PROVE  h[n] = IF n = 0 THEN <<>>
                      ELSE IF Timing!ThreadIdOf(n) = w
                           THEN Append(h[n - 1], stamps[n])
                      ELSE h[n - 1]
    <3>1. CASE n = k + 1
      <4>1. n # 0 /\ n - 1 \in 0 .. k + 1 /\ n - 1 # k + 1 /\ n - 1 = k
        BY <3>1
      <4>2. h[n - 1] = g[k]
        BY <4>1
      <4> QED BY <3>1, <4>1, <4>2
    <3>2. CASE n # k + 1
      <4>1. n \in 0 .. k
        BY <3>2
      <4>2. n # 0 => n - 1 \in 0 .. k + 1 /\ n - 1 # k + 1
        BY <4>1
      <4>3. g[n] = IF n = 0 THEN <<>>
                   ELSE IF Timing!ThreadIdOf(n) = w
                        THEN Append(g[n - 1], stamps[n])
                   ELSE g[n - 1]
        BY <2>1, <4>1 DEF Dealing
      <4>4. h[n] = g[n] /\ (n # 0 => h[n - 1] = g[n - 1])
        BY <3>2, <4>2
      <4> QED BY <4>3, <4>4
    <3> QED BY <3>1, <3>2
  <2>3. Dealing(w, h, k + 1)
    BY <2>2 DEF Dealing
  <2>4. k + 1 \in Nat
    OBVIOUS
  <2> HIDE DEF h
  <2> QED BY <2>3, <2>4
<1> DEFINE N == Len(stamps)
           g == CHOOSE g : Dealing(w, g, N)
<1>3. Dealing(w, g, N)
  <2>1. N \in D
    <3> HIDE DEF D
    <3> QED BY <1>1, <1>2, Induction
  <2> QED BY <2>1
<1>4. Timing!Dealt(w) = g[N]
  BY DEF Timing!Dealt, Dealing
<1> HIDE DEF g
<1> QED BY <1>3, <1>4

\* A worker has the timestamps at its positions.
LEMMA DealtLists ==
  ASSUME stamps \in Seq(Nat), NEW w
  PROVE  \E q : /\ Lists(q, Mine(w), Len(stamps))
                /\ Timing!Dealt(w) = [i \in DOMAIN q |-> stamps[q[i]]]
<1> DEFINE N == Len(stamps)
           S == Mine(w)
<1>1. N \in Nat
  OBVIOUS
<1>2. PICK g : Dealing(w, g, N) /\ Timing!Dealt(w) = g[N]
  BY DealtUnfold
<1>3. \A j \in 1 .. N : (j \in S) = (Timing!ThreadIdOf(j) = w)
  BY DEF Mine, Positions
<1> HIDE DEF N, S
<1> DEFINE B == {k \in Nat : k <= N =>
                    \E q : /\ Lists(q, S, k)
                           /\ g[k] = [i \in DOMAIN q |-> stamps[q[i]]]}
<1>4. 0 \in B
  <2> DEFINE q == <<>>
  <2>1. Lists(q, S, 0)
    BY DEF Lists
  <2>2. g[0] = [i \in DOMAIN q |-> stamps[q[i]]]
    BY <1>1, <1>2 DEF Dealing
  <2> QED BY <2>1, <2>2
<1>5. ASSUME NEW k \in Nat, k \in B
      PROVE  k + 1 \in B
  <2> SUFFICES ASSUME k + 1 <= N
               PROVE  \E q : /\ Lists(q, S, k + 1)
                             /\ g[k + 1] = [i \in DOMAIN q |-> stamps[q[i]]]
    OBVIOUS
  <2>1. k <= N /\ k + 1 \in 0 .. N /\ k + 1 \in 1 .. N /\ k + 1 # 0
        /\ (k + 1) - 1 = k
    BY <1>1
  <2>2. PICK q : /\ Lists(q, S, k)
                 /\ g[k] = [i \in DOMAIN q |-> stamps[q[i]]]
    BY <1>5, <2>1
  <2>3. Lists(IF k + 1 \in S THEN Append(q, k + 1) ELSE q, S, k + 1)
    BY <2>2, ListsOneMore
  <2>4. g[k + 1] = IF Timing!ThreadIdOf(k + 1) = w
                   THEN Append(g[k], stamps[k + 1]) ELSE g[k]
    BY <1>2, <2>1 DEF Dealing
  <2>5. CASE k + 1 \notin S
    BY <1>3, <2>1, <2>2, <2>3, <2>4, <2>5
  <2>6. CASE k + 1 \in S
    <3> DEFINE r == Append(q, k + 1)
    <3>1. g[k + 1] = Append(g[k], stamps[k + 1])
      BY <1>3, <2>1, <2>4, <2>6
    <3>2. /\ q \in Seq(Nat) /\ Len(q) \in Nat /\ DOMAIN q = 1 .. Len(q)
          /\ \A i \in DOMAIN q : q[i] \in 1 .. k
      <4>1. /\ Len(q) \in Nat /\ DOMAIN q = 1 .. Len(q)
            /\ \A i \in DOMAIN q : q[i] \in 1 .. k
        BY <2>2, ListTypes
      <4>2. q \in Seq(1 .. k) /\ 1 .. k \subseteq Nat
        BY <2>2 DEF Lists
      <4> QED BY <4>1, <4>2
    <3>3. /\ Len(r) = Len(q) + 1 /\ DOMAIN r = 1 .. Len(q) + 1
          /\ \A i \in DOMAIN q : r[i] = q[i]
          /\ r[Len(q) + 1] = k + 1
      BY <3>2, AppendProperties
    <3>4. \A i \in 1 .. N : stamps[i] \in Nat
      BY ElementOfSeq DEF N
    <3>5. g[k] \in Seq(Nat) /\ Len(g[k]) = Len(q)
      <4>1. \A i \in 1 .. Len(q) : stamps[q[i]] \in Nat
        BY <1>1, <2>1, <3>2, <3>4
      <4>2. g[k] = [i \in 1 .. Len(q) |-> stamps[q[i]]]
        BY <2>2, <3>2
      <4> QED BY <3>2, <4>1, <4>2
    <3>6. stamps[k + 1] \in Nat
      BY <2>1, <3>4
    <3>7. /\ g[k + 1] \in Seq(Nat) /\ Len(g[k + 1]) = Len(q) + 1
          /\ \A i \in 1 .. Len(q) : g[k + 1][i] = g[k][i]
          /\ g[k + 1][Len(q) + 1] = stamps[k + 1]
      BY <3>1, <3>5, <3>6, AppendProperties
    <3> HIDE DEF r
    <3>8. ASSUME NEW i \in 1 .. Len(q) + 1
          PROVE  g[k + 1][i] = stamps[r[i]]
      <4>1. CASE i \in 1 .. Len(q)
        <5>1. g[k][i] = stamps[q[i]]
          BY <2>2, <3>2, <4>1
        <5>2. r[i] = q[i]
          BY <3>2, <3>3, <4>1
        <5> QED BY <3>7, <4>1, <5>1, <5>2
      <4>2. CASE i = Len(q) + 1
        BY <3>3, <3>7, <4>2
      <4> QED BY <3>2, <4>1, <4>2
    <3>9. g[k + 1] = [i \in 1 .. Len(q) + 1 |-> g[k + 1][i]]
      BY <3>2, <3>7
    <3>10. g[k + 1] = [i \in DOMAIN r |-> stamps[r[i]]]
      BY <3>3, <3>8, <3>9
    <3>11. Lists(r, S, k + 1)
      BY <2>3, <2>6 DEF r
    <3> QED BY <3>10, <3>11
  <2> QED BY <2>5, <2>6
<1> HIDE DEF B
<1>6. \A k \in Nat : k \in B
  BY <1>4, <1>5, Induction
<1>7. N \in B
  BY <1>1, <1>6
<1>8. \E q : /\ Lists(q, S, N)
             /\ g[N] = [i \in DOMAIN q |-> stamps[q[i]]]
  BY <1>1, <1>7 DEF B
<1> QED BY <1>2, <1>8 DEF S, N

-----------------------------------------------------------------------------
(* The threads.                                                            *)

\* A part of the schedule that is not refused.
Ready ==
  /\ plan \in Plans /\ part \in {"warmup", "benchmark"}
  /\ Timing!DatasetOk
  /\ part = "warmup" => plan.warmup > 0

LEMMA PlanTypes ==
  ASSUME plan \in Plans
  PROVE  /\ plan.kind \in {"constant", "poisson", "custom", "fixed"}
         /\ plan.max_threads \in Nat \ {0} /\ plan.sequences \in Nat
         /\ plan.warmup \in Nat /\ plan.duration \in Nat
         /\ plan.draws \subseteq Nat
         /\ plan.intervals \in Seq(Nat) /\ plan.times \in Seq(Nat)
         /\ plan.kind = "constant" =>
                Len(plan.intervals) = 1 /\ plan.intervals[1] > 0
         /\ plan.kind = "custom" => plan.intervals # <<>>
         /\ plan.kind = "fixed" => plan.sequences = 0
BY PreparationOK DEF Timing!PlansOK

\* Where the timestamps of the part begin in those of the data.
Skipped == IF part = "warmup" THEN 0 ELSE plan.warmup

LEMMA PartTimesAre ==
  ASSUME Ready, Timing!Fixed
  PROVE  /\ Timing!PartTimes \in Seq(Nat)
         /\ Len(Timing!PartTimes) \in Nat \ {0}
         /\ Len(Timing!PartTimes) = IF part = "warmup" THEN plan.warmup
                                    ELSE Len(plan.times) - plan.warmup
         /\ \A j \in 1 .. Len(Timing!PartTimes) :
               /\ Timing!PartTimes[j] \in Nat
               /\ Timing!PartTimes[j] = plan.times[Skipped + j]
<1>1. /\ plan.times \in Seq(Nat) /\ plan.warmup \in Nat
      /\ plan.warmup < Len(plan.times) /\ Len(plan.times) \in Nat
  BY PlanTypes DEF Ready, Timing!DatasetOk
<1>2. CASE part = "warmup"
  <2>1. plan.warmup > 0 /\ Skipped = 0
    BY <1>2 DEF Ready, Skipped
  <2>2. Timing!PartTimes = SubSeq(plan.times, 1, plan.warmup)
    BY <1>2 DEF Timing!PartTimes
  <2>3. /\ SubSeq(plan.times, 1, plan.warmup) \in Seq(Nat)
        /\ Len(SubSeq(plan.times, 1, plan.warmup)) = plan.warmup
        /\ \A j \in 1 .. plan.warmup :
              SubSeq(plan.times, 1, plan.warmup)[j] = plan.times[0 + j]
    BY <1>1, <2>1
  <2>4. \A j \in 1 .. Len(plan.times) : plan.times[j] \in Nat
    BY <1>1, ElementOfSeq
  <2> QED BY <1>1, <1>2, <2>1, <2>2, <2>3, <2>4
<1>3. CASE part # "warmup"
  <2> DEFINE q == SubSeq(plan.times, plan.warmup + 1, Len(plan.times))
  <2>1. Skipped = plan.warmup
    BY <1>3 DEF Skipped
  <2>2. Timing!PartTimes = q
    BY <1>3 DEF Timing!PartTimes
  <2>3. \A j \in 1 .. Len(plan.times) : plan.times[j] \in Nat
    BY <1>1, ElementOfSeq
  <2>4. /\ q \in Seq(Nat)
        /\ Len(q) = Len(plan.times) - plan.warmup
        /\ \A j \in 1 .. Len(q) : q[j] = plan.times[plan.warmup + j]
    <3> DEFINE m == plan.warmup + 1
               n == Len(plan.times)
    <3>1. m \in Int /\ n \in Int /\ m <= n /\ m = plan.warmup + 1
          /\ n = Len(plan.times) /\ m \in Nat \ {0}
      BY <1>1
    <3>2. q = SubSeq(plan.times, m, n)
      OBVIOUS
    <3>3. \A j \in m .. n : plan.times[j] \in Nat
      BY <2>3, <3>1
    <3> HIDE DEF m, n, q
    <3>4. /\ q \in Seq(Nat)
          /\ Len(q) = n - m + 1
          /\ \A j \in 1 .. n - m + 1 : q[j] = plan.times[m + j - 1]
      BY <3>1, <3>2, <3>3, SubSeqProperties
    <3>5. PICK u \in Nat : u = plan.warmup
      BY <1>1
    <3>6. n - m + 1 = n - u
      BY <3>1, <3>5
    <3>7. ASSUME NEW j \in 1 .. Len(q)
          PROVE  q[j] = plan.times[plan.warmup + j]
      <4>1. m + j - 1 = u + j /\ j \in 1 .. n - m + 1
        BY <3>1, <3>4, <3>5, <3>6
      <4> QED BY <3>4, <3>5, <4>1
    <3> QED BY <3>1, <3>4, <3>5, <3>6, <3>7
  <2> HIDE DEF q
  <2>5. Len(q) \in Nat \ {0} /\ \A j \in 1 .. Len(q) : q[j] \in Nat
    <3>1. Len(q) \in Nat \ {0}
      BY <1>1, <2>4
    <3> QED BY <2>4, <3>1, ElementOfSeq
  <2>6. Len(q) = IF part = "warmup" THEN plan.warmup
                 ELSE Len(plan.times) - plan.warmup
    BY <1>3, <2>4
  <2>7. \A j \in 1 .. Len(q) : q[j] = plan.times[Skipped + j]
    BY <2>1, <2>4
  <2> QED BY <2>2, <2>4, <2>5, <2>6, <2>7
<1> QED BY <1>2, <1>3

Ids == Timing!CalculateThreadIds

LEMMA ThreadsAre ==
  ASSUME Ready
  PROVE  /\ Timing!NumThreads \in Nat \ {0} /\ Len(Ids) \in Nat \ {0}
         /\ Timing!NumThreads <= Len(Ids)
         /\ Ids = [i \in 1 .. Len(Ids) |-> (i - 1) % Timing!NumThreads]
         /\ Timing!Fixed => /\ Timing!NumThreads = Len(Ids)
                            /\ Timing!NumThreads <= Len(Timing!PartTimes)
<1>1. plan.max_threads \in Nat \ {0} /\ plan.sequences \in Nat
  BY PlanTypes DEF Ready
<1>2. Timing!Fixed => plan.sequences = 0
  BY PlanTypes DEF Ready, Timing!Fixed
<1>3. Timing!Fixed => Len(Timing!PartTimes) \in Nat \ {0}
  BY PartTimesAre
<1>4. /\ Timing!ThreadLimit \in Nat \ {0}
      /\ Timing!Fixed => Timing!ThreadLimit <= Len(Timing!PartTimes)
  BY <1>1, <1>3 DEF Timing!ThreadLimit
<1> DEFINE T == Timing!NumThreads
           L == IF plan.sequences # 0 THEN plan.sequences
                ELSE Timing!ThreadLimit
<1>5. /\ T \in Nat \ {0} /\ L \in Nat \ {0} /\ T <= L
      /\ Timing!Fixed => T = L /\ T <= Len(Timing!PartTimes)
  BY <1>1, <1>2, <1>4 DEF Timing!NumThreads
<1>6. Ids = [i \in 1 .. L |-> (i - 1) % T]
  BY DEF Ids, Timing!CalculateThreadIds
<1> HIDE DEF T, L
<1>7. Len(Ids) = L
  BY <1>5, <1>6
<1> QED BY <1>5, <1>6, <1>7 DEF T

LEMMA ThreadTurns ==
  ASSUME Ready
  PROVE  /\ \A j \in Positions :
               /\ Timing!ThreadIdOf(j) \in 0 .. Timing!NumThreads - 1
               /\ Timing!Fixed => Timing!ThreadIdOf(j)
                                    = (j - 1) % Timing!NumThreads
               /\ \A d \in Nat : Timing!ThreadIdOf(j + Len(Ids) * d)
                                    = Timing!ThreadIdOf(j)
         /\ \A w \in 0 .. Timing!NumThreads - 1 : w + 1 \in Mine(w)
<1> DEFINE T == Timing!NumThreads
           L == Len(Ids)
<1>1. /\ T \in Nat \ {0} /\ L \in Nat \ {0} /\ T <= L
      /\ Ids = [i \in 1 .. L |-> (i - 1) % T]
      /\ Timing!Fixed => T = L
  BY ThreadsAre
<1>2. \A j : Timing!ThreadIdOf(j) = Ids[Turn(j, L)]
  BY DEF Timing!ThreadIdOf, Turn, Ids
<1> HIDE DEF T, L
<1>3. ASSUME NEW j \in Positions
      PROVE  /\ Turn(j, L) \in 1 .. L
             /\ Timing!ThreadIdOf(j) = (Turn(j, L) - 1) % T
             /\ \A d \in Nat : Turn(j + L * d, L) = Turn(j, L)
  <2>1. Turn(j, L) \in 1 .. L
    BY <1>1, TurnType DEF Positions
  <2>2. \A d \in Nat : Turn(j + L * d, L) = Turn(j, L)
    BY <1>1, TurnAgain DEF Positions
  <2> QED BY <1>1, <1>2, <2>1, <2>2
<1>4. \A a \in Nat : a % T \in 0 .. T - 1
  BY <1>1, DivMod
<1>5. \A r \in 0 .. T - 1 : r % T = r
  <2> SUFFICES ASSUME NEW r \in 0 .. T - 1 PROVE r % T = r
    OBVIOUS
  <2>1. T * 0 + r = r
    BY <1>1
  <2>2. (T * 0 + r) % T = r
    BY <1>1, QuotientIs
  <2> QED BY <2>1, <2>2
<1>6. ASSUME NEW j \in Positions
      PROVE  Timing!ThreadIdOf(j) \in 0 .. T - 1
  <2>1. Turn(j, L) - 1 \in Nat
    BY <1>3
  <2> QED BY <1>3, <1>4, <2>1
<1>7. ASSUME NEW j \in Positions, Timing!Fixed
      PROVE  Timing!ThreadIdOf(j) = (j - 1) % T
  <2>1. Turn(j, L) - 1 = (j - 1) % T
    <3>1. (j - 1) % T \in 0 .. T - 1
      BY <1>4 DEF Positions
    <3>2. Turn(j, L) = ((j - 1) % T) + 1
      BY <1>1, <1>7 DEF Turn
    <3> QED BY <1>1, <3>1, <3>2
  <2>2. (j - 1) % T \in 0 .. T - 1
    BY <1>4 DEF Positions
  <2>3. ((j - 1) % T) % T = (j - 1) % T
    BY <1>5, <2>2
  <2> QED BY <1>3, <2>1, <2>3
<1>8. ASSUME NEW j \in Positions, NEW d \in Nat
      PROVE  Timing!ThreadIdOf(j + L * d) = Timing!ThreadIdOf(j)
  BY <1>2, <1>3
<1>9. ASSUME NEW w \in 0 .. T - 1
      PROVE  w + 1 \in Mine(w)
  <2> DEFINE j == w + 1
  <2>1. j \in Positions /\ j \in 1 .. L /\ j - 1 = w /\ j + L * 0 = j
    BY <1>1 DEF Positions
  <2> HIDE DEF j
  <2>2. Turn(j + L * 0, L) = j
    BY <1>1, <2>1, TurnIs
  <2>3. Timing!ThreadIdOf(j) = w
    BY <1>3, <1>5, <2>1, <2>2
  <2> QED BY <2>1, <2>3 DEF Mine, j
<1> QED BY <1>6, <1>7, <1>8, <1>9 DEF T, L

-----------------------------------------------------------------------------
(* A schedule that is complete.                                            *)

StampsOK ==
  /\ stamps \in Seq(Nat)
  /\ Timing!Fixed =>
       /\ Len(stamps) <= Len(Timing!PartTimes)
       /\ \A j \in DOMAIN stamps : stamps[j] = Timing!PartTimes[j]
  /\ ~Timing!Fixed =>
       \A i, j \in DOMAIN stamps : i <= j => stamps[i] <= stamps[j]
  /\ plan.kind \in {"constant", "custom"} =>
       \A j \in DOMAIN stamps : stamps[j] = Timing!Due(j)

LEMMA WholeRounds ==
  ASSUME Ready, StampsOK, Timing!Complete
  PROVE  /\ Len(stamps) \in Nat \ {0} /\ Len(Ids) <= Len(stamps)
         /\ Timing!Fixed => Len(stamps) = Len(Timing!PartTimes)
         /\ ~Timing!Fixed => Len(stamps) % Len(Ids) = 0
         /\ plan.kind \in {"constant", "custom"} =>
              /\ plan.intervals \in Seq(Nat) /\ plan.intervals # <<>>
              /\ Len(stamps) % Len(plan.intervals) = 0
<1> DEFINE N == Len(stamps)
           L == Len(Ids)
<1>1. N \in Nat \ {0} /\ stamps # <<>>
  BY DEF StampsOK, Timing!Complete
<1>2. L \in Nat \ {0} /\ (Timing!Fixed => L <= Len(Timing!PartTimes))
  BY ThreadsAre
<1>3. Timing!Fixed => N = Len(Timing!PartTimes)
  BY DEF Timing!Complete, Timing!Fixed
<1>4. ~Timing!Fixed => N % L = 0
  BY DEF Timing!Complete, Ids
<1>5. ASSUME ~Timing!Fixed
      PROVE  L <= N
  <2>1. PICK d \in Nat : N = L * d
    <3>1. N \div L \in Nat /\ N = L * (N \div L) + (N % L)
      <4> HIDE DEF N, L
      <4> QED BY <1>1, <1>2, DivMod
    <3> HIDE DEF N, L
    <3>2. N % L = 0 /\ L * (N \div L) \in Nat
      BY <1>2, <1>4, <1>5, <3>1
    <3> QED BY <3>1, <3>2
  <2> HIDE DEF N, L
  <2>2. d # 0
    BY <1>1, <1>2, <2>1
  <2>3. L * 0 + L <= L * d
    BY <1>2, <2>1, <2>2, ProductGrows
  <2> QED BY <1>2, <2>1, <2>3
<1>6. ASSUME plan.kind = "custom"
      PROVE  N % Len(plan.intervals) = 0 /\ plan.intervals # <<>>
  <2>1. ~Timing!Fixed
    BY <1>6 DEF Timing!Fixed
  <2> QED BY <1>6, <2>1, PlanTypes DEF Timing!Complete, Ready
<1>7. ASSUME plan.kind = "constant"
      PROVE  N % Len(plan.intervals) = 0 /\ plan.intervals # <<>>
  <2>1. Len(plan.intervals) = 1 /\ plan.intervals \in Seq(Nat)
    BY <1>7, PlanTypes DEF Ready
  <2>2. N % 1 = 0
    <3> HIDE DEF N
    <3> QED BY <1>1
  <2> QED BY <2>1, <2>2
<1>8. plan.intervals \in Seq(Nat)
  BY PlanTypes DEF Ready
<1> QED BY <1>1, <1>2, <1>3, <1>4, <1>5, <1>6, <1>7, <1>8

\* What a worker has been dealt.
LEMMA PartIs ==
  ASSUME Ready, StampsOK, Timing!Complete,
         NEW w \in 0 .. Timing!NumThreads - 1
  PROVE  \E q : /\ Lists(q, Mine(w), Len(stamps)) /\ q # <<>>
                /\ Timing!Dealt(w) \in Seq(Nat)
                /\ Len(Timing!Dealt(w)) = Len(q)
                /\ \A i \in 1 .. Len(q) : Timing!Dealt(w)[i] = stamps[q[i]]
<1> DEFINE N == Len(stamps)
<1>1. N \in Nat \ {0} /\ Len(Ids) <= N /\ stamps \in Seq(Nat)
  BY WholeRounds DEF StampsOK
<1>2. PICK q : /\ Lists(q, Mine(w), N)
               /\ Timing!Dealt(w) = [i \in DOMAIN q |-> stamps[q[i]]]
  BY <1>1, DealtLists
<1>3. /\ Len(q) \in Nat /\ DOMAIN q = 1 .. Len(q)
      /\ \A i \in DOMAIN q : q[i] \in 1 .. N
  <2> HIDE DEF N
  <2> QED BY <1>1, <1>2, ListTypes
<1>4. q # <<>>
  <2>1. w + 1 \in Mine(w)
    BY ThreadTurns
  <2>2. w + 1 \in 1 .. N
    BY <1>1, ThreadsAre
  <2>3. \E i \in DOMAIN q : q[i] = w + 1
    BY <1>2, <2>1, <2>2 DEF Lists
  <2> QED BY <1>3, <2>3
<1>5. \A i \in 1 .. N : stamps[i] \in Nat
  BY <1>1, ElementOfSeq
<1>6. \A i \in 1 .. Len(q) : stamps[q[i]] \in Nat
  BY <1>3, <1>5
<1> DEFINE d == Timing!Dealt(w)
<1>7. d = [i \in 1 .. Len(q) |-> stamps[q[i]]]
  BY <1>2, <1>3
<1> HIDE DEF d, N
<1>8. /\ d \in Seq(Nat) /\ Len(d) = Len(q)
      /\ \A i \in 1 .. Len(q) : d[i] = stamps[q[i]]
  BY <1>3, <1>6, <1>7
<1> QED BY <1>2, <1>4, <1>8 DEF d, N

\* Two ranges from 1 that agree end alike.
LEMMA SameRange ==
  ASSUME NEW a \in Nat, NEW b \in Nat, 1 .. a = 1 .. b
  PROVE  a = b
<1>1. ASSUME a < b PROVE FALSE
  <2>1. b \in 1 .. b
    BY <1>1
  <2> QED BY <1>1, <2>1
<1>2. ASSUME b < a PROVE FALSE
  <2>1. a \in 1 .. a
    BY <1>2
  <2> QED BY <1>2, <2>1
<1> QED BY <1>1, <1>2

\* Every t-th from the w-th on, counted from 0.
Nth(w, t, k) == w + 1 + (k - 1) * t

LEMMA EveryNth ==
  ASSUME NEW n \in Nat, NEW t \in Nat \ {0}, NEW w \in 0 .. t - 1, NEW S,
         \A j \in Positions : j \in S <=> (j - 1) % t = w,
         NEW q, Lists(q, S, n)
  PROVE  /\ Len(q) = Timing!Share(n, t, w)
         /\ \A k \in 1 .. Len(q) : q[k] = Nth(w, t, k)
<1> DEFINE c == Timing!Share(n, t, w)
           r == [k \in 1 .. c |-> w + 1 + (k - 1) * t]
<1>1. PICK a \in Nat, b \in 0 .. t - 1 :
        /\ n = t * a + b
        /\ c = IF w < b THEN a + 1 ELSE a
  <2> DEFINE a == n \div t
             b == n % t
  <2>1. a \in Nat /\ b \in 0 .. t - 1 /\ n = t * a + b
    BY DivMod
  <2>2. c = a + (IF w < b THEN 1 ELSE 0)
    BY DEF Timing!Share
  <2> HIDE DEF a, b, c
  <2> QED BY <2>1, <2>2
<1>2. c \in Nat
  BY <1>1
<1>3. \A k \in Nat : k * t \in Nat /\ t * k = k * t
  OBVIOUS
<1>4. ASSUME NEW k \in 1 .. c
      PROVE  (k - 1) * t + w < n
  <2> DEFINE d == k - 1
  <2>1. d \in Nat /\ (IF w < b THEN d <= a ELSE d < a)
    BY <1>1, <1>2
  <2> HIDE DEF d, c
  <2>2. CASE d < a
    <3>1. t * d + t <= t * a /\ t * d \in Nat /\ t * a \in Nat
      BY <2>1, <2>2, ProductGrows
    <3> QED BY <1>1, <1>3, <2>1, <3>1 DEF d
  <2>3. CASE d = a /\ w < b
    <3>1. d * t = t * a /\ d * t \in Nat
      BY <1>3, <2>1, <2>3
    <3> QED BY <1>1, <2>3, <3>1 DEF d
  <2> QED BY <1>1, <2>1, <2>2, <2>3
<1>5. \A k \in 1 .. c : /\ r[k] = w + 1 + (k - 1) * t
                        /\ (k - 1) * t \in Nat
                        /\ r[k] \in 1 .. n
  <2> SUFFICES ASSUME NEW k \in 1 .. c
               PROVE  /\ r[k] = w + 1 + (k - 1) * t
                      /\ (k - 1) * t \in Nat
                      /\ r[k] \in 1 .. n
    OBVIOUS
  <2>1. k - 1 \in Nat
    BY <1>2
  <2>2. (k - 1) * t \in Nat
    BY <1>3, <2>1
  <2> QED BY <1>4, <2>2
<1>6. r \in Seq(1 .. n) /\ DOMAIN r = 1 .. c /\ Len(r) = c
  <2> HIDE DEF c
  <2>1. \A k \in 1 .. c : w + 1 + (k - 1) * t \in 1 .. n
    BY <1>5
  <2> QED BY <1>2, <2>1
<1>7. ASSUME NEW i \in 1 .. c, NEW j \in 1 .. c, i < j
      PROVE  r[i] < r[j]
  <2> DEFINE x == i - 1
             y == j - 1
  <2>1. x \in Nat /\ y \in Nat /\ x < y
    BY <1>2, <1>7
  <2>2. r[i] = w + 1 + x * t /\ r[j] = w + 1 + y * t
    BY <1>5
  <2> HIDE DEF x, y, r
  <2>3. t * x + t <= t * y
    BY <2>1, ProductGrows
  <2>4. t * x = x * t /\ t * y = y * t /\ x * t \in Nat /\ y * t \in Nat
    BY <1>3, <2>1
  <2> QED BY <2>2, <2>3, <2>4
<1>8. ASSUME NEW k \in 1 .. n
      PROVE  k \in S <=> \E i \in DOMAIN r : r[i] = k
  <2>1. k \in S <=> (k - 1) % t = w
    BY DEF Positions
  <2> DEFINE d == (k - 1) \div t
             s == (k - 1) % t
  <2>2. d \in Nat /\ s \in 0 .. t - 1 /\ k - 1 = t * d + s
    <3>1. k - 1 \in Nat
      OBVIOUS
    <3> QED BY <3>1, DivMod
  <2> HIDE DEF d, s
  <2>3. ASSUME s = w
        PROVE  \E i \in DOMAIN r : r[i] = k
    <3>1. IF w < b THEN d < a + 1 ELSE d < a
      <4>1. t * d + w < t * a + b /\ t * d \in Nat /\ t * a \in Nat
        BY <1>1, <2>2, <2>3
      <4>2. CASE w < b
        <5> SUFFICES ASSUME a < d PROVE FALSE
          BY <2>2, <4>2
        <5>1. t * a + t <= t * d
          BY <2>2, ProductGrows
        <5> QED BY <1>1, <4>1, <5>1
      <4>3. CASE ~(w < b)
        <5> SUFFICES ASSUME ~(d < a) PROVE FALSE
          BY <4>3
        <5>1. d = a \/ a < d
          BY <2>2
        <5>2. t * a <= t * d
          <6>1. CASE a < d
            <7>1. t * a + t <= t * d
              BY <2>2, <6>1, ProductGrows
            <7> QED BY <4>1, <7>1
          <6>2. CASE d = a
            BY <4>1, <6>2
          <6> QED BY <5>1, <6>1, <6>2
        <5> QED BY <1>1, <4>1, <4>3, <5>2
      <4> QED BY <4>2, <4>3
    <3> DEFINE i == d + 1
    <3>2. i \in 1 .. c /\ i - 1 = d
      BY <1>1, <2>2, <3>1
    <3> HIDE DEF i, c, r
    <3>3. r[i] = w + 1 + (i - 1) * t
      BY <1>5, <3>2
    <3>4. (i - 1) * t = t * d /\ t * d \in Nat
      BY <1>3, <2>2, <3>2
    <3>5. r[i] = k
      BY <2>2, <2>3, <3>3, <3>4
    <3> QED BY <1>6, <3>2, <3>5
  <2>4. ASSUME NEW i \in DOMAIN r, r[i] = k
        PROVE  s = w
    <3>1. i \in 1 .. c
      BY <1>6
    <3>2. k = w + 1 + (i - 1) * t /\ i - 1 \in Nat
      BY <1>2, <1>5, <2>4, <3>1
    <3> DEFINE e == i - 1
    <3>3. e \in Nat /\ k - 1 = t * e + w
      BY <1>3, <3>2
    <3> HIDE DEF e
    <3>4. (t * e + w) % t = w
      BY <3>3, QuotientIs
    <3> QED BY <3>3, <3>4 DEF s
  <2> QED BY <2>1, <2>3, <2>4 DEF s
<1>9. Lists(r, S, n)
  <2> HIDE DEF r, c
  <2> QED BY <1>6, <1>7, <1>8 DEF Lists
<1>10. DOMAIN q = DOMAIN r /\ \A k \in DOMAIN q : q[k] = r[k]
  <2> HIDE DEF r, c
  <2> QED BY <1>9, OneList
<1>11. Len(q) \in Nat /\ DOMAIN q = 1 .. Len(q)
  BY ListTypes
<1> HIDE DEF r
<1>12. Len(q) = c
  <2> HIDE DEF c
  <2>1. 1 .. Len(q) = 1 .. c
    BY <1>6, <1>10, <1>11
  <2> QED BY <1>2, <1>11, <2>1, SameRange
<1>13. \A k \in 1 .. Len(q) : q[k] = r[k] /\ r[k] = Nth(w, t, k)
  BY <1>5, <1>10, <1>11, <1>12 DEF Nth
<1> QED BY <1>12, <1>13

\* A fixed schedule's part is dealt out as the requests are.
LEMMA FixedPart ==
  ASSUME Ready, StampsOK, Timing!Complete, Timing!Fixed,
         NEW w \in 0 .. Timing!NumThreads - 1
  PROVE  /\ Len(Timing!Dealt(w)) = Timing!NumRequests(w)
         /\ Len(Timing!Dealt(w))
              = Timing!Share(Len(Timing!PartTimes), Timing!NumThreads, w)
         /\ \A k \in 1 .. Len(Timing!Dealt(w)) :
               /\ Nth(w, Timing!NumThreads, k)
                     \in 1 .. Len(Timing!PartTimes)
               /\ Timing!Dealt(w)[k] =
                    Timing!PartTimes[Nth(w, Timing!NumThreads, k)]
<1> DEFINE N == Len(stamps)
           T == Timing!NumThreads
           P == Len(Timing!PartTimes)
<1>1. N \in Nat \ {0} /\ N = P
  BY WholeRounds
<1>2. T \in Nat \ {0}
  BY ThreadsAre
<1>3. PICK q : /\ Lists(q, Mine(w), N) /\ q # <<>>
               /\ Timing!Dealt(w) \in Seq(Nat)
               /\ Len(Timing!Dealt(w)) = Len(q)
               /\ \A i \in 1 .. Len(q) : Timing!Dealt(w)[i] = stamps[q[i]]
  BY PartIs
<1>4. \A j \in Positions : j \in Mine(w) <=> (j - 1) % T = w
  BY ThreadTurns DEF Mine
<1>5. /\ Len(q) = Timing!Share(N, T, w)
      /\ \A k \in 1 .. Len(q) : q[k] = Nth(w, T, k)
  <2> DEFINE S == Mine(w)
  <2>1. /\ w \in 0 .. T - 1 /\ Lists(q, S, N)
        /\ \A j \in Positions : j \in S <=> (j - 1) % T = w
    BY <1>3, <1>4
  <2>2. N \in Nat /\ T \in Nat \ {0}
    BY <1>1, <1>2
  <2> HIDE DEF N, T, S
  <2> QED BY <2>1, <2>2, EveryNth
<1>6. Len(q) \in Nat /\ \A i \in 1 .. Len(q) : q[i] \in 1 .. N
  <2> HIDE DEF N
  <2> QED BY <1>1, <1>3, ListTypes
<1>7. \A j \in 1 .. N : stamps[j] = Timing!PartTimes[j]
  <2>1. DOMAIN stamps = 1 .. N
    BY DEF StampsOK
  <2> QED BY <2>1 DEF StampsOK
<1>8. Timing!NumRequests(w) = Timing!Share(P, T, w)
  <2>1. part = "warmup" => P = plan.warmup
    BY PartTimesAre
  <2> QED BY <2>1 DEF Timing!NumRequests
<1> HIDE DEF N, T, P
<1>9. ASSUME NEW k \in 1 .. Len(q)
      PROVE  /\ Nth(w, T, k) \in 1 .. P
             /\ Timing!Dealt(w)[k] = Timing!PartTimes[Nth(w, T, k)]
  <2>1. q[k] = Nth(w, T, k) /\ q[k] \in 1 .. N
    BY <1>5, <1>6
  <2>2. Timing!Dealt(w)[k] = Timing!PartTimes[q[k]]
    BY <1>3, <1>7, <2>1
  <2> QED BY <1>1, <2>1, <2>2
<1> QED BY <1>1, <1>3, <1>5, <1>8, <1>9 DEF T, P

\* The largest of finitely many.
LEMMA Largest ==
  \A n \in Nat : \A f \in [0 .. n -> Nat] :
     \E i \in 0 .. n : \A j \in 0 .. n : f[j] <= f[i]
<1> DEFINE B == {n \in Nat : \A f \in [0 .. n -> Nat] :
                    \E i \in 0 .. n : \A j \in 0 .. n : f[j] <= f[i]}
<1>1. 0 \in B
  <2> SUFFICES ASSUME NEW f \in [0 .. 0 -> Nat]
               PROVE  \E i \in 0 .. 0 : \A j \in 0 .. 0 : f[j] <= f[i]
    OBVIOUS
  <2>1. \A j \in 0 .. 0 : j = 0
    OBVIOUS
  <2>2. 0 \in 0 .. 0
    OBVIOUS
  <2>3. f[0] \in Nat
    BY <2>2
  <2>4. f[0] <= f[0]
    BY <2>3
  <2> QED BY <2>1, <2>2, <2>4
<1>2. ASSUME NEW n \in Nat, n \in B
      PROVE  n + 1 \in B
  <2> DEFINE m == n + 1
  <2> SUFFICES \A f \in [0 .. m -> Nat] :
                  \E i \in 0 .. m : \A j \in 0 .. m : f[j] <= f[i]
    <3>1. m \in Nat /\ m = n + 1
      OBVIOUS
    <3> HIDE DEF m
    <3> SUFFICES m \in B
      BY <3>1
    <3> QED BY <3>1
  <2> SUFFICES ASSUME NEW f \in [0 .. n + 1 -> Nat]
               PROVE  \E i \in 0 .. n + 1 :
                         \A j \in 0 .. n + 1 : f[j] <= f[i]
    OBVIOUS
  <2> DEFINE g == [i \in 0 .. n |-> f[i]]
  <2>0. \A j \in 0 .. n : j \in 0 .. n + 1
    OBVIOUS
  <2>1. g \in [0 .. n -> Nat]
    BY <2>0
  <2>2. PICK i \in 0 .. n : \A j \in 0 .. n : g[j] <= g[i]
    BY <1>2, <2>1
  <2>3. /\ \A j \in 0 .. n : f[j] <= f[i]
        /\ i \in 0 .. n + 1 /\ n + 1 \in 0 .. n + 1
        /\ \A j \in 0 .. n + 1 : j \in 0 .. n \/ j = n + 1
    BY <2>2
  <2>4. f[i] \in Nat /\ f[n + 1] \in Nat
        /\ \A j \in 0 .. n : f[j] \in Nat
    BY <2>3
  <2> HIDE DEF g
  <2>5. CASE f[n + 1] <= f[i]
    BY <2>3, <2>4, <2>5
  <2>6. CASE ~(f[n + 1] <= f[i])
    <3>1. \A j \in 0 .. n : f[j] <= f[n + 1]
      BY <2>3, <2>4, <2>6
    <3>2. f[n + 1] <= f[n + 1]
      BY <2>4
    <3>3. \A j \in 0 .. n + 1 : f[j] <= f[n + 1]
      BY <2>3, <3>1, <3>2
    <3> QED BY <2>3, <3>3
  <2> QED BY <2>5, <2>6
<1> HIDE DEF B
<1>3. \A n \in Nat : n \in B
  BY <1>1, <1>2, Induction
<1> QED BY <1>3 DEF B

\* The duration of a round is that of the whole schedule.
LEMMA DurationIs ==
  ASSUME Ready, StampsOK, Timing!Complete
  PROVE  /\ Timing!SetScheduleDurations \in Nat
         /\ ~Timing!Fixed =>
              Timing!SetScheduleDurations = stamps[Len(stamps)]
<1> DEFINE N == Len(stamps)
           T == Timing!NumThreads
           g == [w \in 0 .. T - 1 |-> Timing!Last(Timing!Dealt(w))]
           V == {Timing!Last(Timing!Dealt(w)) : w \in 0 .. T - 1}
<1>1. N \in Nat \ {0} /\ T \in Nat \ {0} /\ stamps \in Seq(Nat)
  BY WholeRounds, ThreadsAre DEF StampsOK
<1>2. \A i \in 1 .. N : stamps[i] \in Nat
  BY <1>1, ElementOfSeq
<1>3. ASSUME NEW w \in 0 .. T - 1
      PROVE  \E q : /\ Lists(q, Mine(w), N) /\ Len(q) \in Nat \ {0}
                    /\ DOMAIN q = 1 .. Len(q)
                    /\ q[Len(q)] \in 1 .. N
                    /\ g[w] = stamps[q[Len(q)]]
  <2>1. PICK q : /\ Lists(q, Mine(w), N) /\ q # <<>>
                 /\ Timing!Dealt(w) \in Seq(Nat)
                 /\ Len(Timing!Dealt(w)) = Len(q)
                 /\ \A i \in 1 .. Len(q) : Timing!Dealt(w)[i] = stamps[q[i]]
    BY PartIs
  <2>2. /\ Len(q) \in Nat /\ DOMAIN q = 1 .. Len(q)
        /\ \A i \in DOMAIN q : q[i] \in 1 .. N
    <3> HIDE DEF N
    <3> QED BY <1>1, <2>1, ListTypes
  <2>3. Len(q) # 0
    <3>1. q \in Seq(1 .. N)
      BY <2>1 DEF Lists
    <3> QED BY <2>1, <3>1
  <2>4. Len(q) \in 1 .. Len(q)
    BY <2>2, <2>3
  <2>5. g[w] = Timing!Dealt(w)[Len(q)]
    BY <2>1 DEF Timing!Last
  <2> QED BY <2>1, <2>2, <2>3, <2>4, <2>5
<1>4. \A w \in 0 .. T - 1 : g[w] \in Nat
  <2> HIDE DEF g, N, T
  <2> QED BY <1>2, <1>3
<1>5. V = {g[w] : w \in 0 .. T - 1}
  OBVIOUS
<1>6. Timing!SetScheduleDurations = CHOOSE x \in V : \A y \in V : x >= y
  BY DEF Timing!SetScheduleDurations, Timing!Max
<1>7. \E x \in V : \A y \in V : x >= y
  <2>1. T - 1 \in Nat /\ g \in [0 .. T - 1 -> Nat]
    BY <1>1, <1>4
  <2>2. PICK i \in 0 .. T - 1 : \A j \in 0 .. T - 1 : g[j] <= g[i]
    <3> HIDE DEF g
    <3> QED BY <2>1, Largest
  <2> HIDE DEF g, V
  <2>3. \A j \in 0 .. T - 1 : g[i] >= g[j]
    BY <1>4, <2>2
  <2> QED BY <1>5, <2>2, <2>3
<1>8. PICK x \in V : /\ Timing!SetScheduleDurations = x
                     /\ \A y \in V : x >= y
  <2> HIDE DEF V
  <2> QED BY <1>6, <1>7
<1> HIDE DEF g, V
<1>9. PICK v \in 0 .. T - 1 : x = g[v]
  BY <1>5, <1>8
<1>10. ASSUME ~Timing!Fixed
       PROVE  x = stamps[N]
  <2>1. \A i, j \in 1 .. N : i <= j => stamps[i] <= stamps[j]
    <3>1. DOMAIN stamps = 1 .. N
      BY <1>1
    <3> QED BY <1>10, <3>1 DEF StampsOK
  <2>2. N \in 1 .. N
    BY <1>1
  <2>3. x <= stamps[N]
    <3>1. PICK j \in 1 .. N : x = stamps[j]
      BY <1>3, <1>9
    <3>2. j <= N
      BY <1>1
    <3> QED BY <2>1, <2>2, <3>1, <3>2
  <2>4. \E w \in 0 .. T - 1 : g[w] = stamps[N]
    <3> DEFINE w == Timing!ThreadIdOf(N)
    <3>1. N \in Positions
      BY <1>1 DEF Positions
    <3>2. w \in 0 .. T - 1 /\ N \in Mine(w)
      <4> HIDE DEF N
      <4> QED BY <3>1, ThreadTurns DEF Mine
    <3> HIDE DEF w, N, T
    <3>3. PICK q : /\ Lists(q, Mine(w), N) /\ Len(q) \in Nat \ {0}
                   /\ DOMAIN q = 1 .. Len(q)
                   /\ q[Len(q)] \in 1 .. N
                   /\ g[w] = stamps[q[Len(q)]]
      BY <1>3, <3>2
    <3>4. PICK i \in DOMAIN q : q[i] = N
      BY <2>2, <3>2, <3>3 DEF Lists
    <3>5. i = Len(q) \/ i < Len(q)
      BY <3>3
    <3>6. i < Len(q) => q[i] < q[Len(q)]
      <4>1. Len(q) \in DOMAIN q
        BY <3>3
      <4> QED BY <3>3, <4>1 DEF Lists
    <3>7. q[Len(q)] = N
      BY <1>1, <3>3, <3>4, <3>5, <3>6
    <3> QED BY <3>2, <3>3, <3>7
  <2>5. stamps[N] <= x
    <3>1. PICK w \in 0 .. T - 1 : g[w] = stamps[N]
      BY <2>4
    <3>2. x >= g[w]
      BY <1>5, <1>8
    <3> QED BY <1>4, <1>9, <3>1, <3>2
  <2> QED BY <1>2, <1>4, <1>9, <2>2, <2>3, <2>5
<1> QED BY <1>4, <1>8, <1>9, <1>10 DEF N

-----------------------------------------------------------------------------
(* The steps of a schedule.                                                *)

LEMMA SamePart ==
  ASSUME UNCHANGED <<plan, part>>
  PROVE  /\ Timing!Fixed' = Timing!Fixed /\ Ready' = Ready
         /\ Timing!PartTimes' = Timing!PartTimes
         /\ Timing!NumThreads' = Timing!NumThreads
         /\ Timing!CalculateThreadIds' = Timing!CalculateThreadIds
         /\ \A j : Timing!ThreadIdOf(j)' = Timing!ThreadIdOf(j)
         /\ plan.kind # "poisson" =>
              \A j : Timing!Due(j)' = Timing!Due(j)
<1>1. /\ Timing!Fixed' = Timing!Fixed
      /\ Timing!PartTimes' = Timing!PartTimes
  BY DEF Timing!Fixed, Timing!PartTimes
<1>2. Timing!ThreadLimit' = Timing!ThreadLimit
  BY <1>1 DEF Timing!ThreadLimit
<1>3. Timing!NumThreads' = Timing!NumThreads
  BY <1>2 DEF Timing!NumThreads
<1>4. Timing!CalculateThreadIds' = Timing!CalculateThreadIds
  BY <1>2, <1>3 DEF Timing!CalculateThreadIds
<1>5. \A j : Timing!ThreadIdOf(j)' = Timing!ThreadIdOf(j)
  BY <1>4 DEF Timing!ThreadIdOf
<1>6. Ready' = Ready
  BY <1>1 DEF Ready, Timing!DatasetOk
<1>7. plan.kind # "poisson" => \A j : Timing!Due(j)' = Timing!Due(j)
  BY DEF Timing!Due
<1> QED BY <1>1, <1>3, <1>4, <1>5, <1>6, <1>7

LEMMA SameStamps ==
  ASSUME UNCHANGED <<plan, part, stamps>>
  PROVE  /\ \A w : Timing!Dealt(w)' = Timing!Dealt(w)
         /\ Timing!SetScheduleDurations' = Timing!SetScheduleDurations
         /\ Timing!Complete' = Timing!Complete
         /\ StampsOK' = StampsOK
<1>1. \A w : Timing!Dealt(w)' = Timing!Dealt(w)
  <2>1. Timing!CalculateThreadIds' = Timing!CalculateThreadIds
    BY SamePart
  <2> QED BY <2>1 DEF Timing!Dealt, Timing!ThreadIdOf
<1>2. Timing!SetScheduleDurations' = Timing!SetScheduleDurations
  BY <1>1, SamePart DEF Timing!SetScheduleDurations
<1>3. Timing!Complete' = Timing!Complete
  BY SamePart DEF Timing!Complete, Timing!Fixed
<1>4. StampsOK' = StampsOK
  BY SamePart DEF StampsOK
<1> QED BY <1>1, <1>2, <1>3, <1>4

LEMMA AddKeepsStamps ==
  ASSUME Ready, StampsOK, Timing!AddTimestamp
  PROVE  StampsOK'
<1>1. /\ UNCHANGED <<plan, part>> /\ ~Timing!Complete
      /\ stamps \in Seq(Nat) /\ Len(stamps) \in Nat
      /\ DOMAIN stamps = 1 .. Len(stamps)
      /\ \A j \in 1 .. Len(stamps) : stamps[j] \in Nat
  BY ElementOfSeq DEF Timing!AddTimestamp, StampsOK
<1> DEFINE n == Len(stamps)
<1>2. ASSUME NEW v \in Nat, stamps' = Append(stamps, v)
      PROVE  /\ stamps' \in Seq(Nat) /\ Len(stamps') = n + 1
             /\ DOMAIN stamps' = 1 .. n + 1
             /\ \A j \in 1 .. n : stamps'[j] = stamps[j]
             /\ stamps'[n + 1] = v
  BY <1>1, <1>2, AppendProperties
<1>3. CASE Timing!Fixed
  <2>1. /\ n + 1 \in 1 .. Len(Timing!PartTimes)
        /\ Timing!PartTimes[n + 1] \in Nat
    <3>1. /\ n <= Len(Timing!PartTimes)
          /\ Len(Timing!PartTimes) \in Nat \ {0}
          /\ \A j \in 1 .. Len(Timing!PartTimes) :
                Timing!PartTimes[j] \in Nat
      BY <1>3, PartTimesAre DEF StampsOK
    <3>2. n # Len(Timing!PartTimes)
      <4>1. stamps = <<>> => n = 0
        OBVIOUS
      <4> QED BY <1>1, <1>3, <3>1, <4>1 DEF Timing!Complete, Timing!Fixed
    <3> QED BY <1>1, <3>1, <3>2
  <2> DEFINE v == Timing!PartTimes[n + 1]
  <2>2. stamps' = Append(stamps, v)
    BY <1>3 DEF Timing!AddTimestamp
  <2>3. /\ stamps' \in Seq(Nat) /\ Len(stamps') = n + 1
        /\ DOMAIN stamps' = 1 .. n + 1
        /\ \A j \in 1 .. n : stamps'[j] = stamps[j]
        /\ stamps'[n + 1] = v
    <3> HIDE DEF n, v
    <3> QED BY <1>2, <2>1, <2>2 DEF v
  <2>4. \A j \in 1 .. n : stamps[j] = Timing!PartTimes[j]
    BY <1>1, <1>3 DEF StampsOK
  <2>5. \A j \in 1 .. n + 1 : stamps'[j] = Timing!PartTimes[j]
    <3> SUFFICES ASSUME NEW j \in 1 .. n + 1
                 PROVE  stamps'[j] = Timing!PartTimes[j]
      OBVIOUS
    <3>1. j \in 1 .. n \/ j = n + 1
      BY <1>1
    <3> QED BY <2>3, <2>4, <3>1
  <2>6. plan.kind \notin {"constant", "custom"}
    BY <1>3 DEF Timing!Fixed
  <2>7. Timing!Fixed' /\ Timing!PartTimes' = Timing!PartTimes
    BY <1>1, <1>3, SamePart
  <2>8. Len(stamps') <= Len(Timing!PartTimes)
    BY <2>1, <2>3
  <2> HIDE DEF n, v
  <2> QED BY <1>1, <2>3, <2>5, <2>6, <2>7, <2>8 DEF StampsOK
<1>4. CASE ~Timing!Fixed
  <2> DEFINE base == IF stamps = <<>> THEN 0 ELSE Timing!Last(stamps)
  <2>1. PICK d \in Timing!NextIntervals : stamps' = Append(stamps, base + d)
    BY <1>4 DEF Timing!AddTimestamp
  <2>2. base = IF n = 0 THEN 0 ELSE stamps[n]
    BY <1>1 DEF Timing!Last
  <2>3. base \in Nat /\ \A j \in 1 .. n : stamps[j] <= base
    <3>1. n # 0 => n \in 1 .. n
      BY <1>1
    <3>2. \A j \in 1 .. n : n # 0 /\ j <= n
      BY <1>1
    <3>3. \A i, j \in 1 .. n : i <= j => stamps[i] <= stamps[j]
      BY <1>1, <1>4 DEF StampsOK
    <3> HIDE DEF base, n
    <3> QED BY <1>1, <2>2, <3>1, <3>2, <3>3 DEF n
  <2>4. /\ d \in Nat
        /\ plan.kind # "poisson" =>
             d = plan.intervals[(n % Len(plan.intervals)) + 1]
    <3>1. CASE plan.kind = "poisson"
      BY <2>1, <3>1, PlanTypes DEF Timing!NextIntervals, Ready
    <3>2. CASE plan.kind # "poisson"
      <4>1. d = plan.intervals[(n % Len(plan.intervals)) + 1]
        BY <2>1, <3>2 DEF Timing!NextIntervals
      <4>2. plan.intervals \in Seq(Nat) /\ Len(plan.intervals) \in Nat \ {0}
        <5>1. plan.kind \in {"constant", "custom"}
          BY <1>4, <3>2, PlanTypes DEF Ready, Timing!Fixed
        <5> QED BY <5>1, PlanTypes DEF Ready
      <4>3. n % Len(plan.intervals) \in 0 .. Len(plan.intervals) - 1
        <5> HIDE DEF n
        <5> QED BY <1>1, <4>2, DivMod DEF n
      <4>4. (n % Len(plan.intervals)) + 1 \in 1 .. Len(plan.intervals)
        <5> DEFINE m == Len(plan.intervals)
                   r == n % m
        <5>1. m \in Nat \ {0} /\ r \in 0 .. m - 1
          BY <4>2, <4>3
        <5> HIDE DEF m, r
        <5>2. r + 1 \in 1 .. m
          BY <5>1
        <5> QED BY <5>2 DEF m, r
      <4>5. plan.intervals[(n % Len(plan.intervals)) + 1] \in Nat
        BY <4>2, <4>4, ElementOfSeq
      <4> QED BY <4>1, <4>5
    <3> QED BY <3>1, <3>2
  <2> DEFINE v == base + d
  <2>5. v \in Nat /\ base <= v /\ stamps' = Append(stamps, v)
    <3> HIDE DEF base
    <3> QED BY <2>1, <2>3, <2>4
  <2> HIDE DEF base
  <2>6. /\ stamps' \in Seq(Nat) /\ Len(stamps') = n + 1
        /\ DOMAIN stamps' = 1 .. n + 1
        /\ \A j \in 1 .. n : stamps'[j] = stamps[j]
        /\ stamps'[n + 1] = v
    <3> HIDE DEF n, v
    <3> QED BY <1>2, <2>5
  <2>7. \A j \in 1 .. n + 1 : j \in 1 .. n \/ j = n + 1
    BY <1>1
  <2>8. \A i, j \in 1 .. n + 1 : i <= j => stamps'[i] <= stamps'[j]
    <3> SUFFICES ASSUME NEW i \in 1 .. n + 1, NEW j \in 1 .. n + 1, i <= j
                 PROVE  stamps'[i] <= stamps'[j]
      OBVIOUS
    <3>1. CASE j \in 1 .. n
      <4>1. i \in 1 .. n
        BY <1>1, <3>1
      <4>2. stamps[i] <= stamps[j]
        BY <1>1, <1>4, <3>1, <4>1 DEF StampsOK
      <4> QED BY <2>6, <3>1, <4>1, <4>2
    <3>2. CASE j = n + 1 /\ i \in 1 .. n
      <4>1. stamps[i] <= base /\ stamps[i] \in Nat
        BY <1>1, <2>3, <3>2
      <4> HIDE DEF v
      <4> QED BY <2>3, <2>5, <2>6, <3>2, <4>1
    <3>3. CASE j = n + 1 /\ i = n + 1
      <4> HIDE DEF v
      <4> QED BY <2>5, <2>6, <3>3
    <3> QED BY <2>7, <3>1, <3>2, <3>3
  <2>9. ASSUME plan.kind \in {"constant", "custom"}
        PROVE  \A j \in 1 .. n + 1 : stamps'[j] = Timing!Due(j)
    <3>1. /\ plan.kind # "poisson" /\ plan.intervals \in Seq(Nat)
          /\ plan.intervals # <<>>
      BY <2>9, PlanTypes DEF Ready
    <3> DEFINE f == [j \in Nat |-> Timing!Due(j)]
    <3>2. SumsOf(f, plan.intervals)
      BY <3>1, DueSums
    <3>3. \A j \in Nat : f[j] = Timing!Due(j)
      OBVIOUS
    <3>4. base = f[n]
      <4>1. CASE n = 0
        <5> HIDE DEF f
        <5> QED BY <2>2, <3>2, <4>1 DEF SumsOf
      <4>2. CASE n # 0
        <5>1. n \in 1 .. n /\ n \in DOMAIN stamps /\ n \in Nat
          BY <1>1, <4>2
        <5>2. stamps[n] = Timing!Due(n)
          BY <2>9, <5>1 DEF StampsOK
        <5> HIDE DEF f
        <5> QED BY <2>2, <3>3, <4>2, <5>1, <5>2
      <4> QED BY <4>1, <4>2
    <3> HIDE DEF f
    <3>5. f[n + 1] = f[n] + plan.intervals[Turn(n + 1, Len(plan.intervals))]
      BY <1>1, <3>2 DEF SumsOf
    <3>6. Turn(n + 1, Len(plan.intervals))
            = (n % Len(plan.intervals)) + 1
      <4>1. PICK u \in Nat : u = n
        BY <1>1
      <4> DEFINE a == u + 1 - 1
      <4>2. a = u /\ Turn(u + 1, Len(plan.intervals))
                       = (a % Len(plan.intervals)) + 1
        BY DEF Turn
      <4> HIDE DEF a
      <4>3. Turn(u + 1, Len(plan.intervals))
              = (u % Len(plan.intervals)) + 1
        BY <4>2
      <4> QED BY <4>1, <4>3
    <3>7. stamps'[n + 1] = Timing!Due(n + 1)
      <4>1. f[n + 1] = Timing!Due(n + 1)
        BY <1>1, <3>3
      <4>2. d = plan.intervals[Turn(n + 1, Len(plan.intervals))]
        BY <2>4, <3>1, <3>6
      <4> QED BY <2>6, <3>4, <3>5, <4>1, <4>2 DEF v
    <3>8. \A j \in 1 .. n : stamps'[j] = Timing!Due(j)
      BY <1>1, <2>6, <2>9 DEF StampsOK
    <3> QED BY <2>7, <3>7, <3>8
  <2>10. ~Timing!Fixed' /\ plan' = plan
    BY <1>1, <1>4, SamePart
  <2>11. plan.kind \in {"constant", "custom"} =>
           \A j \in 1 .. n + 1 : stamps'[j] = Timing!Due(j)'
    BY <1>1, <2>9, SamePart
  <2> HIDE DEF n, v
  <2> QED BY <2>6, <2>8, <2>10, <2>11 DEF StampsOK
<1> QED BY <1>3, <1>4

-----------------------------------------------------------------------------
(* What the workers take.                                                  *)

\* The RateSchedule of worker w that has been asked n times.
After(w, n) ==
  [intervals |-> Timing!Dealt(w), duration |-> Timing!SetScheduleDurations,
   index |-> n % Len(Timing!Dealt(w)), rounds |-> n \div Len(Timing!Dealt(w))]

\* The answer to the k-th request of worker w.
Answer(w, k) ==
  Timing!Dealt(w)[Turn(k, Len(Timing!Dealt(w)))]
    + Timing!SetScheduleDurations * Rounds(k, Len(Timing!Dealt(w)))

Answered(w) ==
  /\ Timing!Fixed => Len(got[w]) <= Len(Timing!Dealt(w))
  /\ \A k \in 1 .. Len(got[w]) : got[w][k] = Answer(w, k)

GivenOK ==
  IF given = <<>> THEN got = <<>>
  ELSE /\ Timing!Complete
       /\ got \in [0 .. Timing!NumThreads - 1 -> Seq(Nat)]
       /\ given = [w \in 0 .. Timing!NumThreads - 1 |->
                     After(w, Len(got[w]))]
       /\ \A w \in 0 .. Timing!NumThreads - 1 : Answered(w)

TimingInv ==
  IF part = "failed" THEN given = <<>> /\ got = <<>>
  ELSE Ready /\ StampsOK /\ GivenOK

LEMMA TimingInit ==
  ASSUME Timing!ScheduleInit
  PROVE  TimingInv
<1>1. CASE part = "failed"
  BY <1>1 DEF Timing!ScheduleInit, TimingInv
<1>2. CASE part # "failed"
  <2>1. /\ Timing!DatasetOk /\ plan \in Plans
        /\ part = IF plan.warmup > 0 THEN "warmup" ELSE "benchmark"
        /\ stamps = <<>> /\ given = <<>> /\ got = <<>>
    BY <1>2 DEF Timing!ScheduleInit
  <2>2. Ready
    BY <2>1 DEF Ready
  <2>3. Timing!Fixed => 0 <= Len(Timing!PartTimes)
    BY <2>2, PartTimesAre
  <2>4. stamps \in Seq(Nat) /\ Len(stamps) = 0 /\ DOMAIN stamps = {}
    BY <2>1
  <2>5. StampsOK
    BY <2>3, <2>4 DEF StampsOK
  <2> QED BY <1>2, <2>1, <2>2, <2>5 DEF TimingInv, GivenOK
<1> QED BY <1>1, <1>2

\* A worker has been dealt something, and all of it is a number.
LEMMA DealtTypes ==
  ASSUME Ready, StampsOK, Timing!Complete,
         NEW w \in 0 .. Timing!NumThreads - 1
  PROVE  /\ Timing!Dealt(w) \in Seq(Nat)
         /\ Len(Timing!Dealt(w)) \in Nat \ {0}
         /\ \A k \in Positions : Answer(w, k) \in Nat
         /\ Timing!Dealt(w) # <<>>
<1>1. PICK q : /\ Lists(q, Mine(w), Len(stamps)) /\ q # <<>>
               /\ Timing!Dealt(w) \in Seq(Nat)
               /\ Len(Timing!Dealt(w)) = Len(q)
  BY PartIs
<1>2. Len(q) \in Nat \ {0}
  <2>1. q \in Seq(1 .. Len(stamps))
    BY <1>1 DEF Lists
  <2> QED BY <1>1, <2>1
<1> DEFINE d == Timing!Dealt(w)
           m == Len(d)
           D == Timing!SetScheduleDurations
<1>3. d \in Seq(Nat) /\ m \in Nat \ {0} /\ D \in Nat
  BY <1>1, <1>2, DurationIs
<1>4. \A k \in Positions :
         Answer(w, k) = d[Turn(k, m)] + D * Rounds(k, m)
  BY DEF Answer
<1>5. \A i \in 1 .. m : d[i] \in Nat
  BY <1>3, ElementOfSeq
<1>6. d # <<>>
  BY <1>3
<1> HIDE DEF d, m, D
<1>7. \A x, y \in Nat : x * y \in Nat
  OBVIOUS
<1>8. ASSUME NEW k \in Positions
      PROVE  Answer(w, k) \in Nat
  <2>1. Turn(k, m) \in 1 .. m /\ Rounds(k, m) \in Nat
    BY <1>3, TurnType DEF Positions
  <2>2. D * Rounds(k, m) \in Nat
    BY <1>3, <1>7, <2>1
  <2> QED BY <1>4, <1>5, <2>1, <2>2
<1> QED BY <1>3, <1>6, <1>8 DEF d, m

LEMMA OneTurn ==
  ASSUME NEW n \in Nat, NEW m \in Nat \ {0}
  PROVE  /\ n % m \in 0 .. m - 1 /\ n \div m \in Nat
         /\ IF (n % m) + 1 >= m
            THEN (n + 1) % m = 0 /\ (n + 1) \div m = (n \div m) + 1
            ELSE /\ (n + 1) % m = (n % m) + 1
                 /\ (n + 1) \div m = n \div m
<1> DEFINE d == n \div m
           r == n % m
<1>1. d \in Nat /\ r \in 0 .. m - 1 /\ n = m * d + r
  BY DivMod
<1> HIDE DEF d, r
<1>2. CASE r + 1 >= m
  <2>1. m * (d + 1) + 0 = n + 1
    <3>1. m * (d + 1) = m * d + m /\ m * d \in Nat
      BY <1>1
    <3> QED BY <1>1, <1>2, <3>1
  <2>2. (m * (d + 1) + 0) \div m = d + 1 /\ (m * (d + 1) + 0) % m = 0
    BY <1>1, QuotientIs
  <2> QED BY <1>1, <1>2, <2>1, <2>2 DEF d, r
<1>3. CASE ~(r + 1 >= m)
  <2>1. m * d + (r + 1) = n + 1 /\ r + 1 \in 0 .. m - 1
    BY <1>1, <1>3
  <2>2. (m * d + (r + 1)) \div m = d /\ (m * d + (r + 1)) % m = r + 1
    BY <1>1, <2>1, QuotientIs
  <2> QED BY <1>1, <1>3, <2>1, <2>2 DEF d, r
<1> QED BY <1>2, <1>3 DEF r

LEMMA GiveKeeps ==
  ASSUME Ready, StampsOK, Timing!GiveSchedulesToWorkers
  PROVE  GivenOK'
<1> DEFINE W == 0 .. Timing!NumThreads - 1
<1>1. /\ Timing!Complete /\ UNCHANGED <<plan, part, stamps>>
      /\ got' = [w \in W |-> <<>>]
      /\ given' = [w \in W |-> [intervals |-> Timing!Dealt(w),
                                duration |-> Timing!SetScheduleDurations,
                                index |-> 0, rounds |-> 0]]
  BY DEF Timing!GiveSchedulesToWorkers
<1>2. /\ Timing!Complete' /\ W' = W
      /\ \A w : Timing!Dealt(w)' = Timing!Dealt(w)
      /\ Timing!SetScheduleDurations' = Timing!SetScheduleDurations
  BY <1>1, SamePart, SameStamps
<1>3. got' \in [W -> Seq(Nat)] /\ \A w \in W : Len(got'[w]) = 0
  <2> HIDE DEF W
  <2> QED BY <1>1
<1>4. ASSUME NEW w \in W
      PROVE  given'[w] = After(w, 0)
  <2> DEFINE m == Len(Timing!Dealt(w))
  <2>1. m \in Nat \ {0}
    BY <1>1, DealtTypes
  <2> HIDE DEF m
  <2>2. m * 0 + 0 = 0 /\ 0 \in 0 .. m - 1
    BY <2>1
  <2>3. (m * 0 + 0) \div m = 0 /\ (m * 0 + 0) % m = 0
    BY <2>1, <2>2, QuotientIs
  <2>4. 0 \div m = 0 /\ 0 % m = 0
    BY <2>2, <2>3
  <2> QED BY <1>1, <2>4 DEF After, m
<1>5. ASSUME NEW w \in W
      PROVE  given'[w] = After(w, Len(got[w]))'
  <2>1. After(w, Len(got[w]))' = After(w, Len(got'[w]))
    BY <1>2 DEF After
  <2> QED BY <1>3, <1>4, <2>1
<1>6. given' = [w \in W |-> After(w, Len(got[w]))']
  <2>1. given' = [w \in W |-> given'[w]]
    <3> HIDE DEF W
    <3> QED BY <1>1
  <2> HIDE DEF W
  <2> QED BY <1>5, <2>1
<1>7. ASSUME NEW w \in W
      PROVE  Answered(w)'
  <2>1. Len(Timing!Dealt(w)) \in Nat
    BY <1>1, DealtTypes
  <2>2. Len(got'[w]) <= Len(Timing!Dealt(w)')
    BY <1>2, <1>3, <2>1
  <2>3. 1 .. Len(got'[w]) = {}
    BY <1>3
  <2> QED BY <2>2, <2>3 DEF Answered
<1>8. given' # <<>>
  <2>1. 0 \in W
    BY ThreadsAre
  <2> HIDE DEF W
  <2>2. DOMAIN given' = W
    BY <1>1
  <2>3. DOMAIN <<>> = {}
    OBVIOUS
  <2> QED BY <2>1, <2>2, <2>3
<1> QED BY <1>2, <1>3, <1>6, <1>7, <1>8 DEF GivenOK

LEMMA FixedQuota ==
  ASSUME Ready, StampsOK, Timing!Complete, Timing!Fixed,
         NEW w \in 0 .. Timing!NumThreads - 1
  PROVE  Timing!NumRequests(w) = Len(Timing!Dealt(w))
BY FixedPart

LEMMA NextKeeps ==
  ASSUME Ready, StampsOK, GivenOK,
         NEW u \in DOMAIN given, Timing!NextTimestamp(u)
  PROVE  GivenOK'
<1> DEFINE W == 0 .. Timing!NumThreads - 1
<1>0. given # <<>>
  BY DEF GivenOK
<1>1. /\ Timing!Complete /\ got \in [W -> Seq(Nat)] /\ DOMAIN given = W
      /\ given = [w \in W |-> After(w, Len(got[w]))]
      /\ \A w \in W : Answered(w)
  BY <1>0 DEF GivenOK
<1>2. UNCHANGED <<plan, part, stamps>>
  BY DEF Timing!NextTimestamp
<1>3. /\ Timing!Complete' /\ W' = W
      /\ \A w : Timing!Dealt(w)' = Timing!Dealt(w)
      /\ Timing!SetScheduleDurations' = Timing!SetScheduleDurations
      /\ Timing!Fixed' = Timing!Fixed
  BY <1>1, <1>2, SamePart, SameStamps
<1> DEFINE s == given[u]
           d == Timing!Dealt(u)
           m == Len(d)
           n == Len(got[u])
           v == s.intervals[s.index + 1] + s.duration * s.rounds
           t == IF s.index + 1 >= Len(s.intervals)
                THEN [s EXCEPT !.index = 0, !.rounds = @ + 1]
                ELSE [s EXCEPT !.index = @ + 1]
<1>4. /\ u \in W /\ n \in Nat /\ s = After(u, n)
      /\ got' = [got EXCEPT ![u] = Append(@, v)]
      /\ given' = [given EXCEPT ![u] = t]
      /\ n < Timing!NumRequests(u)
  BY <1>1 DEF Timing!NextTimestamp
<1>5. m \in Nat \ {0} /\ \A k \in Positions : Answer(u, k) \in Nat
  BY <1>1, <1>4, DealtTypes
<1>6. v = Answer(u, n + 1)
  <2>1. PICK x \in Nat : x = n
    BY <1>4
  <2>2. v = d[(x % m) + 1] + Timing!SetScheduleDurations * (x \div m)
    BY <1>4, <2>1 DEF After
  <2> DEFINE a == x + 1 - 1
  <2>3. Answer(u, x + 1) = d[(a % m) + 1]
                             + Timing!SetScheduleDurations * (a \div m)
    BY DEF Answer, Turn, Rounds
  <2>4. a = x
    OBVIOUS
  <2> HIDE DEF a, v, d, m, n
  <2> QED BY <2>1, <2>2, <2>3, <2>4
<1>7. t = After(u, n + 1)
  <2>1. /\ n % m \in 0 .. m - 1 /\ n \div m \in Nat
        /\ IF (n % m) + 1 >= m
           THEN (n + 1) % m = 0 /\ (n + 1) \div m = (n \div m) + 1
           ELSE /\ (n + 1) % m = (n % m) + 1
                /\ (n + 1) \div m = n \div m
    <3> HIDE DEF n, m
    <3> QED BY <1>4, <1>5, OneTurn
  <2>2. After(u, n) = [intervals |-> d,
                       duration |-> Timing!SetScheduleDurations,
                       index |-> n % m, rounds |-> n \div m]
    BY DEF After
  <2>3. After(u, n + 1) = [intervals |-> d,
                           duration |-> Timing!SetScheduleDurations,
                           index |-> (n + 1) % m, rounds |-> (n + 1) \div m]
    BY DEF After
  <2>4. s.index = n % m /\ s.intervals = d /\ s.rounds = n \div m
        /\ s.duration = Timing!SetScheduleDurations
    BY <1>4, <2>2
  <2>5. Len(s.intervals) = m
    BY <2>4
  <2> HIDE DEF s, d, m, n
  <2>6. CASE (n % m) + 1 >= m
    <3>1. t = [s EXCEPT !.index = 0, !.rounds = @ + 1]
      BY <2>4, <2>5, <2>6
    <3>2. t = [intervals |-> d, duration |-> Timing!SetScheduleDurations,
               index |-> 0, rounds |-> (n \div m) + 1]
      <4> DEFINE r == n % m
                 e == n \div m
      <4>1. s = [intervals |-> d, duration |-> Timing!SetScheduleDurations,
                 index |-> r, rounds |-> e]
        BY <1>4, <2>2
      <4> HIDE DEF r, e, t
      <4>2. t = [intervals |-> d, duration |-> Timing!SetScheduleDurations,
                 index |-> 0, rounds |-> e + 1]
        BY <3>1, <4>1
      <4> QED BY <4>2 DEF e
    <3> HIDE DEF t
    <3> QED BY <2>1, <2>3, <2>6, <3>2
  <2>7. CASE ~((n % m) + 1 >= m)
    <3>1. t = [s EXCEPT !.index = @ + 1]
      BY <2>4, <2>5, <2>7
    <3> QED BY <1>4, <2>1, <2>2, <2>3, <2>7, <3>1
  <2> QED BY <2>6, <2>7
<1> HIDE DEF v, t, s, d, W
<1>8. v \in Nat
  <2>1. n + 1 \in Positions
    BY <1>4 DEF Positions
  <2> QED BY <1>5, <1>6, <2>1
<1>9. /\ got' \in [W -> Seq(Nat)]
      /\ \A w \in W : w # u => got'[w] = got[w]
      /\ got'[u] = Append(got[u], v)
  BY <1>1, <1>4, <1>8
<1>10. /\ Len(got'[u]) = n + 1
       /\ \A k \in 1 .. n : got'[u][k] = got[u][k]
       /\ got'[u][n + 1] = v
  <2>1. got[u] \in Seq(Nat)
    BY <1>1, <1>4
  <2> QED BY <1>8, <1>9, <2>1, AppendProperties
<1>11. \A w, x : After(w, x)' = After(w, x)
  <2> SUFFICES ASSUME NEW w, NEW x PROVE After(w, x)' = After(w, x)
    OBVIOUS
  <2> QED BY <1>3 DEF After
<1>12. ASSUME NEW w \in W
       PROVE  given'[w] = After(w, Len(got'[w]))
  <2>1. CASE w = u
    BY <1>1, <1>4, <1>7, <1>10, <2>1
  <2>2. CASE w # u
    BY <1>1, <1>4, <1>9, <2>2
  <2> QED BY <2>1, <2>2
<1>13. given' = [w \in W |-> After(w, Len(got[w]))']
  <2>1. given' = [w \in W |-> given'[w]]
    BY <1>1, <1>4
  <2>2. ASSUME NEW w \in W
        PROVE  After(w, Len(got[w]))' = given'[w]
    <3>1. After(w, Len(got[w]))' = After(w, Len(got'[w]))
      BY <1>3 DEF After
    <3> QED BY <1>12, <3>1
  <2> QED BY <2>1, <2>2
<1>14. ASSUME NEW w \in W
       PROVE  Answered(w)'
  <2>1. \A k : Answer(w, k)' = Answer(w, k)
    BY <1>3 DEF Answer
  <2>2. Answered(w)
    BY <1>1
  <2>3. CASE w # u
    BY <1>3, <1>9, <2>1, <2>2, <2>3 DEF Answered
  <2>4. CASE w = u
    <3>1. \A k \in 1 .. n : got[u][k] = Answer(u, k)
      BY <2>2, <2>4 DEF Answered
    <3>2. \A k \in 1 .. n + 1 : k \in 1 .. n \/ k = n + 1
      BY <1>4
    <3>3. \A k \in 1 .. Len(got'[w]) : got'[w][k] = Answer(w, k)
      BY <1>6, <1>10, <2>4, <3>1, <3>2
    <3>4. ASSUME Timing!Fixed
          PROVE  n + 1 <= Len(Timing!Dealt(w))
      <4>1. Timing!NumRequests(u) = m
        BY <1>1, <1>4, <3>4, FixedQuota DEF W, d
      <4> QED BY <1>4, <1>5, <2>4, <4>1 DEF d
    <3> QED BY <1>3, <1>10, <2>1, <2>4, <3>3, <3>4 DEF Answered
  <2> QED BY <2>3, <2>4
<1>15. given' # <<>>
  BY <1>1, <1>4
<1> QED BY <1>3, <1>9, <1>13, <1>14, <1>15 DEF GivenOK, W

LEMMA TimingStutter ==
  ASSUME TimingInv, UNCHANGED <<plan, part, stamps, given, got>>
  PROVE  TimingInv'
<1>1. /\ Ready' = Ready /\ StampsOK' = StampsOK
      /\ Timing!Complete' = Timing!Complete
      /\ Timing!NumThreads' = Timing!NumThreads
      /\ \A w : Timing!Dealt(w)' = Timing!Dealt(w)
      /\ Timing!SetScheduleDurations' = Timing!SetScheduleDurations
      /\ Timing!Fixed' = Timing!Fixed
  BY SamePart, SameStamps
<1>2. \A w : /\ After(w, Len(got[w]))' = After(w, Len(got[w]))
             /\ Answered(w)' = Answered(w)
  <2> SUFFICES ASSUME NEW w
               PROVE  /\ After(w, Len(got[w]))' = After(w, Len(got[w]))
                      /\ Answered(w)' = Answered(w)
    OBVIOUS
  <2> QED BY <1>1 DEF After, Answered, Answer
<1>3. GivenOK' = GivenOK
  BY <1>1, <1>2 DEF GivenOK
<1> QED BY <1>1, <1>3 DEF TimingInv

LEMMA TimingStep ==
  ASSUME TimingInv, Timing!ScheduleNext
  PROVE  TimingInv'
<1>1. CASE part = "failed"
  <2>1. given = <<>> /\ got = <<>> /\ DOMAIN given = {}
    BY <1>1 DEF TimingInv
  <2>2. ~Timing!AddTimestamp /\ ~Timing!GiveSchedulesToWorkers
        /\ ~Timing!EndWarmupPart
    BY <1>1 DEF Timing!AddTimestamp, Timing!GiveSchedulesToWorkers,
                Timing!EndWarmupPart
  <2>3. Timing!SchedulesOver
    BY <2>1, <2>2 DEF Timing!ScheduleNext
  <2> QED BY <1>1, <2>1, <2>3
          DEF Timing!SchedulesOver, Timing!scheduleVars, TimingInv
<1>2. CASE part # "failed"
  <2>1. Ready /\ StampsOK /\ GivenOK /\ part \in {"warmup", "benchmark"}
    BY <1>2 DEF TimingInv, Ready
  <2>2. ASSUME part' # "failed", Ready', StampsOK', GivenOK'
        PROVE  TimingInv'
    BY <2>2 DEF TimingInv
  <2>3. CASE Timing!AddTimestamp
    <3>1. UNCHANGED <<plan, part, given, got>> /\ given = <<>>
      BY <2>3 DEF Timing!AddTimestamp
    <3>2. Ready'
      BY <2>1, <3>1, SamePart
    <3>3. StampsOK'
      BY <2>1, <2>3, AddKeepsStamps
    <3>4. GivenOK'
      BY <2>1, <3>1 DEF GivenOK
    <3> QED BY <1>2, <2>2, <3>1, <3>2, <3>3, <3>4
  <2>4. CASE Timing!GiveSchedulesToWorkers
    <3>1. UNCHANGED <<plan, part, stamps>>
      BY <2>4 DEF Timing!GiveSchedulesToWorkers
    <3>2. Ready' /\ StampsOK' /\ GivenOK'
      BY <2>1, <2>4, <3>1, SamePart, SameStamps, GiveKeeps
    <3> QED BY <1>2, <2>2, <3>1, <3>2
  <2>5. CASE \E w \in DOMAIN given : Timing!NextTimestamp(w)
    <3>1. PICK w \in DOMAIN given : Timing!NextTimestamp(w)
      BY <2>5
    <3>2. UNCHANGED <<plan, part, stamps>>
      BY <3>1 DEF Timing!NextTimestamp
    <3>3. Ready' /\ StampsOK' /\ GivenOK'
      BY <2>1, <3>1, <3>2, SamePart, SameStamps, NextKeeps
    <3> QED BY <1>2, <2>2, <3>2, <3>3
  <2>6. CASE Timing!EndWarmupPart
    <3>1. /\ part' = "benchmark" /\ plan' = plan
          /\ stamps' = <<>> /\ given' = <<>> /\ got' = <<>>
      BY <2>6 DEF Timing!EndWarmupPart
    <3>2. Ready'
      BY <2>1, <3>1 DEF Ready, Timing!DatasetOk, Timing!Fixed
    <3>3. Timing!Fixed' => 0 <= Len(Timing!PartTimes')
      BY <2>1, <3>1, PlanTypes DEF Ready, Timing!DatasetOk, Timing!Fixed,
                                   Timing!PartTimes
    <3>4. stamps' \in Seq(Nat) /\ Len(stamps') = 0 /\ DOMAIN stamps' = {}
      BY <3>1
    <3>5. StampsOK'
      BY <3>3, <3>4 DEF StampsOK
    <3>6. GivenOK'
      BY <3>1 DEF GivenOK
    <3> QED BY <2>2, <3>1, <3>2, <3>5, <3>6
  <2>7. CASE Timing!SchedulesOver
    <3>1. UNCHANGED <<plan, part, stamps, given, got>>
      BY <2>7 DEF Timing!SchedulesOver, Timing!scheduleVars
    <3> QED BY <3>1, TimingStutter
  <2> QED BY <2>3, <2>4, <2>5, <2>6, <2>7 DEF Timing!ScheduleNext
<1> QED BY <1>1, <1>2

-----------------------------------------------------------------------------
(* The schedule is followed.                                               *)

\* Endlessly, worker w takes every position whose turn it is.
LEMMA PositionIs ==
  ASSUME Ready, StampsOK, Timing!Complete, ~Timing!Fixed,
         NEW w \in 0 .. Timing!NumThreads - 1,
         NEW q, Lists(q, Mine(w), Len(stamps)), q # <<>>,
         NEW k \in Positions
  PROVE  Timing!Position(w, k) = At(q, Len(stamps), k)
<1> DEFINE n == Len(stamps)
           l == Len(Ids)
           S == Mine(w)
           f == [j \in Positions |-> At(q, n, j)]
<1>1. n \in Positions /\ l \in Positions /\ l <= n /\ n % l = 0
  BY WholeRounds, ThreadsAre DEF Positions
<1>2. Periodic(S, l)
  <2> SUFFICES ASSUME NEW j \in Positions
               PROVE  j \in S <=> j + l \in S
    BY DEF Periodic
  <2>1. l * 1 = l
    BY <1>1 DEF Positions
  <2>2. Timing!ThreadIdOf(j + l * 1) = Timing!ThreadIdOf(j)
    BY ThreadTurns
  <2>3. j + l \in Positions
    BY <1>1 DEF Positions
  <2> HIDE DEF l
  <2> QED BY <2>1, <2>2, <2>3 DEF Mine
<1>3. Periodic(S, n)
  <2>1. PICK e \in Nat : n = l * e
    <3> HIDE DEF n, l
    <3>1. n \div l \in Nat /\ n = l * (n \div l) + (n % l)
      BY <1>1, DivMod DEF Positions
    <3>2. l * (n \div l) \in Nat
      BY <1>1, <3>1 DEF Positions
    <3> QED BY <1>1, <3>1, <3>2
  <2> HIDE DEF n, l, S
  <2>2. \A j \in Positions : j \in S <=> j + l * e \in S
    BY <1>1, <1>2, <2>1, PeriodicRounds
  <2> QED BY <2>1, <2>2 DEF Periodic
<1>4. S \in SUBSET Positions
  BY DEF Mine
<1>5. /\ \A j \in Positions : /\ At(q, n, j) \in S
                              /\ At(q, n, j) < At(q, n, j + 1)
      /\ \A j \in S : \E i \in Positions : At(q, n, i) = j
  <2>1. Lists(q, S, n)
    OBVIOUS
  <2> HIDE DEF n, S
  <2> QED BY <1>1, <1>3, <1>4, <2>1, EndlessList
<1>6. Enumerates(f, S)
  <2>1. \A j \in Positions : j + 1 \in Positions
    BY DEF Positions
  <2> HIDE DEF n, S
  <2> QED BY <1>4, <1>5, <2>1 DEF Enumerates
<1>7. w + 1 \in S /\ w + 1 <= l
  BY ThreadTurns, ThreadsAre
<1>8. f[k] \in 1 .. k * l
  <2> DEFINE s == w + 1
  <2>1. s \in S /\ s <= l
    BY <1>7
  <2> HIDE DEF f, S, l, s
  <2> QED BY <1>1, <1>2, <1>4, <1>6, <2>1, RankBound
<1>9. f[k] \in S /\ Cardinality({i \in 1 .. f[k] : i \in S}) = k
  <2> HIDE DEF f, S
  <2>1. f[k] \in S
    BY <1>6 DEF Enumerates
  <2>2. Cardinality({i \in 1 .. f[k] : i \in S}) = k
    BY <1>6, RankOf
  <2> QED BY <2>1, <2>2
<1>10. ASSUME NEW j \in S, Cardinality({i \in 1 .. j : i \in S}) = k
       PROVE  j = f[k]
  <2> HIDE DEF f, S
  <2> QED BY <1>6, <1>10, OneOfRank
<1>11. ASSUME NEW j \in Positions
       PROVE  {i \in 1 .. j : Timing!ThreadIdOf(i) = w}
                = {i \in 1 .. j : i \in S}
  <2>1. \A i \in 1 .. j : i \in Positions
    BY DEF Positions
  <2> QED BY <2>1 DEF Mine
<1> DEFINE P(j) == /\ Timing!ThreadIdOf(j) = w
                   /\ Cardinality({i \in 1 .. j :
                                     Timing!ThreadIdOf(i) = w}) = k
<1>12. Timing!Position(w, k) = CHOOSE j \in 1 .. k * l : P(j)
  BY DEF Timing!Position, Timing!Cardinality, Cardinality, Ids
<1>13. \A j \in Positions : P(j) <=>
          j \in S /\ Cardinality({i \in 1 .. j : i \in S}) = k
  BY <1>11 DEF Mine
<1>14. \A j \in 1 .. k * l : j \in Positions
  BY DEF Positions
<1>15. f[k] = At(q, n, k)
  OBVIOUS
<1> HIDE DEF P, S, f, l
<1>16. \A j \in 1 .. k * l : P(j) <=> j = f[k]
  BY <1>8, <1>9, <1>10, <1>13, <1>14
<1>17. (CHOOSE j \in 1 .. k * l : P(j)) = f[k]
  <2> DEFINE R == 1 .. k * l
  <2>1. f[k] \in R /\ \A j \in R : P(j) <=> j = f[k]
    BY <1>8, <1>16
  <2> HIDE DEF R
  <2>2. (CHOOSE j \in R : P(j)) \in R /\ P(CHOOSE j \in R : P(j))
    BY <2>1
  <2> QED BY <2>1, <2>2 DEF R
<1> QED BY <1>12, <1>15, <1>17

\* The answers of a schedule that is not fixed.
LEMMA AnswerIsDue ==
  ASSUME Ready, StampsOK, Timing!Complete, ~Timing!Fixed,
         NEW w \in 0 .. Timing!NumThreads - 1, NEW k \in Positions
  PROVE  Answer(w, k) = Timing!Due(Timing!Position(w, k))
<1> DEFINE n == Len(stamps)
           d == Timing!Dealt(w)
           D == Timing!SetScheduleDurations
<1>1. PICK q : /\ Lists(q, Mine(w), n) /\ q # <<>>
               /\ d \in Seq(Nat) /\ Len(d) = Len(q)
               /\ \A i \in 1 .. Len(q) : d[i] = stamps[q[i]]
  BY PartIs
<1>2. n \in Nat \ {0} /\ D = stamps[n] /\ D \in Nat
  BY WholeRounds, DurationIs
<1>3. /\ Len(q) \in Nat \ {0} /\ DOMAIN q = 1 .. Len(q)
      /\ \A i \in 1 .. Len(q) : q[i] \in 1 .. n
  <2>1. Len(q) \in Nat /\ DOMAIN q = 1 .. Len(q)
        /\ \A i \in DOMAIN q : q[i] \in 1 .. n
    <3> HIDE DEF n
    <3> QED BY <1>1, <1>2, ListTypes
  <2>2. q \in Seq(1 .. n)
    BY <1>1 DEF Lists
  <2>3. Len(q) # 0
    BY <1>1, <2>2
  <2> QED BY <2>1, <2>3
<1> DEFINE t == Turn(k, Len(q))
           r == Rounds(k, Len(q))
           i == q[t]
<1>4. t \in 1 .. Len(q) /\ r \in Nat /\ i \in 1 .. n
  <2>1. t \in 1 .. Len(q) /\ r \in Nat
    BY <1>3, TurnType DEF Positions
  <2> HIDE DEF t, r
  <2> QED BY <1>3, <2>1
<1>5. Timing!Position(w, k) = i + n * r
  <2>1. Timing!Position(w, k) = At(q, n, k)
    BY <1>1, PositionIs
  <2> QED BY <2>1 DEF At
<1>6. Answer(w, k) = stamps[i] + D * r
  <2>1. Answer(w, k) = d[t] + D * r
    <3> HIDE DEF D
    <3> QED BY <1>1 DEF Answer, D
  <2>2. d[t] = stamps[i]
    BY <1>1, <1>4
  <2> QED BY <2>1, <2>2
<1> HIDE DEF t, r, i, d, D
<1>7. CASE plan.kind = "poisson"
  <2> DEFINE j == i + n * r
  <2>1. Turn(j, n) = i /\ Rounds(j, n) = r /\ j \in Nat \ {0}
    <3> HIDE DEF n
    <3> QED BY <1>2, <1>4, TurnIs
  <2>2. Timing!Last(stamps) = stamps[n]
    BY DEF Timing!Last
  <2>3. Timing!Due(j) = stamps[Turn(j, n)] + D * Rounds(j, n)
    <3> HIDE DEF j
    <3> QED BY <1>2, <1>7, <2>2 DEF Timing!Due, Turn, Rounds
  <2> HIDE DEF j, n
  <2> QED BY <1>5, <1>6, <2>1, <2>3 DEF j
<1>8. CASE plan.kind # "poisson"
  <2>1. /\ plan.kind \in {"constant", "custom"}
        /\ plan.intervals \in Seq(Nat) /\ plan.intervals # <<>>
        /\ n % Len(plan.intervals) = 0
    <3>1. plan.kind \in {"constant", "custom"}
      BY <1>8, PlanTypes DEF Ready, Timing!Fixed
    <3> QED BY <3>1, WholeRounds
  <2> DEFINE f == [x \in Nat |-> Timing!Due(x)]
  <2>2. SumsOf(f, plan.intervals)
    BY <1>8, <2>1, DueSums
  <2>3. \A x \in Nat : f[x] = Timing!Due(x)
    OBVIOUS
  <2>4. \A x \in 1 .. n : stamps[x] = f[x]
    <3>1. DOMAIN stamps = 1 .. n
      BY DEF StampsOK
    <3> HIDE DEF f
    <3> QED BY <1>2, <2>1, <2>3, <3>1 DEF StampsOK
  <2> HIDE DEF f, n
  <2>5. f[i + n * r] = f[i] + f[n] * r
    <3>1. \A x \in Nat : f[i + n * x] = f[i] + f[n] * x
      <4> DEFINE p == plan.intervals
      <4>1. /\ p \in Seq(Nat) /\ p # <<>>
            /\ n % Len(p) = 0 /\ SumsOf(f, p)
        BY <2>1, <2>2
      <4>2. n \in Nat /\ i \in Nat
        BY <1>2, <1>4
      <4> HIDE DEF p
      <4>3. EveryRound(f, n, i)
        BY <4>1, <4>2, SumRounds
      <4> QED BY <4>3 DEF EveryRound
    <3> QED BY <1>4, <3>1
  <2>6. i + n * r \in Nat
    <3>1. \A x, y \in Nat : x * y \in Nat
      OBVIOUS
    <3>2. n * r \in Nat
      BY <1>2, <1>4, <3>1
    <3> QED BY <1>4, <3>2
  <2>7. f[i] = stamps[i] /\ f[n] = D
    BY <1>2, <1>4, <2>4
  <2> DEFINE j == i + n * r
  <2>8. j \in Nat /\ f[j] = f[i] + f[n] * r /\ Timing!Position(w, k) = j
    BY <1>5, <2>5, <2>6
  <2> HIDE DEF j
  <2>9. Timing!Due(Timing!Position(w, k)) = stamps[i] + D * r
    BY <2>3, <2>7, <2>8
  <2> QED BY <1>6, <2>9
<1> QED BY <1>7, <1>8

\* The answers of a fixed schedule.
LEMMA AnswerIsTime ==
  ASSUME Ready, StampsOK, Timing!Complete, Timing!Fixed,
         NEW w \in 0 .. Timing!NumThreads - 1,
         NEW k \in 1 .. Len(Timing!Dealt(w))
  PROVE  /\ Answer(w, k) = plan.times[Timing!Payload(w, k) + 1]
         /\ Timing!Payload(w, k) + 1
              = Skipped + Nth(w, Timing!NumThreads, k)
<1> DEFINE d == Timing!Dealt(w)
           m == Len(d)
           D == Timing!SetScheduleDurations
           T == Timing!NumThreads
<1>1. m \in Nat \ {0} /\ D \in Nat /\ d \in Seq(Nat) /\ k \in 1 .. m
  BY DealtTypes, DurationIs
<1>2. Turn(k, m) = k /\ Rounds(k, m) = 0
  <2> HIDE DEF m
  <2>1. Turn(k + m * 0, m) = k /\ Rounds(k + m * 0, m) = 0
    BY <1>1, TurnIs
  <2>2. k + m * 0 = k
    BY <1>1
  <2> QED BY <2>1, <2>2
<1>3. Answer(w, k) = d[k]
  <2>1. Answer(w, k) = d[Turn(k, m)] + D * Rounds(k, m)
    BY DEF Answer
  <2>2. d[k] \in Nat
    BY <1>1, ElementOfSeq
  <2> HIDE DEF d, m, D
  <2> QED BY <1>1, <1>2, <2>1, <2>2
<1>4. /\ Nth(w, T, k) \in 1 .. Len(Timing!PartTimes)
      /\ d[k] = Timing!PartTimes[Nth(w, T, k)]
  BY FixedPart
<1>5. Timing!PartTimes[Nth(w, T, k)] = plan.times[Skipped + Nth(w, T, k)]
  BY <1>4, PartTimesAre
<1>6. Timing!Payload(w, k) + 1 = Skipped + Nth(w, T, k)
  <2> DEFINE x == (k - 1) * T
  <2>1. x \in Nat /\ w \in Nat /\ Skipped \in Nat
    <3>1. k - 1 \in Nat /\ T \in Nat /\ w \in Nat
      BY <1>1, ThreadsAre
    <3>2. \A a, b \in Nat : a * b \in Nat
      OBVIOUS
    <3>3. Skipped \in Nat
      BY PlanTypes DEF Skipped, Ready
    <3> HIDE DEF T
    <3> QED BY <3>1, <3>2, <3>3
  <2>2. Timing!Payload(w, k) = Skipped + w + x
    BY DEF Timing!Payload, Skipped
  <2>3. Nth(w, T, k) = w + 1 + x
    BY DEF Nth
  <2> HIDE DEF x
  <2> QED BY <2>1, <2>2, <2>3
<1> QED BY <1>3, <1>4, <1>5, <1>6 DEF T

\* A list of positions up to n has at most n of them.
LEMMA ListShort ==
  ASSUME NEW n \in Nat, NEW S, NEW q, Lists(q, S, n)
  PROVE  Len(q) <= n
<1> DEFINE B == {i \in Nat : i \in 1 .. Len(q) => i <= q[i]}
<1>1. /\ Len(q) \in Nat /\ DOMAIN q = 1 .. Len(q)
      /\ \A i \in 1 .. Len(q) : q[i] \in 1 .. n
      /\ \A i, j \in 1 .. Len(q) : i < j => q[i] < q[j]
  <2>1. /\ Len(q) \in Nat /\ DOMAIN q = 1 .. Len(q)
        /\ \A i \in DOMAIN q : q[i] \in 1 .. n
    BY ListTypes
  <2> QED BY <2>1 DEF Lists
<1>2. 0 \in B
  BY <1>1
<1>3. ASSUME NEW i \in Nat, i \in B
      PROVE  i + 1 \in B
  <2> SUFFICES ASSUME i + 1 \in 1 .. Len(q)
               PROVE  i + 1 <= q[i + 1]
    OBVIOUS
  <2>1. q[i + 1] \in 1 .. n
    BY <1>1
  <2>2. CASE i = 0
    BY <2>1, <2>2
  <2>3. CASE i # 0
    <3>1. i \in 1 .. Len(q) /\ i < i + 1
      BY <1>1, <2>3
    <3>2. i <= q[i] /\ q[i] < q[i + 1] /\ q[i] \in 1 .. n
      BY <1>1, <1>3, <3>1
    <3> QED BY <2>1, <3>2
  <2> QED BY <2>2, <2>3
<1> HIDE DEF B
<1>4. \A i \in Nat : i \in B
  BY <1>2, <1>3, Induction
<1>5. CASE Len(q) = 0
  BY <1>5
<1>6. CASE Len(q) # 0
  <2>1. Len(q) \in 1 .. Len(q)
    BY <1>1, <1>6
  <2>2. Len(q) <= q[Len(q)] /\ q[Len(q)] \in 1 .. n
    BY <1>1, <1>4, <2>1 DEF B
  <2> QED BY <1>1, <2>2
<1> QED BY <1>5, <1>6

\* The requests of a fixed schedule are those of its data.
LEMMA PayloadsAre ==
  ASSUME Ready, StampsOK, Timing!Complete, Timing!Fixed,
         got \in [0 .. Timing!NumThreads - 1 -> Seq(Nat)],
         \A w \in 0 .. Timing!NumThreads - 1 :
            Len(got[w]) = Len(Timing!Dealt(w))
  PROVE  {Timing!Payload(sent[1], sent[2]) : sent \in
             {x \in (DOMAIN got) \X (1 .. Len(Timing!PartTimes)) :
                 x[2] \in DOMAIN got[x[1]]}}
           = IF part = "warmup" THEN 0 .. plan.warmup - 1
             ELSE plan.warmup .. Len(plan.times) - 1
<1> DEFINE T == Timing!NumThreads
           W == 0 .. T - 1
           P == Len(Timing!PartTimes)
           X == {x \in (DOMAIN got) \X (1 .. P) : x[2] \in DOMAIN got[x[1]]}
           All == {Timing!Payload(sent[1], sent[2]) : sent \in X}
           R == Skipped .. Skipped + P - 1
<1>1. /\ T \in Nat \ {0} /\ P \in Nat \ {0} /\ Skipped \in Nat
      /\ T <= P
  <2>1. Skipped \in Nat
    BY PlanTypes DEF Skipped, Ready
  <2> QED BY <2>1, PartTimesAre, ThreadsAre
<1>2. R = IF part = "warmup" THEN 0 .. plan.warmup - 1
          ELSE plan.warmup .. Len(plan.times) - 1
  <2>1. P = IF part = "warmup" THEN plan.warmup
            ELSE Len(plan.times) - plan.warmup
    BY PartTimesAre
  <2>2. plan.warmup \in Nat /\ Len(plan.times) \in Nat
    BY PlanTypes DEF Ready
  <2> HIDE DEF P
  <2>3. CASE part = "warmup"
    BY <2>1, <2>2, <2>3 DEF Skipped
  <2>4. CASE part # "warmup"
    <3>1. Skipped + P - 1 = Len(plan.times) - 1 /\ Skipped = plan.warmup
      BY <2>1, <2>2, <2>4 DEF Skipped
    <3> QED BY <2>4, <3>1
  <2> QED BY <2>3, <2>4
<1>3. \A w \in W : /\ DOMAIN got[w] = 1 .. Len(Timing!Dealt(w))
                   /\ Len(Timing!Dealt(w)) = Timing!Share(P, T, w)
  <2> SUFFICES ASSUME NEW w \in W
               PROVE  /\ DOMAIN got[w] = 1 .. Len(Timing!Dealt(w))
                      /\ Len(Timing!Dealt(w)) = Timing!Share(P, T, w)
    OBVIOUS
  <2>1. got[w] \in Seq(Nat) /\ Len(got[w]) = Len(Timing!Dealt(w))
    OBVIOUS
  <2> QED BY <2>1, FixedPart
<1>4. \A w \in W : \A k \in 1 .. Len(Timing!Dealt(w)) :
         /\ Nth(w, T, k) \in 1 .. P
         /\ Timing!Payload(w, k) + 1 = Skipped + Nth(w, T, k)
  BY FixedPart, AnswerIsTime
<1>5. \A w \in W : \A k \in Nat : Timing!Payload(w, k + 1) \in Nat
  <2> SUFFICES ASSUME NEW w \in W, NEW k \in Nat
               PROVE  Timing!Payload(w, k + 1) \in Nat
    OBVIOUS
  <2> DEFINE x == (k + 1 - 1) * T
  <2>1. x \in Nat
    <3>1. k + 1 - 1 \in Nat
      OBVIOUS
    <3>2. \A a, b \in Nat : a * b \in Nat
      OBVIOUS
    <3> HIDE DEF T
    <3> QED BY <1>1, <3>1, <3>2
  <2>2. Timing!Payload(w, k + 1) = Skipped + w + x
    BY DEF Timing!Payload, Skipped
  <2> HIDE DEF x
  <2> QED BY <1>1, <2>1, <2>2
<1>6. ASSUME NEW w \in W, NEW k \in 1 .. Len(Timing!Dealt(w))
      PROVE  Timing!Payload(w, k) \in R
  <2>1. Len(Timing!Dealt(w)) \in Nat
    BY DealtTypes
  <2>2. k - 1 \in Nat /\ (k - 1) + 1 = k
    BY <2>1
  <2>3. Timing!Payload(w, k) \in Nat
    BY <1>5, <2>2
  <2>4. /\ Nth(w, T, k) \in 1 .. P
        /\ Timing!Payload(w, k) + 1 = Skipped + Nth(w, T, k)
    BY <1>4
  <2> HIDE DEF T, P
  <2> QED BY <1>1, <2>3, <2>4
<1>7. ASSUME NEW y \in R
      PROVE  \E w \in W : \E k \in 1 .. Len(Timing!Dealt(w)) :
                k \in 1 .. P /\ Timing!Payload(w, k) = y
  <2> DEFINE j == y - Skipped + 1
             w == Timing!ThreadIdOf(j)
  <2>1. j \in 1 .. P /\ j \in Positions /\ y = Skipped + j - 1
    <3> HIDE DEF P
    <3> QED BY <1>1 DEF Positions
  <2> HIDE DEF j
  <2>2. w \in W /\ j \in Mine(w)
    BY <2>1, ThreadTurns DEF Mine
  <2> HIDE DEF w
  <2>3. PICK q : /\ Lists(q, Mine(w), Len(stamps)) /\ q # <<>>
                 /\ Len(Timing!Dealt(w)) = Len(q)
    BY <2>2, PartIs
  <2>4. Len(stamps) = P /\ Len(stamps) \in Nat
    BY WholeRounds
  <2>5. Len(q) \in Nat /\ DOMAIN q = 1 .. Len(q)
    BY <2>3, <2>4, ListTypes
  <2>6. PICK k \in DOMAIN q : q[k] = j
    BY <2>1, <2>2, <2>3, <2>4 DEF Lists
  <2>7. q[k] = Nth(w, T, k)
    <3>1. \A i \in Positions : i \in Mine(w) <=> (i - 1) % T = w
      BY <2>2, ThreadTurns DEF Mine
    <3> DEFINE S == Mine(w)
               n == Len(stamps)
    <3>2. /\ w \in 0 .. T - 1 /\ Lists(q, S, n) /\ n \in Nat
          /\ \A i \in Positions : i \in S <=> (i - 1) % T = w
      BY <2>2, <2>3, <2>4, <3>1
    <3> HIDE DEF T, S, n
    <3>3. \A i \in 1 .. Len(q) : q[i] = Nth(w, T, i)
      BY <1>1, <3>2, EveryNth
    <3> QED BY <2>5, <2>6, <3>3
  <2>8. k \in 1 .. Len(Timing!Dealt(w)) /\ k \in 1 .. P
    <3>1. Len(q) <= P
      BY <2>3, <2>4, <2>5, ListShort
    <3> QED BY <2>3, <2>4, <2>5, <2>6, <3>1
  <2>9. Timing!Payload(w, k) = y
    <3>1. Timing!Payload(w, k) + 1 = Skipped + j
      BY <1>4, <2>2, <2>6, <2>7, <2>8
    <3>2. Timing!Payload(w, k) \in R
      BY <1>6, <2>2, <2>8
    <3>3. Timing!Payload(w, k) \in Nat
      <4> HIDE DEF P
      <4> QED BY <1>1, <3>2
    <3> DEFINE v == Timing!Payload(w, k)
    <3>4. v \in Nat /\ v + 1 = Skipped + j
      BY <3>1, <3>3
    <3> HIDE DEF v, P
    <3>5. v = y
      BY <1>1, <2>1, <3>4
    <3> QED BY <3>5 DEF v
  <2> QED BY <2>2, <2>8, <2>9
<1>8. DOMAIN got = W
  OBVIOUS
<1>9. \A y \in All : y \in R
  <2> SUFFICES ASSUME NEW x \in X
               PROVE  Timing!Payload(x[1], x[2]) \in R
    OBVIOUS
  <2>1. x[1] \in W /\ x[2] \in DOMAIN got[x[1]]
    BY <1>8
  <2> QED BY <1>3, <1>6, <2>1
<1>10. \A y \in R : y \in All
  <2> SUFFICES ASSUME NEW y \in R
               PROVE  y \in All
    OBVIOUS
  <2>0. PICK w \in W : \E k \in 1 .. Len(Timing!Dealt(w)) :
                           k \in 1 .. P /\ Timing!Payload(w, k) = y
    BY <1>7
  <2>1. PICK k \in 1 .. Len(Timing!Dealt(w)) :
           k \in 1 .. P /\ Timing!Payload(w, k) = y
    BY <2>0
  <2> DEFINE x == <<w, k>>
  <2>2. x \in X /\ x[1] = w /\ x[2] = k
    BY <1>3, <1>8, <2>1
  <2> HIDE DEF x, X
  <2> QED BY <2>1, <2>2
<1>11. All = R
  <2> HIDE DEF All, R
  <2> QED BY <1>9, <1>10
<1> QED BY <1>2, <1>11

LEMMA TimingImplies ==
  ASSUME TimingInv
  PROVE  Timing!OnSchedule
<1>1. CASE given = <<>>
  <2>1. got = <<>> /\ DOMAIN got = {} /\ ~Timing!AllSent
    BY <1>1 DEF TimingInv, GivenOK, Timing!AllSent
  <2>2. ASSUME part # "failed", Timing!Complete,
               NEW w \in 0 .. Timing!NumThreads - 1
        PROVE  Timing!Dealt(w) # <<>>
    BY <2>2, DealtTypes DEF TimingInv
  <2> QED BY <2>1, <2>2 DEF Timing!OnSchedule
<1>2. CASE given # <<>>
  <2> DEFINE W == 0 .. Timing!NumThreads - 1
  <2>1. /\ Ready /\ StampsOK /\ Timing!Complete /\ got \in [W -> Seq(Nat)]
        /\ \A w \in W : Answered(w)
    BY <1>2 DEF TimingInv, GivenOK
  <2>2. ASSUME NEW w \in DOMAIN got, NEW k \in DOMAIN got[w]
        PROVE  got[w][k] = IF Timing!Fixed
                           THEN plan.times[Timing!Payload(w, k) + 1]
                           ELSE Timing!Due(Timing!Position(w, k))
    <3>1. w \in W /\ got[w] \in Seq(Nat) /\ k \in 1 .. Len(got[w])
      BY <2>1
    <3>2. got[w][k] = Answer(w, k)
      BY <2>1, <3>1 DEF Answered
    <3>3. CASE Timing!Fixed
      <4>1. Len(got[w]) <= Len(Timing!Dealt(w)) /\ Len(got[w]) \in Nat
        BY <2>1, <3>1, <3>3 DEF Answered
      <4>2. Len(Timing!Dealt(w)) \in Nat
        BY <2>1, <3>1, DealtTypes
      <4>3. k \in 1 .. Len(Timing!Dealt(w))
        BY <3>1, <4>1, <4>2
      <4> QED BY <2>1, <3>1, <3>2, <3>3, <4>3, AnswerIsTime
    <3>4. CASE ~Timing!Fixed
      <4>1. k \in Positions
        BY <3>1 DEF Positions
      <4> QED BY <2>1, <3>1, <3>2, <3>4, <4>1, AnswerIsDue
    <3> QED BY <3>3, <3>4
  <2>3. ASSUME Timing!Fixed, Timing!AllSent
        PROVE  \A w \in W : Len(got[w]) = Len(Timing!Dealt(w))
    <3> SUFFICES ASSUME NEW w \in W
                 PROVE  Len(got[w]) = Len(Timing!Dealt(w))
      OBVIOUS
    <3>1. Len(got[w]) = Timing!NumRequests(w)
      BY <2>1, <2>3 DEF Timing!AllSent
    <3> QED BY <2>1, <2>3, <3>1, FixedQuota
  <2>4. ASSUME Timing!Fixed, Timing!AllSent
        PROVE  {Timing!Payload(sent[1], sent[2]) : sent \in
                  {x \in (DOMAIN got) \X (1 .. Len(Timing!PartTimes)) :
                      x[2] \in DOMAIN got[x[1]]}}
               = IF part = "warmup" THEN 0 .. plan.warmup - 1
                 ELSE plan.warmup .. Len(plan.times) - 1
    BY <2>1, <2>3, <2>4, PayloadsAre
  <2> HIDE DEF W
  <2> QED BY <1>2, <2>2, <2>4 DEF Timing!OnSchedule
<1> QED BY <1>1, <1>2

-----------------------------------------------------------------------------
(* The steps of the elements of "data" or "validation_data".               *)

\* Of the elements D: the number of streams, of the steps of a stream, and a
\* step.  Streams and steps count from 0.
StreamCount(D) == IF D = <<>> THEN 0 ELSE IF D[1].array THEN Len(D) ELSE 1

StepCount(D, u) == IF D[1].array THEN Len(D[u + 1].steps) ELSE Len(D)

StepIn(D, u, k) == IF D[1].array THEN D[u + 1].steps[k + 1]
                   ELSE D[k + 1].steps[1]

Has(D, u, k) == /\ u \in 0 .. StreamCount(D) - 1
                /\ k \in 0 .. StepCount(D, u) - 1

\* All files have streams, or all have steps.
SameKind(D, E) == D # <<>> => D[1].array = E[1].array

LEMMA MemberTypes ==
  ASSUME NEW D, Sent!MemberOK(D)
  PROVE  /\ D \in Seq(Range(D)) /\ Len(D) \in Nat /\ DOMAIN D = 1 .. Len(D)
         /\ (D = <<>>) <=> (Len(D) = 0)
         /\ \A i \in 1 .. Len(D) :
               /\ D[i].array \in BOOLEAN
               /\ D[i].steps \in Seq(Range(D[i].steps))
               /\ Len(D[i].steps) \in Nat \ {0}
               /\ DOMAIN D[i].steps = 1 .. Len(D[i].steps)
<1>1. D \in Seq(Range(D)) /\ Len(D) \in Nat /\ DOMAIN D = 1 .. Len(D)
  BY DEF Sent!MemberOK, Range, Sent!Range
<1>2. (D = <<>>) <=> (Len(D) = 0)
  BY <1>1
<1>3. ASSUME NEW i \in 1 .. Len(D)
      PROVE  /\ D[i].array \in BOOLEAN
             /\ D[i].steps \in Seq(Range(D[i].steps))
             /\ Len(D[i].steps) \in Nat \ {0}
             /\ DOMAIN D[i].steps = 1 .. Len(D[i].steps)
  <2> DEFINE s == D[i].steps
  <2>1. D[i].array \in BOOLEAN /\ s # <<>> /\ s \in Seq(Range(s))
    BY <1>1, <1>3 DEF Sent!MemberOK, Range, Sent!Range
  <2> HIDE DEF s
  <2>2. Len(s) \in Nat \ {0} /\ DOMAIN s = 1 .. Len(s)
    BY <2>1
  <2> QED BY <2>1, <2>2 DEF s
<1> QED BY <1>1, <1>2, <1>3

LEMMA CountTypes ==
  ASSUME NEW D, Sent!MemberOK(D)
  PROVE  /\ StreamCount(D) \in Nat
         /\ StreamCount(D) = 0 <=> D = <<>>
         /\ \A u \in 0 .. StreamCount(D) - 1 : StepCount(D, u) \in Nat \ {0}
<1>1. CASE D = <<>>
  BY <1>1 DEF StreamCount
<1>2. CASE D # <<>> /\ D[1].array
  <2>1. /\ Len(D) \in Nat \ {0} /\ StreamCount(D) = Len(D)
    BY <1>2, MemberTypes DEF StreamCount
  <2>2. ASSUME NEW u \in 0 .. Len(D) - 1
        PROVE  StepCount(D, u) \in Nat \ {0}
    <3>1. u + 1 \in 1 .. Len(D)
      BY <2>1
    <3>2. Len(D[u + 1].steps) \in Nat \ {0}
      BY <3>1, MemberTypes
    <3> QED BY <1>2, <3>2 DEF StepCount
  <2> QED BY <1>2, <2>1, <2>2
<1>3. CASE D # <<>> /\ ~D[1].array
  <2>1. Len(D) \in Nat \ {0} /\ StreamCount(D) = 1
    BY <1>3, MemberTypes DEF StreamCount
  <2> QED BY <1>3, <2>1 DEF StepCount
<1> QED BY <1>1, <1>2, <1>3

\* What follows the elements of D.
LEMMA Behind ==
  ASSUME NEW D, NEW E, Sent!MemberOK(D), Sent!MemberOK(E)
  PROVE  /\ Sent!MemberOK(D \o E) /\ Len(D \o E) = Len(D) + Len(E)
         /\ \A i \in 1 .. Len(D) : (D \o E)[i] = D[i]
         /\ \A i \in 1 .. Len(E) : (D \o E)[Len(D) + i] = E[i]
<1> DEFINE F == D \o E
           S == Range(D) \cup Range(E)
<1>1. /\ D \in Seq(Range(D)) /\ Len(D) \in Nat /\ DOMAIN D = 1 .. Len(D)
      /\ E \in Seq(Range(E)) /\ Len(E) \in Nat /\ DOMAIN E = 1 .. Len(E)
  BY MemberTypes
<1>2. D \in Seq(S) /\ E \in Seq(S)
  BY <1>1
<1>3. /\ F \in Seq(S) /\ Len(F) = Len(D) + Len(E)
      /\ \A i \in 1 .. Len(F) :
            F[i] = IF i <= Len(D) THEN D[i] ELSE E[i - Len(D)]
  BY <1>2, ConcatProperties
<1> HIDE DEF F, S
<1>4. Len(F) \in Nat /\ DOMAIN F = 1 .. Len(F)
  BY <1>3
<1>5. \A i \in 1 .. Len(D) : F[i] = D[i]
  BY <1>1, <1>3
<1>6. \A i \in 1 .. Len(E) : F[Len(D) + i] = E[i]
  BY <1>1, <1>3
<1>7. Sent!MemberOK(F)
  <2>1. F \in Seq(Sent!Range(F))
    <3>1. \A i \in 1 .. Len(F) : F[i] \in Sent!Range(F)
      BY <1>4 DEF Sent!Range
    <3> QED BY <1>3, <1>4, <3>1
  <2>2. ASSUME NEW i \in DOMAIN F
        PROVE  /\ F[i].array \in BOOLEAN /\ F[i].steps # <<>>
               /\ F[i].steps \in Seq(Sent!Range(F[i].steps))
    <3>1. CASE i <= Len(D)
      <4>1. i \in DOMAIN D /\ F[i] = D[i]
        BY <1>1, <1>4, <1>5, <3>1
      <4> QED BY <4>1 DEF Sent!MemberOK
    <3>2. CASE ~(i <= Len(D))
      <4>1. i - Len(D) \in DOMAIN E /\ F[i] = E[i - Len(D)]
        BY <1>1, <1>3, <1>4, <3>2
      <4> QED BY <4>1 DEF Sent!MemberOK
    <3> QED BY <3>1, <3>2
  <2> QED BY <2>1, <2>2 DEF Sent!MemberOK
<1> QED BY <1>3, <1>5, <1>6, <1>7 DEF F

\* The steps of the files read so far and of the next one: streams follow
\* the streams, or steps the steps.
LEMMA FirstOfBoth ==
  ASSUME NEW D, NEW E, Sent!MemberOK(D), Sent!MemberOK(E), E # <<>>,
         SameKind(D, E)
  PROVE  /\ D \o E # <<>> /\ (D \o E)[1].array = E[1].array
         /\ Len(D) \in Nat /\ Len(E) \in Nat \ {0}
         /\ Len(D \o E) = Len(D) + Len(E)
<1>1. /\ Len(D) \in Nat /\ Len(E) \in Nat \ {0}
      /\ (D = <<>>) <=> (Len(D) = 0)
  BY MemberTypes
<1>2. /\ Len(D \o E) = Len(D) + Len(E) /\ Sent!MemberOK(D \o E)
      /\ \A i \in 1 .. Len(D) : (D \o E)[i] = D[i]
      /\ \A i \in 1 .. Len(E) : (D \o E)[Len(D) + i] = E[i]
  BY Behind
<1>3. D \o E # <<>>
  <2>1. (D \o E = <<>>) <=> (Len(D \o E) = 0)
    BY <1>2, MemberTypes
  <2> QED BY <1>1, <1>2, <2>1
<1>4. CASE D = <<>>
  <2>1. Len(D) + 1 = 1 /\ 1 \in 1 .. Len(E)
    BY <1>1, <1>4
  <2>2. (D \o E)[1] = E[1]
    BY <1>2, <2>1
  <2> QED BY <1>1, <1>2, <1>3, <2>2
<1>5. CASE D # <<>>
  <2>1. 1 \in 1 .. Len(D)
    BY <1>1, <1>5
  <2>2. (D \o E)[1] = D[1]
    BY <1>2, <2>1
  <2> QED BY <1>1, <1>2, <1>3, <1>5, <2>2 DEF SameKind
<1> QED BY <1>4, <1>5

LEMMA StreamsJoin ==
  ASSUME NEW D, NEW E, Sent!MemberOK(D), Sent!MemberOK(E), E # <<>>,
         SameKind(D, E), E[1].array
  PROVE  /\ StreamCount(D) = Len(D)
         /\ StreamCount(D \o E) = Len(D) + Len(E)
         /\ \A u \in 0 .. Len(D) - 1 :
               /\ StepCount(D \o E, u) = StepCount(D, u)
               /\ \A k : StepIn(D \o E, u, k) = StepIn(D, u, k)
         /\ \A i \in 1 .. Len(E) :
               /\ StepCount(D \o E, Len(D) + i - 1) = Len(E[i].steps)
               /\ \A k : StepIn(D \o E, Len(D) + i - 1, k)
                           = E[i].steps[k + 1]
<1>1. /\ D \o E # <<>> /\ (D \o E)[1].array
      /\ Len(D) \in Nat /\ Len(E) \in Nat \ {0}
      /\ Len(D \o E) = Len(D) + Len(E)
  BY FirstOfBoth
<1>2. /\ \A i \in 1 .. Len(D) : (D \o E)[i] = D[i]
      /\ \A i \in 1 .. Len(E) : (D \o E)[Len(D) + i] = E[i]
  BY Behind
<1>3. D # <<>> => D[1].array
  BY DEF SameKind
<1>4. (D = <<>>) <=> (Len(D) = 0)
  BY MemberTypes
<1>5. StreamCount(D) = Len(D)
  BY <1>3, <1>4 DEF StreamCount
<1>6. StreamCount(D \o E) = Len(D) + Len(E)
  BY <1>1 DEF StreamCount
<1>7. ASSUME NEW u \in 0 .. Len(D) - 1
      PROVE  /\ StepCount(D \o E, u) = StepCount(D, u)
             /\ \A k : StepIn(D \o E, u, k) = StepIn(D, u, k)
  <2>1. u + 1 \in 1 .. Len(D) /\ D # <<>>
    BY <1>1, <1>4
  <2>2. (D \o E)[u + 1] = D[u + 1] /\ D[1].array
    BY <1>2, <1>3, <2>1
  <2> QED BY <1>1, <2>2 DEF StepCount, StepIn
<1>8. ASSUME NEW i \in 1 .. Len(E)
      PROVE  /\ StepCount(D \o E, Len(D) + i - 1) = Len(E[i].steps)
             /\ \A k : StepIn(D \o E, Len(D) + i - 1, k) = E[i].steps[k + 1]
  <2>1. Len(D) + i - 1 + 1 = Len(D) + i
    BY <1>1
  <2>2. (D \o E)[Len(D) + i - 1 + 1] = E[i]
    BY <1>2, <2>1
  <2> QED BY <1>1, <2>2 DEF StepCount, StepIn
<1> QED BY <1>5, <1>6, <1>7, <1>8

StepsJoined(D, E) ==
    /\ StreamCount(D) = (IF D = <<>> THEN 0 ELSE 1)
    /\ StreamCount(D \o E) = 1
    /\ D # <<>> => \A u : StepCount(D, u) = Len(D)
    /\ \A u : StepCount(D \o E, u) = Len(D) + Len(E)
    /\ \A u : \A k \in 0 .. Len(D) - 1 :
          StepIn(D \o E, u, k) = StepIn(D, u, k)
    /\ \A u : \A i \in 1 .. Len(E) :
          StepIn(D \o E, u, Len(D) + i - 1) = E[i].steps[1]

LEMMA StepsJoin ==
  ASSUME NEW D, NEW E, Sent!MemberOK(D), Sent!MemberOK(E), E # <<>>,
         SameKind(D, E), ~E[1].array
  PROVE  StepsJoined(D, E)
<1>1. /\ D \o E # <<>> /\ ~(D \o E)[1].array
      /\ Len(D) \in Nat /\ Len(E) \in Nat \ {0}
      /\ Len(D \o E) = Len(D) + Len(E)
  BY FirstOfBoth
<1>2. /\ \A i \in 1 .. Len(D) : (D \o E)[i] = D[i]
      /\ \A i \in 1 .. Len(E) : (D \o E)[Len(D) + i] = E[i]
  BY Behind
<1>3. D # <<>> => ~D[1].array
  BY DEF SameKind
<1>4. (D = <<>>) <=> (Len(D) = 0)
  BY MemberTypes
<1>5. ASSUME NEW u, NEW k \in 0 .. Len(D) - 1
      PROVE  StepIn(D \o E, u, k) = StepIn(D, u, k)
  <2>1. k + 1 \in 1 .. Len(D) /\ D # <<>>
    BY <1>1, <1>4
  <2>2. (D \o E)[k + 1] = D[k + 1] /\ ~D[1].array
    BY <1>2, <1>3, <2>1
  <2> QED BY <1>1, <2>2 DEF StepIn
<1>6. ASSUME NEW u, NEW i \in 1 .. Len(E)
      PROVE  StepIn(D \o E, u, Len(D) + i - 1) = E[i].steps[1]
  <2>1. Len(D) + i - 1 + 1 = Len(D) + i
    BY <1>1
  <2>2. (D \o E)[Len(D) + i - 1 + 1] = E[i]
    BY <1>2, <2>1
  <2> QED BY <1>1, <2>2 DEF StepIn
<1>7. /\ StreamCount(D) = (IF D = <<>> THEN 0 ELSE 1)
      /\ StreamCount(D \o E) = 1
  BY <1>1, <1>3 DEF StreamCount
<1>8. /\ D # <<>> => \A u : StepCount(D, u) = Len(D)
      /\ \A u : StepCount(D \o E, u) = Len(D) + Len(E)
  BY <1>1, <1>3 DEF StepCount
<1> QED BY <1>5, <1>6, <1>7, <1>8 DEF StepsJoined

\* step_num_ holds the numbers of steps.
Numbered(num, D) ==
    /\ num \in Seq(Nat) /\ Len(num) = StreamCount(D)
    /\ \A u \in 0 .. StreamCount(D) - 1 : num[u + 1] = StepCount(D, u)

LEMMA FirstNumber ==
  ASSUME NEW D, Sent!MemberOK(D), D # <<>> => ~D[1].array,
         NEW num, Numbered(num, D)
  PROVE  (IF num = <<>> THEN 0 ELSE num[1]) = Len(D)
<1>1. Len(D) \in Nat /\ ((D = <<>>) <=> (Len(D) = 0))
  BY MemberTypes
<1>2. Len(<<>>) = 0 /\ 0 \in 0 .. 1 - 1 /\ 0 + 1 = 1
  OBVIOUS
<1>3. CASE D = <<>>
  <2>1. Len(num) = 0 /\ num \in Seq(Nat)
    BY <1>3 DEF Numbered, StreamCount
  <2> QED BY <1>1, <1>3, <2>1
<1>4. CASE D # <<>>
  <2>1. /\ StreamCount(D) = 1 /\ StepCount(D, 0) = Len(D)
    BY <1>4 DEF StreamCount, StepCount
  <2>2. Len(num) = 1 /\ num[0 + 1] = Len(D)
    BY <1>2, <2>1 DEF Numbered
  <2>3. num # <<>> /\ num[1] = Len(D)
    <3>1. 0 + 1 = 1
      BY <1>2
    <3>2. num[1] = num[0 + 1]
      BY <3>1
    <3> QED BY <1>2, <2>2, <3>2
  <2> QED BY <2>3
<1> QED BY <1>3, <1>4

LEMMA NewStepNumIs ==
  ASSUME NEW D, NEW E, Sent!MemberOK(D), Sent!MemberOK(E), E # <<>>,
         SameKind(D, E), NEW L, Numbered(L.step_num, D)
  PROVE  Numbered(Sent!NewStepNum(L, E), D \o E)
<1> DEFINE num == L.step_num
           more == [i \in DOMAIN E |-> Len(E[i].steps)]
           C == StreamCount(D)
<1>0. C = StreamCount(D) /\ num = L.step_num
  OBVIOUS
<1>1. /\ C \in Nat /\ num \in Seq(Nat) /\ Len(num) = C
      /\ \A u \in 0 .. C - 1 : num[u + 1] = StepCount(D, u)
  BY CountTypes DEF Numbered
<1> HIDE DEF C, num
<1>2. /\ Len(E) \in Nat /\ DOMAIN E = 1 .. Len(E) /\ Len(D) \in Nat
      /\ (D = <<>>) <=> (Len(D) = 0)
      /\ \A i \in 1 .. Len(E) : Len(E[i].steps) \in Nat
  BY MemberTypes
<1>3. CASE E[1].array
  <2>1. Sent!NewStepNum(L, E) = num \o more
    BY <1>3 DEF Sent!NewStepNum, num
  <2>2. /\ more \in Seq(Nat) /\ Len(more) = Len(E)
        /\ \A i \in 1 .. Len(E) : more[i] = Len(E[i].steps)
    BY <1>2
  <2> HIDE DEF more
  <2>3. /\ num \o more \in Seq(Nat) /\ Len(num \o more) = C + Len(E)
        /\ \A i \in 1 .. C + Len(E) :
              /\ i <= C => (num \o more)[i] = num[i]
              /\ ~(i <= C) => (num \o more)[i] = more[i - C]
    <3>1. /\ num \o more \in Seq(Nat)
          /\ Len(num \o more) = Len(num) + Len(more)
          /\ \A i \in 1 .. Len(num) + Len(more) :
                (num \o more)[i] = IF i <= Len(num) THEN num[i]
                                   ELSE more[i - Len(num)]
      <4>1. num \in Seq(Nat) /\ more \in Seq(Nat)
        BY <1>1, <2>2
      <4> QED BY <4>1, ConcatProperties, Zenon
    <3>2. Len(num) = C /\ Len(more) = Len(E)
      BY <1>1, <2>2
    <3> QED BY <3>1, <3>2, Zenon
  <2>4. /\ C = Len(D) /\ StreamCount(D \o E) = Len(D) + Len(E)
        /\ \A u \in 0 .. Len(D) - 1 :
               StepCount(D \o E, u) = StepCount(D, u)
        /\ \A i \in 1 .. Len(E) :
               StepCount(D \o E, Len(D) + i - 1) = Len(E[i].steps)
    BY <1>3, StreamsJoin DEF C
  <2>5. ASSUME NEW u \in 0 .. Len(D) + Len(E) - 1
        PROVE  (num \o more)[u + 1] = StepCount(D \o E, u)
    <3>1. u + 1 \in 1 .. C + Len(E)
      BY <1>2, <2>4
    <3>2. CASE u + 1 <= C
      <4>1. u \in 0 .. C - 1
        BY <1>1, <1>2, <3>2
      <4> QED BY <1>1, <2>3, <2>4, <3>1, <3>2, <4>1
    <3>3. CASE ~(u + 1 <= C)
      <4>0. (num \o more)[u + 1] = more[(u + 1) - C]
        BY <2>3, <3>1, <3>3, Zenon
      <4> DEFINE i == (u + 1) - C
      <4>1. i \in 1 .. Len(E) /\ u = Len(D) + i - 1
        BY <1>1, <1>2, <2>4, <3>1, <3>3
      <4>2. u = Len(D) + i - 1
        BY <4>1
      <4>3. (num \o more)[u + 1] = more[i]
        BY <4>0
      <4>4. StepCount(D \o E, u) = Len(E[i].steps) /\ more[i] = Len(E[i].steps)
        <5> HIDE DEF i
        <5> QED BY <2>2, <2>4, <4>1
      <4> HIDE DEF i
      <4> QED BY <4>3, <4>4
    <3> QED BY <3>2, <3>3
  <2> QED BY <2>1, <2>3, <2>4, <2>5 DEF Numbered
<1>4. CASE ~E[1].array
  <2> DEFINE first == IF num = <<>> THEN 0 ELSE num[1]
  <2>1. /\ C = IF D = <<>> THEN 0 ELSE 1
        /\ StreamCount(D \o E) = 1
        /\ D # <<>> => \A u : StepCount(D, u) = Len(D)
        /\ \A u : StepCount(D \o E, u) = Len(D) + Len(E)
    BY <1>4, StepsJoin DEF C, StepsJoined
  <2>2. first = Len(D)
    <3>1. D # <<>> => ~D[1].array
      BY <1>4 DEF SameKind
    <3> QED BY <3>1, FirstNumber DEF num
  <2>3. Sent!NewStepNum(L, E) = <<first + Len(E)>>
    BY <1>4 DEF Sent!NewStepNum, num
  <2> HIDE DEF first
  <2>4. Len(D) + Len(E) \in Nat
    BY <1>2
  <2> QED BY <2>1, <2>2, <2>3, <2>4 DEF Numbered
<1> QED BY <1>3, <1>4

\* What ParseData adds are the places that were not there, and the steps at
\* them; those that were there keep their steps.
Adds(P, D, F) ==
    /\ \A p \in DOMAIN P : \E u, k : p = <<u, k>>
    /\ \A u, k : <<u, k>> \in DOMAIN P <=> Has(F, u, k) /\ ~Has(D, u, k)
    /\ \A u, k : <<u, k>> \in DOMAIN P => P[<<u, k>>] = StepIn(F, u, k)
    /\ \A u, k : Has(D, u, k) =>
                    Has(F, u, k) /\ StepIn(F, u, k) = StepIn(D, u, k)

LEMMA StreamsAdd ==
  ASSUME NEW D, NEW E, Sent!MemberOK(D), Sent!MemberOK(E), E # <<>>,
         SameKind(D, E), NEW L, Numbered(L.step_num, D), E[1].array
  PROVE  Adds(Sent!Places(L, E), D, D \o E)
<1> DEFINE F == D \o E
           at == Len(L.step_num) - 1
           P == Sent!Places(L, E)
           S == UNION {{<<at + i, k - 1>> : k \in DOMAIN E[i].steps} :
                          i \in DOMAIN E}
<1>1. P = [p \in S |-> E[p[1] - at].steps[p[2] + 1]]
  BY DEF Sent!Places
<1>2. /\ StreamCount(D) = Len(D)
      /\ StreamCount(F) = Len(D) + Len(E)
      /\ \A u \in 0 .. Len(D) - 1 :
            /\ StepCount(F, u) = StepCount(D, u)
            /\ \A k : StepIn(F, u, k) = StepIn(D, u, k)
      /\ \A i \in 1 .. Len(E) :
            /\ StepCount(F, Len(D) + i - 1) = Len(E[i].steps)
            /\ \A k : StepIn(F, Len(D) + i - 1, k) = E[i].steps[k + 1]
  BY StreamsJoin
<1>3. at = Len(D) - 1 /\ Len(D) \in Nat /\ at \in Int
  BY <1>2, MemberTypes DEF Numbered
<1>4. /\ Len(E) \in Nat /\ DOMAIN E = 1 .. Len(E)
      /\ \A i \in 1 .. Len(E) : /\ Len(E[i].steps) \in Nat \ {0}
                                /\ DOMAIN E[i].steps = 1 .. Len(E[i].steps)
  BY MemberTypes
<1> HIDE DEF at, P, F
<1>5. \A p \in DOMAIN P : \E u, k : p = <<u, k>>
  BY <1>1
<1>6. ASSUME NEW u, NEW k, Has(D, u, k)
      PROVE  Has(F, u, k) /\ StepIn(F, u, k) = StepIn(D, u, k)
  <2>1. u \in 0 .. Len(D) - 1 /\ k \in 0 .. StepCount(D, u) - 1
    BY <1>2, <1>6 DEF Has
  <2>2. u \in 0 .. Len(D) + Len(E) - 1
    BY <1>3, <1>4, <2>1
  <2> QED BY <1>2, <2>1, <2>2 DEF Has
<1>7. ASSUME NEW u, NEW k
      PROVE  /\ <<u, k>> \in DOMAIN P <=> Has(F, u, k) /\ ~Has(D, u, k)
             /\ <<u, k>> \in DOMAIN P => P[<<u, k>>] = StepIn(F, u, k)
  <2>1. ASSUME <<u, k>> \in S
        PROVE  /\ Has(F, u, k) /\ ~Has(D, u, k)
               /\ P[<<u, k>>] = StepIn(F, u, k)
    <3>1. PICK i \in DOMAIN E : \E j \in DOMAIN E[i].steps :
                                   <<u, k>> = <<at + i, j - 1>>
      BY <2>1
    <3>2. PICK j \in DOMAIN E[i].steps : u = at + i /\ k = j - 1
      BY <3>1
    <3>3. /\ i \in 1 .. Len(E) /\ j \in 1 .. Len(E[i].steps)
          /\ Len(E[i].steps) \in Nat
      BY <1>4, <3>1, <3>2
    <3>4. /\ u = Len(D) + i - 1 /\ u \in 0 .. Len(D) + Len(E) - 1
          /\ u \notin 0 .. Len(D) - 1
      BY <1>3, <1>4, <3>2, <3>3
    <3>5. /\ StepCount(F, u) = Len(E[i].steps)
          /\ StepIn(F, u, k) = E[i].steps[k + 1]
      BY <1>2, <3>3, <3>4
    <3>6. k \in 0 .. Len(E[i].steps) - 1
      BY <3>2, <3>3
    <3>7. Has(F, u, k) /\ ~Has(D, u, k)
      BY <1>2, <3>4, <3>5, <3>6 DEF Has
    <3>8. P[<<u, k>>] = E[u - at].steps[k + 1]
      BY <1>1, <2>1
    <3>9. u - at = i
      BY <1>3, <3>2, <3>3
    <3> QED BY <3>5, <3>7, <3>8, <3>9
  <2>2. ASSUME Has(F, u, k), ~Has(D, u, k)
        PROVE  <<u, k>> \in S
    <3>1. u \in 0 .. Len(D) + Len(E) - 1 /\ k \in 0 .. StepCount(F, u) - 1
      BY <1>2, <2>2 DEF Has
    <3>2. u \notin 0 .. Len(D) - 1
      BY <1>2, <2>2, <3>1 DEF Has
    <3>3. /\ u - at \in 1 .. Len(E) /\ u = Len(D) + (u - at) - 1
          /\ u = at + (u - at)
      <4>1. u \in Int /\ Len(D) <= u /\ u <= Len(D) + Len(E) - 1
        BY <1>3, <1>4, <3>1, <3>2
      <4> DEFINE n == Len(D)
                 m == Len(E)
      <4>2. /\ n \in Nat /\ m \in Nat /\ at = n - 1
            /\ u \in Int /\ n <= u /\ u <= n + m - 1
        BY <1>3, <1>4, <4>1
      <4> HIDE DEF n, m
      <4>3. u - at \in 1 .. m /\ u = n + (u - at) - 1 /\ u = at + (u - at)
        BY <4>2
      <4> QED BY <4>3 DEF n, m
    <3>4. PICK i \in 1 .. Len(E) : u = Len(D) + i - 1 /\ u = at + i
      BY <3>3
    <3>5. StepCount(F, u) = Len(E[i].steps) /\ Len(E[i].steps) \in Nat
      BY <1>2, <1>4, <3>4
    <3>6. k + 1 \in DOMAIN E[i].steps /\ k = (k + 1) - 1
      BY <1>4, <3>1, <3>5
    <3>7. PICK j \in DOMAIN E[i].steps : k = j - 1
      BY <3>6
    <3>8. i \in DOMAIN E
      BY <1>4
    <3>9. <<u, k>> \in {<<at + i, x - 1>> : x \in DOMAIN E[i].steps}
      BY <3>4, <3>7
    <3> QED BY <3>8, <3>9
  <2>3. DOMAIN P = S
    BY <1>1
  <2> HIDE DEF S
  <2> QED BY <2>1, <2>2, <2>3
<1> QED BY <1>5, <1>6, <1>7 DEF Adds, P, F

LEMMA StepsAdd ==
  ASSUME NEW D, NEW E, Sent!MemberOK(D), Sent!MemberOK(E), E # <<>>,
         SameKind(D, E), NEW L, Numbered(L.step_num, D), ~E[1].array
  PROVE  Adds(Sent!Places(L, E), D, D \o E)
<1> DEFINE F == D \o E
           at == IF L.step_num = <<>> THEN 0 ELSE L.step_num[1]
           P == Sent!Places(L, E)
           S == {<<0, at + k - 1>> : k \in DOMAIN E}
<1>1. P = [p \in S |-> E[p[2] - at + 1].steps[1]]
  BY DEF Sent!Places
<1>2. /\ StreamCount(D) = (IF D = <<>> THEN 0 ELSE 1)
      /\ StreamCount(F) = 1
      /\ D # <<>> => \A u : StepCount(D, u) = Len(D)
      /\ \A u : StepCount(F, u) = Len(D) + Len(E)
      /\ \A u : \A k \in 0 .. Len(D) - 1 : StepIn(F, u, k) = StepIn(D, u, k)
      /\ \A u : \A i \in 1 .. Len(E) :
            StepIn(F, u, Len(D) + i - 1) = E[i].steps[1]
  <2>1. StepsJoined(D, E)
    BY StepsJoin
  <2> QED BY <2>1 DEF StepsJoined
<1>3. at = Len(D)
  <2>1. D # <<>> => ~D[1].array
    BY DEF SameKind
  <2> QED BY <2>1, FirstNumber
<1>4. /\ Len(D) \in Nat /\ ((D = <<>>) <=> (Len(D) = 0))
      /\ Len(E) \in Nat /\ DOMAIN E = 1 .. Len(E)
  BY MemberTypes
<1> HIDE DEF at, P, F
<1>5. \A p \in DOMAIN P : \E u, k : p = <<u, k>>
  BY <1>1
<1>6. \A u, k : Has(D, u, k) <=> u = 0 /\ k \in 0 .. Len(D) - 1
  <2>1. ASSUME NEW u, NEW k, D = <<>>
        PROVE  ~Has(D, u, k) /\ ~(u = 0 /\ k \in 0 .. Len(D) - 1)
    BY <1>2, <1>4, <2>1 DEF Has
  <2>2. ASSUME NEW u, NEW k, D # <<>>
        PROVE  Has(D, u, k) <=> u = 0 /\ k \in 0 .. Len(D) - 1
    <3>1. StreamCount(D) = 1 /\ StepCount(D, u) = Len(D)
      BY <1>2, <2>2
    <3>2. u \in 0 .. 1 - 1 <=> u = 0
      OBVIOUS
    <3> QED BY <3>1, <3>2 DEF Has
  <2> QED BY <2>1, <2>2
<1>7. \A u, k : Has(F, u, k) <=> u = 0 /\ k \in 0 .. Len(D) + Len(E) - 1
  <2>1. \A u : u \in 0 .. 1 - 1 <=> u = 0
    OBVIOUS
  <2> QED BY <1>2, <2>1 DEF Has
<1>8. ASSUME NEW u, NEW k, Has(D, u, k)
      PROVE  Has(F, u, k) /\ StepIn(F, u, k) = StepIn(D, u, k)
  BY <1>2, <1>4, <1>6, <1>7, <1>8
<1>9. ASSUME NEW u, NEW k
      PROVE  /\ <<u, k>> \in DOMAIN P <=> Has(F, u, k) /\ ~Has(D, u, k)
             /\ <<u, k>> \in DOMAIN P => P[<<u, k>>] = StepIn(F, u, k)
  <2>1. ASSUME <<u, k>> \in S
        PROVE  /\ Has(F, u, k) /\ ~Has(D, u, k)
               /\ P[<<u, k>>] = StepIn(F, u, k)
    <3>1. PICK i \in DOMAIN E : <<u, k>> = <<0, at + i - 1>>
      BY <2>1
    <3>2. u = 0 /\ k = Len(D) + i - 1 /\ i \in 1 .. Len(E)
      BY <1>3, <1>4, <3>1
    <3>3. Has(F, u, k) /\ ~Has(D, u, k)
      BY <1>4, <1>6, <1>7, <3>2
    <3>4. P[<<u, k>>] = E[k - at + 1].steps[1]
      BY <1>1, <2>1
    <3>5. k - at + 1 = i
      BY <1>3, <1>4, <3>2
    <3>6. StepIn(F, u, k) = E[i].steps[1]
      BY <1>2, <3>2
    <3> QED BY <3>3, <3>4, <3>5, <3>6
  <2>2. ASSUME Has(F, u, k), ~Has(D, u, k)
        PROVE  <<u, k>> \in S
    <3>1. u = 0 /\ k - at + 1 \in DOMAIN E /\ k = at + (k - at + 1) - 1
      BY <1>3, <1>4, <1>6, <1>7, <2>2
    <3>2. PICK i \in DOMAIN E : k = at + i - 1
      BY <3>1
    <3> QED BY <3>1, <3>2
  <2>3. DOMAIN P = S
    BY <1>1
  <2> HIDE DEF S
  <2> QED BY <2>1, <2>2, <2>3
<1> QED BY <1>5, <1>8, <1>9 DEF Adds, P, F

LEMMA PlacesAdd ==
  ASSUME NEW D, NEW E, Sent!MemberOK(D), Sent!MemberOK(E), E # <<>>,
         SameKind(D, E), NEW L, Numbered(L.step_num, D)
  PROVE  Adds(Sent!Places(L, E), D, D \o E)
BY StreamsAdd, StepsAdd

\* input_data_ or output_data_ holds the tensors of the steps and no others.
Filled(f, D, names) ==
    /\ \A n, u, k : <<n, u, k>> \in DOMAIN f <=>
          n \in names /\ Has(D, u, k) /\ n \in DOMAIN StepIn(D, u, k)
    /\ \A n, u, k : <<n, u, k>> \in DOMAIN f =>
          f[<<n, u, k>>] = StepIn(D, u, k)[n]

Entered(g, P, names) ==
    \A n, u, k :
       /\ <<n, u, k>> \in DOMAIN g <=>
             /\ n \in names /\ <<u, k>> \in DOMAIN P
             /\ n \in DOMAIN P[<<u, k>>]
       /\ <<n, u, k>> \in DOMAIN g => g[<<n, u, k>>] = P[<<u, k>>][n]

LEMMA EntriesAre ==
  ASSUME NEW P, NEW names, \A p \in DOMAIN P : \E u, k : p = <<u, k>>
  PROVE  Entered(Sent!Entries(P, names), P, names)
<1> DEFINE S == {<<key[1], key[2][1], key[2][2]>> : key \in
                    {x \in names \X DOMAIN P : x[1] \in DOMAIN P[x[2]]}}
<1>1. Sent!Entries(P, names) = [k \in S |-> P[<<k[2], k[3]>>][k[1]]]
  BY DEF Sent!Entries
<1> SUFFICES ASSUME NEW n, NEW u, NEW k
             PROVE  <<n, u, k>> \in S <=>
                      /\ n \in names /\ <<u, k>> \in DOMAIN P
                      /\ n \in DOMAIN P[<<u, k>>]
  BY <1>1 DEF Entered
<1>2. ASSUME n \in names, <<u, k>> \in DOMAIN P, n \in DOMAIN P[<<u, k>>]
      PROVE  <<n, u, k>> \in S
  <2> DEFINE x == <<n, <<u, k>>>>
  <2>1. x \in names \X DOMAIN P /\ x[1] = n /\ x[2] = <<u, k>>
    BY <1>2
  <2>2. x[2][1] = u /\ x[2][2] = k /\ x[1] \in DOMAIN P[x[2]]
    BY <1>2
  <2>3. x \in {y \in names \X DOMAIN P : y[1] \in DOMAIN P[y[2]]}
    BY <2>1, <2>2
  <2>4. <<n, u, k>> = <<x[1], x[2][1], x[2][2]>>
    BY <2>1, <2>2
  <2> HIDE DEF x
  <2> QED BY <2>3, <2>4
<1>3. ASSUME <<n, u, k>> \in S
      PROVE  /\ n \in names /\ <<u, k>> \in DOMAIN P
             /\ n \in DOMAIN P[<<u, k>>]
  <2>1. PICK x \in {y \in names \X DOMAIN P : y[1] \in DOMAIN P[y[2]]} :
               <<n, u, k>> = <<x[1], x[2][1], x[2][2]>>
    BY <1>3
  <2>2. /\ x[1] \in names /\ x[2] \in DOMAIN P /\ x[1] \in DOMAIN P[x[2]]
        /\ n = x[1] /\ u = x[2][1] /\ k = x[2][2]
    BY <2>1
  <2>3. x[2] = <<u, k>>
    <3>1. PICK a, b : x[2] = <<a, b>>
      BY <2>2
    <3> QED BY <2>2, <3>1
  <2> QED BY <2>2, <2>3
<1> HIDE DEF S
<1> QED BY <1>2, <1>3

LEMMA FilledMore ==
  ASSUME NEW f, NEW D, NEW F, NEW names, NEW P,
         Filled(f, D, names), Adds(P, D, F)
  PROVE  Filled(Sent!Extended(f, Sent!Entries(P, names)), F, names)
<1> DEFINE g == Sent!Entries(P, names)
           h == Sent!Extended(f, g)
<1>1. /\ DOMAIN h = DOMAIN f \cup DOMAIN g
      /\ \A x \in DOMAIN f \cup DOMAIN g :
            h[x] = IF x \in DOMAIN f THEN f[x] ELSE g[x]
  BY DEF Sent!Extended
<1>2. \A n, u, k :
         /\ <<n, u, k>> \in DOMAIN g <=>
               /\ n \in names /\ <<u, k>> \in DOMAIN P
               /\ n \in DOMAIN P[<<u, k>>]
         /\ <<n, u, k>> \in DOMAIN g => g[<<n, u, k>>] = P[<<u, k>>][n]
  <2>1. \A p \in DOMAIN P : \E u, k : p = <<u, k>>
    BY DEF Adds
  <2>2. Entered(g, P, names)
    BY <2>1, EntriesAre
  <2> QED BY <2>2 DEF Entered
<1> HIDE DEF g, h
<1>3. ASSUME NEW n, NEW u, NEW k
      PROVE  /\ <<n, u, k>> \in DOMAIN h <=>
                  n \in names /\ Has(F, u, k) /\ n \in DOMAIN StepIn(F, u, k)
             /\ <<n, u, k>> \in DOMAIN h =>
                  h[<<n, u, k>>] = StepIn(F, u, k)[n]
  <2> DEFINE x == <<n, u, k>>
  <2>1. /\ x \in DOMAIN f <=>
             n \in names /\ Has(D, u, k) /\ n \in DOMAIN StepIn(D, u, k)
        /\ x \in DOMAIN f => f[x] = StepIn(D, u, k)[n]
    BY DEF Filled
  <2>2. /\ x \in DOMAIN g <=>
             /\ n \in names /\ <<u, k>> \in DOMAIN P
             /\ n \in DOMAIN P[<<u, k>>]
        /\ x \in DOMAIN g => g[x] = P[<<u, k>>][n]
    BY <1>2
  <2>3. /\ <<u, k>> \in DOMAIN P <=> Has(F, u, k) /\ ~Has(D, u, k)
        /\ <<u, k>> \in DOMAIN P => P[<<u, k>>] = StepIn(F, u, k)
        /\ Has(D, u, k) => Has(F, u, k) /\ StepIn(F, u, k) = StepIn(D, u, k)
    BY DEF Adds
  <2>4. /\ x \in DOMAIN h <=> x \in DOMAIN f \/ x \in DOMAIN g
        /\ x \in DOMAIN f => h[x] = f[x]
        /\ x \in DOMAIN g /\ x \notin DOMAIN f => h[x] = g[x]
    BY <1>1
  <2> HIDE DEF x
  <2>5. x \in DOMAIN h => h[x] = StepIn(F, u, k)[n]
    BY <2>1, <2>2, <2>3, <2>4
  <2>6. x \in DOMAIN h <=>
          n \in names /\ Has(F, u, k) /\ n \in DOMAIN StepIn(F, u, k)
    BY <2>1, <2>2, <2>3, <2>4
  <2> QED BY <2>5, <2>6 DEF x
<1> QED BY <1>3 DEF Filled, h, g

\* The elements of "validation_data" are laid out as those of "data".
SameLayout(D, V) ==
    /\ Len(V) = Len(D)
    /\ \A i \in 1 .. Len(D) : /\ V[i].array = D[i].array
                              /\ Len(V[i].steps) = Len(D[i].steps)

SameSteps(D, V) ==
    /\ StreamCount(V) = StreamCount(D)
    /\ \A u \in 0 .. StreamCount(D) - 1 : StepCount(V, u) = StepCount(D, u)

LEMMA LayoutsAgree ==
  ASSUME NEW D, NEW V, Sent!MemberOK(D), Sent!MemberOK(V), SameLayout(D, V)
  PROVE  SameSteps(D, V) /\ SameKind(D, V) /\ SameKind(V, D)
<1>1. /\ Len(D) \in Nat /\ ((D = <<>>) <=> (Len(D) = 0))
      /\ ((V = <<>>) <=> (Len(V) = 0)) /\ Len(V) = Len(D)
  BY MemberTypes DEF SameLayout
<1>2. CASE D = <<>>
  <2>1. V = <<>> /\ StreamCount(<<>>) = 0 /\ \A u : u \notin 0 .. 0 - 1
    <3>1. V = <<>>
      BY <1>1, <1>2
    <3>2. StreamCount(<<>>) = 0
      BY DEF StreamCount
    <3>3. \A u : u \notin 0 .. 0 - 1
      OBVIOUS
    <3> QED BY <3>1, <3>2, <3>3
  <2> QED BY <1>2, <2>1 DEF SameSteps, SameKind
<1>3. CASE D # <<>>
  <2>1. V # <<>> /\ 1 \in 1 .. Len(D)
    BY <1>1, <1>3
  <2>2. V[1].array = D[1].array
    BY <2>1 DEF SameLayout
  <2>3. V[1].array \in BOOLEAN /\ D[1].array \in BOOLEAN
    BY <1>1, <2>1, MemberTypes
  <2>4. V[1].array <=> D[1].array
    BY <2>2, <2>3
  <2>5. StreamCount(V) = StreamCount(D)
    <3>1. CASE D[1].array
      <4>1. V[1].array
        BY <2>4, <3>1
      <4> QED BY <1>1, <1>3, <2>1, <3>1, <4>1, Zenon DEF StreamCount
    <3>2. CASE ~D[1].array
      <4>1. ~V[1].array
        BY <2>4, <3>2
      <4> QED BY <1>1, <1>3, <2>1, <3>2, <4>1, Zenon DEF StreamCount
    <3> QED BY <3>1, <3>2
  <2>6. ASSUME NEW u \in 0 .. StreamCount(D) - 1
        PROVE  StepCount(V, u) = StepCount(D, u)
    <3>1. CASE D[1].array
      <4>1. u + 1 \in 1 .. Len(D)
        BY <1>1, <1>3, <3>1 DEF StreamCount
      <4>2. Len(V[u + 1].steps) = Len(D[u + 1].steps)
        BY <4>1 DEF SameLayout
      <4> QED BY <2>4, <3>1, <4>2 DEF StepCount
    <3>2. CASE ~D[1].array
      <4>1. ~V[1].array
        BY <2>4, <3>2
      <4> QED BY <1>1, <3>2, <4>1, Zenon DEF StepCount
    <3> QED BY <3>1, <3>2
  <2> QED BY <2>2, <2>5, <2>6 DEF SameSteps, SameKind
<1> QED BY <1>2, <1>3

LEMMA SameStepsHas ==
  ASSUME NEW D, NEW V, SameSteps(D, V)
  PROVE  \A u, k : Has(V, u, k) <=> Has(D, u, k)
BY DEF SameSteps, Has

LEMMA SameStepsNumbered ==
  ASSUME NEW D, NEW V, SameSteps(D, V), NEW num, Numbered(num, D)
  PROVE  Numbered(num, V)
BY DEF SameSteps, Numbered

\* A DataLoader that has read the elements D of "data" and V of
\* "validation_data".
Shape(L) ==
    L = [ok |-> L.ok, data_stream_cnt |-> L.data_stream_cnt,
         step_num |-> L.step_num,
         multiple_stream_mode |-> L.multiple_stream_mode,
         input |-> L.input, output |-> L.output, input_buf |-> L.input_buf]

Complete(V) ==
    \A u, k : Has(V, u, k) => Outputs \subseteq DOMAIN StepIn(V, u, k)

HoldsExpected(L, D, V) ==
    Len(V) = Len(D) =>
        SameLayout(D, V) /\ Filled(L.output, V, Outputs) /\ Complete(V)

Holds(L, D, V) ==
    /\ Shape(L) /\ L.input_buf = FALSE
    /\ Numbered(L.step_num, D) /\ L.data_stream_cnt = StreamCount(D)
    /\ D # <<>> => L.multiple_stream_mode = D[1].array
    /\ Filled(L.input, D, Inputs)
    /\ Len(V) <= Len(D)
    /\ HoldsExpected(L, D, V)

LEMMA EmptyHolds == Holds(Sent!EmptyLoader, <<>>, <<>>)
<1>1. Shape(Sent!EmptyLoader) /\ Sent!EmptyLoader.input_buf = FALSE
  BY DEF Shape, Sent!EmptyLoader
<1>2. /\ Sent!EmptyLoader.step_num = <<>> /\ Sent!EmptyLoader.input = <<>>
      /\ Sent!EmptyLoader.data_stream_cnt = 0
      /\ Sent!EmptyLoader.output = <<>>
  BY DEF Sent!EmptyLoader
<1>3. /\ StreamCount(<<>>) = 0 /\ \A x : x \notin 0 .. 0 - 1
      /\ Len(<<>>) = 0 /\ <<>> \in Seq(Nat) /\ Len(<<>>) <= Len(<<>>)
      /\ \A x : x \notin DOMAIN <<>> /\ x \notin 1 .. 0
  BY DEF StreamCount
<1>4. Numbered(<<>>, <<>>)
  BY <1>3 DEF Numbered
<1>5. \A u, k : ~Has(<<>>, u, k)
  BY <1>3 DEF Has
<1>6. \A names : Filled(<<>>, <<>>, names)
  BY <1>3, <1>5 DEF Filled
<1>7. SameLayout(<<>>, <<>>) /\ Complete(<<>>)
  BY <1>3, <1>5 DEF SameLayout, Complete
<1> QED
  BY <1>1, <1>2, <1>3, <1>4, <1>6, <1>7 DEF Holds, HoldsExpected

\* ValidateParsingMode keeps streams and steps apart.
LEMMA ModesAgree ==
  ASSUME NEW L, NEW D, NEW E, Sent!MemberOK(D), Sent!MemberOK(E), E # <<>>,
         Numbered(L.step_num, D),
         D # <<>> => L.multiple_stream_mode = D[1].array,
         Sent!ValidateParsingMode(L, E)
  PROVE  SameKind(D, E)
<1> SUFFICES ASSUME D # <<>> PROVE D[1].array = E[1].array
  BY DEF SameKind
<1>1. /\ Len(D) \in Nat \ {0} /\ Len(E) \in Nat \ {0}
      /\ DOMAIN E = 1 .. Len(E)
  BY MemberTypes
<1>2. D[1].array \in BOOLEAN /\ E[1].array \in BOOLEAN /\ 1 \in DOMAIN E
  BY <1>1, MemberTypes
<1>3. L.step_num # <<>>
  <2>1. StreamCount(D) # 0
    BY CountTypes
  <2>2. Len(<<>>) = 0
    OBVIOUS
  <2> QED BY <2>1, <2>2 DEF Numbered
<1>4. IF E[1].array THEN \A i \in DOMAIN E : E[i].array = D[1].array
      ELSE ~D[1].array
  BY <1>3 DEF Sent!ValidateParsingMode
<1> QED BY <1>2, <1>4

LEMMA AlignedIs ==
  ASSUME NEW file, Sent!MemberOK(file.data), Sent!MemberOK(file.validation),
         Sent!Aligned(file), file.validation # <<>>
  PROVE  SameLayout(file.data, file.validation)
<1>1. DOMAIN file.data = 1 .. Len(file.data)
  BY MemberTypes
<1> QED BY <1>1 DEF Sent!Aligned, SameLayout

LEMMA LayoutsJoin ==
  ASSUME NEW D, NEW V, NEW E, NEW W,
         Sent!MemberOK(D), Sent!MemberOK(V),
         Sent!MemberOK(E), Sent!MemberOK(W),
         SameLayout(D, V), SameLayout(E, W)
  PROVE  SameLayout(D \o E, V \o W)
<1>1. /\ Len(D) \in Nat /\ Len(E) \in Nat
      /\ Len(V) = Len(D) /\ Len(W) = Len(E)
  BY MemberTypes DEF SameLayout
<1>2. /\ Len(D \o E) = Len(D) + Len(E)
      /\ \A i \in 1 .. Len(D) : (D \o E)[i] = D[i]
      /\ \A i \in 1 .. Len(E) : (D \o E)[Len(D) + i] = E[i]
  BY Behind
<1>3. /\ Len(V \o W) = Len(V) + Len(W)
      /\ \A i \in 1 .. Len(V) : (V \o W)[i] = V[i]
      /\ \A i \in 1 .. Len(W) : (V \o W)[Len(V) + i] = W[i]
  BY Behind
<1>4. ASSUME NEW i \in 1 .. Len(D) + Len(E)
      PROVE  /\ (V \o W)[i].array = (D \o E)[i].array
             /\ Len((V \o W)[i].steps) = Len((D \o E)[i].steps)
  <2>1. CASE i <= Len(D)
    <3>1. i \in 1 .. Len(D)
      BY <1>1, <2>1
    <3> QED BY <1>1, <1>2, <1>3, <3>1 DEF SameLayout
  <2>2. CASE ~(i <= Len(D))
    <3>1. PICK j \in 1 .. Len(E) : i = Len(D) + j
      <4>1. i - Len(D) \in 1 .. Len(E) /\ i = Len(D) + (i - Len(D))
        BY <1>1, <2>2
      <4> QED BY <4>1
    <3> QED BY <1>1, <1>2, <1>3, <3>1 DEF SameLayout
  <2> QED BY <2>1, <2>2
<1> QED BY <1>1, <1>2, <1>3, <1>4 DEF SameLayout

\* The loader after a file that has data.
WithFile(L, file) ==
    [L EXCEPT !.step_num = Sent!NewStepNum(L, file.data),
              !.data_stream_cnt = Len(Sent!NewStepNum(L, file.data)),
              !.multiple_stream_mode = file.data[1].array,
              !.input = Sent!Extended(@, Sent!Entries(
                            Sent!Places(L, file.data), Inputs)),
              !.output = Sent!Extended(@, Sent!Entries(
                             IF file.validation = <<>> THEN <<>>
                             ELSE Sent!Places(L, file.validation), Outputs))]

LEMMA WithFileIs ==
  ASSUME NEW L, Shape(L), NEW file
  PROVE  LET N == WithFile(L, file)
         IN  /\ Shape(N) /\ N.input_buf = L.input_buf
             /\ N.step_num = Sent!NewStepNum(L, file.data)
             /\ N.data_stream_cnt = Len(N.step_num)
             /\ N.multiple_stream_mode = file.data[1].array
             /\ N.input = Sent!Extended(L.input, Sent!Entries(
                              Sent!Places(L, file.data), Inputs))
             /\ file.validation # <<>> =>
                   N.output = Sent!Extended(L.output, Sent!Entries(
                                  Sent!Places(L, file.validation), Outputs))
<1> DEFINE num == Sent!NewStepNum(L, file.data)
           cnt == Len(num)
           many == file.data[1].array
           in == Sent!Extended(L.input, Sent!Entries(
                     Sent!Places(L, file.data), Inputs))
           out == Sent!Extended(L.output, Sent!Entries(
                     IF file.validation = <<>> THEN <<>>
                     ELSE Sent!Places(L, file.validation), Outputs))
           N == [ok |-> L.ok, data_stream_cnt |-> cnt, step_num |-> num,
                 multiple_stream_mode |-> many, input |-> in,
                 output |-> out, input_buf |-> L.input_buf]
<1>1. WithFile(L, file) = [L EXCEPT !.step_num = num, !.data_stream_cnt = cnt,
                                  !.multiple_stream_mode = many,
                                  !.input = in, !.output = out]
  BY DEF WithFile
<1>2. cnt = Len(num)
  OBVIOUS
<1>3. file.validation # <<>> =>
         out = Sent!Extended(L.output, Sent!Entries(
                   Sent!Places(L, file.validation), Outputs))
  OBVIOUS
<1> HIDE DEF cnt, out
<1>4. num = Sent!NewStepNum(L, file.data) /\ many = file.data[1].array
      /\ in = Sent!Extended(L.input, Sent!Entries(
                  Sent!Places(L, file.data), Inputs))
  OBVIOUS
<1> HIDE DEF num, many, in
<1>5. WithFile(L, file) = N
  BY <1>1 DEF Shape
<1>6. /\ Shape(N) /\ N.input_buf = L.input_buf /\ N.step_num = num
      /\ N.data_stream_cnt = cnt /\ N.multiple_stream_mode = many
      /\ N.input = in /\ N.output = out
  BY DEF Shape
<1> HIDE DEF N
<1> QED BY <1>2, <1>3, <1>4, <1>5, <1>6

\* A file that is read without an error.
Accepted(L, file, model) ==
    /\ Sent!Aligned(file) /\ Sent!ValidateParsingMode(L, file.data)
    /\ file.validation # <<>> =>
         LET out == Sent!Places(L, file.validation)
         IN  \A p \in DOMAIN out :
                Sent!ReadTensorData(out[p], Outputs, {}, model)

LEMMA ParseIs ==
  ASSUME NEW L, Shape(L), NEW file, NEW model,
         file.data # <<>>, Sent!ParseData(L, file, model).ok
  PROVE  /\ Sent!ParseData(L, file, model) = WithFile(L, file)
         /\ Accepted(L, file, model)
<1> DEFINE in == Sent!Places(L, file.data)
           out == IF file.validation = <<>> THEN <<>>
                  ELSE Sent!Places(L, file.validation)
           Good == /\ file.parses /\ Sent!Aligned(file)
                   /\ Sent!ValidateParsingMode(L, file.data)
                   /\ \A p \in DOMAIN in :
                         Sent!ReadTensorData(in[p], Inputs, model.optional,
                                             model)
                   /\ \A p \in DOMAIN out :
                         Sent!ReadTensorData(out[p], Outputs, {}, model)
<1>1. Sent!ParseData(L, file, model)
        = IF Good THEN WithFile(L, file) ELSE Sent!LoaderError(L)
  BY DEF Sent!ParseData, WithFile
<1>2. ~Sent!LoaderError(L).ok
  BY DEF Sent!LoaderError, Shape
<1>3. Good
  <2> HIDE DEF Good
  <2> QED BY <1>1, <1>2
<1>4. Accepted(L, file, model)
  BY <1>3 DEF Accepted
<1> HIDE DEF Good
<1> QED BY <1>1, <1>3, <1>4

\* The validation data of a file is put beside its data.
LEMMA ParseExpects ==
  ASSUME NEW L, NEW D, NEW V, NEW file, NEW model,
         Sent!MemberOK(D), Sent!MemberOK(V),
         Sent!MemberOK(file.data), Sent!MemberOK(file.validation),
         file.data # <<>>, SameKind(D, file.data),
         Numbered(L.step_num, D), Len(V) <= Len(D),
         HoldsExpected(L, D, V), Accepted(L, file, model), NEW N,
         file.validation # <<>> =>
            N.output = Sent!Extended(L.output, Sent!Entries(
                           Sent!Places(L, file.validation), Outputs))
  PROVE  /\ Len(V \o file.validation) <= Len(D \o file.data)
         /\ HoldsExpected(N, D \o file.data, V \o file.validation)
<1> DEFINE E == file.data
           W == file.validation
           P == Sent!Places(L, W)
<1>1. /\ Sent!MemberOK(E) /\ Sent!MemberOK(W) /\ E # <<>> /\ SameKind(D, E)
      /\ W # <<>> => SameLayout(E, W)
      /\ W # <<>> => N.output = Sent!Extended(L.output,
                                              Sent!Entries(P, Outputs))
      /\ W # <<>> => \A p \in DOMAIN P :
                        Sent!ReadTensorData(P[p], Outputs, {}, model)
  BY AlignedIs DEF Accepted
<1>2. P = Sent!Places(L, W) /\ E = file.data /\ W = file.validation
  OBVIOUS
<1> HIDE DEF E, W, P
<1>3. /\ Len(D) \in Nat /\ Len(V) \in Nat /\ Len(E) \in Nat \ {0}
      /\ Len(W) \in Nat /\ (W # <<>> => Len(W) = Len(E))
      /\ (W = <<>> => Len(W) = 0)
  BY <1>1, MemberTypes DEF SameLayout
<1>4. /\ Len(D \o E) = Len(D) + Len(E) /\ Len(V \o W) = Len(V) + Len(W)
      /\ Sent!MemberOK(D \o E) /\ Sent!MemberOK(V \o W)
  BY <1>1, Behind
<1>5. Len(V \o W) <= Len(D \o E)
  BY <1>3, <1>4
<1>6. ASSUME Len(V \o W) = Len(D \o E)
      PROVE  /\ SameLayout(D \o E, V \o W)
             /\ Filled(N.output, V \o W, Outputs)
             /\ Complete(V \o W)
  <2>1. Len(V) = Len(D) /\ W # <<>>
    BY <1>3, <1>4, <1>6
  <2>2. SameLayout(D, V) /\ Filled(L.output, V, Outputs) /\ Complete(V)
    BY <2>1 DEF HoldsExpected
  <2>3. SameLayout(D \o E, V \o W)
    BY <1>1, <2>1, <2>2, LayoutsJoin
  <2>4. Numbered(L.step_num, V)
    BY <2>2, LayoutsAgree, SameStepsNumbered
  <2>5. SameKind(V, W)
    <3>1. V # <<>> => D # <<>> /\ D[1].array = V[1].array
      <4>1. /\ ((V = <<>>) <=> (Len(V) = 0))
            /\ ((D = <<>>) <=> (Len(D) = 0))
        BY MemberTypes
      <4>2. V # <<>> => 1 \in 1 .. Len(D)
        BY <1>3, <2>1, <4>1
      <4> QED BY <2>1, <2>2, <4>1, <4>2 DEF SameLayout
    <3>2. E[1].array = W[1].array
      BY <1>1, <1>3, <2>1 DEF SameLayout
    <3> QED BY <1>1, <3>1, <3>2 DEF SameKind
  <2>6. Adds(P, V, V \o W)
    BY <1>1, <1>2, <2>1, <2>4, <2>5, PlacesAdd
  <2>7. Filled(N.output, V \o W, Outputs)
    BY <1>1, <2>1, <2>2, <2>6, FilledMore
  <2>8. ASSUME NEW u, NEW k, Has(V \o W, u, k)
        PROVE  Outputs \subseteq DOMAIN StepIn(V \o W, u, k)
    <3>1. CASE Has(V, u, k)
      BY <2>2, <2>6, <3>1 DEF Adds, Complete
    <3>2. CASE ~Has(V, u, k)
      <4>1. <<u, k>> \in DOMAIN P /\ P[<<u, k>>] = StepIn(V \o W, u, k)
        BY <2>6, <2>8, <3>2 DEF Adds
      <4>2. Sent!ReadTensorData(P[<<u, k>>], Outputs, {}, model)
        BY <1>1, <2>1, <4>1
      <4> QED BY <4>1, <4>2 DEF Sent!ReadTensorData
    <3> QED BY <3>1, <3>2
  <2> QED BY <2>3, <2>7, <2>8 DEF Complete
<1> QED BY <1>2, <1>5, <1>6 DEF HoldsExpected

LEMMA ParseHolds ==
  ASSUME NEW L, NEW D, NEW V, NEW file, NEW model,
         Sent!MemberOK(D), Sent!MemberOK(V),
         Sent!MemberOK(file.data), Sent!MemberOK(file.validation),
         Holds(L, D, V), Sent!ParseData(L, file, model).ok
  PROVE  Holds(Sent!ParseData(L, file, model),
               D \o file.data, V \o file.validation)
<1> DEFINE N == Sent!ParseData(L, file, model)
           E == file.data
           W == file.validation
<1>1. CASE E = <<>>
  <2> DEFINE b == file.parses /\ Sent!Aligned(file)
  <2>1. N = [L EXCEPT !.ok = b]
    BY <1>1 DEF Sent!ParseData
  <2>2. Shape(L)
    BY DEF Holds
  <2>3. N.ok = b
    BY <2>1, <2>2 DEF Shape
  <2>4. Sent!Aligned(file)
    BY <2>3
  <2>5. W = <<>>
    <3>1. SUFFICES ASSUME W # <<>> PROVE FALSE
      OBVIOUS
    <3>2. Len(W) = Len(E)
      BY <2>4, <3>1 DEF Sent!Aligned
    <3> QED BY <1>1, <3>1, <3>2, MemberTypes
  <2>6. D \o E = D /\ V \o W = V
    BY <1>1, <2>5, MemberTypes
  <2> HIDE DEF b
  <2>7. /\ Shape(N) /\ N.input_buf = L.input_buf
        /\ N.step_num = L.step_num
        /\ N.data_stream_cnt = L.data_stream_cnt
        /\ N.multiple_stream_mode = L.multiple_stream_mode
        /\ N.input = L.input /\ N.output = L.output
    BY <2>1, <2>2 DEF Shape
  <2> HIDE DEF N
  <2>8. Holds(N, D, V)
    BY <2>7 DEF Holds, HoldsExpected
  <2> QED BY <2>6, <2>8 DEF N
<1>2. CASE E # <<>>
  <2>1. Shape(L)
    BY DEF Holds
  <2>2. N = WithFile(L, file) /\ Accepted(L, file, model)
    BY <1>2, <2>1, ParseIs
  <2>3. /\ Shape(N) /\ N.input_buf = L.input_buf
        /\ N.step_num = Sent!NewStepNum(L, E)
        /\ N.data_stream_cnt = Len(N.step_num)
        /\ N.multiple_stream_mode = E[1].array
        /\ N.input = Sent!Extended(L.input, Sent!Entries(
                         Sent!Places(L, E), Inputs))
        /\ W # <<>> =>
              N.output = Sent!Extended(L.output, Sent!Entries(
                             Sent!Places(L, W), Outputs))
    BY <2>1, <2>2, WithFileIs
  <2> HIDE DEF N
  <2>4. /\ Numbered(L.step_num, D) /\ L.input_buf = FALSE
        /\ D # <<>> => L.multiple_stream_mode = D[1].array
        /\ Filled(L.input, D, Inputs) /\ Len(V) <= Len(D)
        /\ HoldsExpected(L, D, V)
    BY DEF Holds
  <2>5. SameKind(D, E)
    BY <1>2, <2>2, <2>4, ModesAgree DEF Accepted
  <2>6. Numbered(N.step_num, D \o E)
    BY <1>2, <2>3, <2>4, <2>5, NewStepNumIs
  <2>7. Filled(N.input, D \o E, Inputs)
    <3>1. Adds(Sent!Places(L, E), D, D \o E)
      BY <1>2, <2>4, <2>5, PlacesAdd
    <3> QED BY <2>3, <2>4, <3>1, FilledMore
  <2>8. /\ Len(V \o W) <= Len(D \o E)
        /\ HoldsExpected(N, D \o E, V \o W)
    BY <1>2, <2>2, <2>3, <2>4, <2>5, ParseExpects
  <2>9. N.multiple_stream_mode = (D \o E)[1].array
    BY <1>2, <2>3, <2>5, FirstOfBoth
  <2>10. N.data_stream_cnt = StreamCount(D \o E)
    BY <2>3, <2>6 DEF Numbered
  <2>11. Holds(N, D \o E, V \o W)
    BY <2>3, <2>4, <2>6, <2>7, <2>8, <2>9, <2>10 DEF Holds
  <2> QED BY <2>11 DEF N
<1> QED BY <1>1, <1>2

Flattening(seqs, g, k) ==
  g = [i \in 1 .. k |-> IF i = 1 THEN seqs[i] ELSE g[i - 1] \o seqs[i]]

\* FlattenSeq adds one sequence after the other.
LEMMA FlattenUnfolds ==
  ASSUME NEW seqs, Len(seqs) \in Nat \ {0}
  PROVE  \E g : /\ Flattening(seqs, g, Len(seqs))
                /\ Sent!FlattenSeq(seqs) = g[Len(seqs)]
<1> DEFINE D == {k \in Nat : \E g : Flattening(seqs, g, k)}
<1>1. 0 \in D
  <2>1. Flattening(seqs, <<>>, 0)
    BY DEF Flattening
  <2> QED BY <2>1
<1>2. ASSUME NEW k \in Nat, k \in D
      PROVE  k + 1 \in D
  <2>1. PICK g : Flattening(seqs, g, k)
    BY <1>2
  <2> DEFINE h == [i \in 1 .. k + 1 |->
                     IF i = k + 1
                     THEN IF i = 1 THEN seqs[i] ELSE g[k] \o seqs[i]
                     ELSE g[i]]
  <2>2. ASSUME NEW i \in 1 .. k + 1
        PROVE  h[i] = IF i = 1 THEN seqs[i] ELSE h[i - 1] \o seqs[i]
    <3>1. CASE i = k + 1
      <4>1. i # 1 => i - 1 \in 1 .. k + 1 /\ i - 1 # k + 1 /\ i - 1 = k
        BY <3>1
      <4>2. i # 1 => h[i - 1] = g[k]
        BY <4>1
      <4> QED BY <3>1, <4>2
    <3>2. CASE i # k + 1
      <4>1. i \in 1 .. k
        BY <3>2
      <4>2. i # 1 => i - 1 \in 1 .. k + 1 /\ i - 1 # k + 1
        BY <4>1
      <4>3. g[i] = IF i = 1 THEN seqs[i] ELSE g[i - 1] \o seqs[i]
        BY <2>1, <4>1 DEF Flattening
      <4>4. h[i] = g[i] /\ (i # 1 => h[i - 1] = g[i - 1])
        BY <3>2, <4>2
      <4> QED BY <4>3, <4>4
    <3> QED BY <3>1, <3>2
  <2>3. Flattening(seqs, h, k + 1)
    BY <2>2 DEF Flattening
  <2>4. k + 1 \in Nat
    OBVIOUS
  <2> HIDE DEF h
  <2> QED BY <2>3, <2>4
<1> DEFINE N == Len(seqs)
           g == CHOOSE g : Flattening(seqs, g, N)
<1>3. Flattening(seqs, g, N)
  <2>1. N \in D
    <3> HIDE DEF D
    <3> QED BY <1>1, <1>2, Induction
  <2> QED BY <2>1
<1>4. Sent!FlattenSeq(seqs) = g[N]
  BY DEF Sent!FlattenSeq, Flattening
<1> HIDE DEF g
<1> QED BY <1>3, <1>4

\* The elements of the first files, up to all of them.
FilesUpTo(g, member) ==
    /\ g[0] = <<>>
    /\ \A i \in 1 .. Len(job.files) :
          g[i] = g[i - 1] \o job.files[i][member]
    /\ g[Len(job.files)] = Sent!Elements(member)

UpTo(member) == CHOOSE g : FilesUpTo(g, member)

LEMMA UpToIs ==
  ASSUME Len(job.files) \in Nat, DOMAIN job.files = 1 .. Len(job.files),
         NEW member,
         \A i \in 1 .. Len(job.files) : Sent!MemberOK(job.files[i][member])
  PROVE  FilesUpTo(UpTo(member), member)
<1> DEFINE N == Len(job.files)
           m == [i \in DOMAIN job.files |-> job.files[i][member]]
<1>1. /\ N \in Nat /\ m = [i \in 1 .. N |-> job.files[i][member]]
      /\ \A i \in 1 .. N : m[i] = job.files[i][member]
  OBVIOUS
<1>2. Len(m) = N /\ Sent!Elements(member) = Sent!FlattenSeq(m)
  BY <1>1 DEF Sent!Elements
<1>3. \E g : FilesUpTo(g, member)
  <2>1. CASE N = 0
    <3> DEFINE g == [i \in {0} |-> <<>>]
    <3>1. Sent!FlattenSeq(m) = m
      BY <1>2, <2>1 DEF Sent!FlattenSeq
    <3>2. m = <<>>
      BY <1>1, <2>1
    <3>3. g[0] = <<>> /\ \A i : i \notin 1 .. 0
      OBVIOUS
    <3> HIDE DEF g
    <3>4. FilesUpTo(g, member)
      BY <1>2, <2>1, <3>1, <3>2, <3>3 DEF FilesUpTo
    <3> QED BY <3>4
  <2>2. CASE N # 0
    <3>1. N \in Nat \ {0}
      BY <1>1, <2>2
    <3> HIDE DEF m
    <3>2. PICK f : Flattening(m, f, N) /\ Sent!FlattenSeq(m) = f[N]
      BY <1>2, <3>1, FlattenUnfolds
    <3> DEFINE g == [i \in 0 .. N |-> IF i = 0 THEN <<>> ELSE f[i]]
    <3> HIDE DEF N
    <3>3. /\ g[0] = <<>> /\ \A i \in 1 .. N : g[i] = f[i]
      BY <3>1
    <3>4. \A i \in 1 .. N : f[i] = IF i = 1 THEN m[i] ELSE f[i - 1] \o m[i]
      BY <3>2 DEF Flattening
    <3> HIDE DEF g
    <3>5. ASSUME NEW i \in 1 .. N
          PROVE  g[i] = g[i - 1] \o m[i]
      <4>1. CASE i = 1
        <5>1. m[1] = <<>> \o m[1]
          <6>1. Sent!MemberOK(m[1])
            BY <1>1, <4>1 DEF N
          <6>2. m[1] \in Seq(Range(m[1]))
            BY <6>1, MemberTypes
          <6> QED BY <6>2
        <5>2. g[i] = m[1] /\ i - 1 = 0
          BY <3>3, <3>4, <4>1
        <5> QED BY <3>3, <4>1, <5>1, <5>2
      <4>2. CASE i # 1
        <5>1. i - 1 \in 1 .. N
          BY <3>1, <4>2
        <5>2. g[i] = f[i] /\ g[i - 1] = f[i - 1]
          BY <3>3, <5>1
        <5> QED BY <3>4, <4>2, <5>2
      <4> QED BY <4>1, <4>2
    <3>6. g[N] = Sent!Elements(member)
      BY <1>2, <3>1, <3>2, <3>3
    <3>7. FilesUpTo(g, member)
      BY <1>1, <3>3, <3>5, <3>6 DEF FilesUpTo, N
    <3> QED BY <3>7
  <2> QED BY <2>1, <2>2
<1> QED BY <1>3 DEF UpTo

LEMMA UpToMember ==
  ASSUME Len(job.files) \in Nat, NEW member, NEW g, FilesUpTo(g, member),
         \A i \in 1 .. Len(job.files) : Sent!MemberOK(job.files[i][member])
  PROVE  \A i \in 0 .. Len(job.files) : Sent!MemberOK(g[i])
<1> DEFINE N == Len(job.files)
           S == {i \in Nat : i <= N => Sent!MemberOK(g[i])}
<1>1. 0 \in S
  <2>1. Sent!MemberOK(<<>>)
    BY DEF Sent!MemberOK
  <2> QED BY <2>1 DEF FilesUpTo
<1>2. ASSUME NEW j \in Nat, j \in S
      PROVE  j + 1 \in S
  <2> DEFINE k == j + 1
  <2>1. k \in Nat /\ k - 1 = j
    OBVIOUS
  <2> SUFFICES ASSUME k <= N PROVE Sent!MemberOK(g[k])
    BY <2>1
  <2>2. k \in 1 .. N /\ j <= N
    OBVIOUS
  <2>3. g[k] = g[k - 1] \o job.files[k][member]
    BY <2>2 DEF FilesUpTo
  <2>4. Sent!MemberOK(g[j]) /\ Sent!MemberOK(job.files[k][member])
    BY <1>2, <2>2
  <2>5. g[k] = g[j] \o job.files[k][member]
    BY <2>1, <2>3
  <2> HIDE DEF k
  <2> QED BY <2>4, <2>5, Behind
<1>3. \A i \in Nat : i \in S
  <2> HIDE DEF S
  <2> QED BY <1>1, <1>2, Induction
<1> QED BY <1>3

\* What is assumed of a job whose data are in files.
LEMMA JobFiles ==
  ASSUME Sent!JobsOK, job \in Jobs
  PROVE  /\ Len(job.files) \in Nat /\ DOMAIN job.files = 1 .. Len(job.files)
         /\ \A i \in 1 .. Len(job.files) :
               /\ Sent!MemberOK(job.files[i]["data"])
               /\ Sent!MemberOK(job.files[i]["validation"])
<1>1. /\ job.files \in Seq(Sent!Range(job.files))
      /\ \A i \in DOMAIN job.files :
            /\ Sent!MemberOK(job.files[i].data)
            /\ Sent!MemberOK(job.files[i].validation)
  BY DEF Sent!JobsOK
<1>2. Len(job.files) \in Nat /\ DOMAIN job.files = 1 .. Len(job.files)
  BY <1>1
<1> QED BY <1>1, <1>2

Data == Sent!Elements("data")
Valid == Sent!Elements("validation")

LEMMA FilesRead ==
  ASSUME Sent!JobsOK, job \in Jobs
  PROVE  /\ FilesUpTo(UpTo("data"), "data")
         /\ FilesUpTo(UpTo("validation"), "validation")
         /\ \A i \in 0 .. Len(job.files) :
               /\ Sent!MemberOK(UpTo("data")[i])
               /\ Sent!MemberOK(UpTo("validation")[i])
         /\ Sent!MemberOK(Data) /\ Sent!MemberOK(Valid)
<1>1. /\ Len(job.files) \in Nat /\ DOMAIN job.files = 1 .. Len(job.files)
      /\ \A i \in 1 .. Len(job.files) :
            /\ Sent!MemberOK(job.files[i]["data"])
            /\ Sent!MemberOK(job.files[i]["validation"])
  BY JobFiles
<1>2. /\ FilesUpTo(UpTo("data"), "data")
      /\ FilesUpTo(UpTo("validation"), "validation")
  BY <1>1, UpToIs
<1>3. \A i \in 0 .. Len(job.files) :
         /\ Sent!MemberOK(UpTo("data")[i])
         /\ Sent!MemberOK(UpTo("validation")[i])
  BY <1>1, <1>2, UpToMember
<1>4. Sent!MemberOK(Data) /\ Sent!MemberOK(Valid)
  BY <1>1, <1>2, <1>3 DEF FilesUpTo, Data, Valid
<1> QED BY <1>2, <1>3, <1>4

\* If there is nothing in the files, no file has data.
LEMMA SomeData ==
  ASSUME Sent!JobsOK, job \in Jobs, Data = <<>>
  PROVE  \A i \in DOMAIN job.files : job.files[i].data = <<>>
<1> DEFINE g == UpTo("data")
           N == Len(job.files)
<1>1. /\ N \in Nat /\ DOMAIN job.files = 1 .. N
      /\ \A i \in 1 .. N : Sent!MemberOK(job.files[i]["data"])
  BY JobFiles
<1>2. /\ FilesUpTo(g, "data") /\ \A i \in 0 .. N : Sent!MemberOK(g[i])
  BY FilesRead
<1>3. /\ g[N] = <<>>
      /\ \A i \in 1 .. N : g[i] = g[i - 1] \o job.files[i]["data"]
  BY <1>2 DEF FilesUpTo, Data
<1> HIDE DEF g, N
<1>4. ASSUME NEW i \in 1 .. N
      PROVE  g[i] = <<>> => /\ g[i - 1] = <<>>
                            /\ job.files[i]["data"] = <<>>
  <2> DEFINE D == g[i - 1]
             E == job.files[i]["data"]
  <2>0. i - 1 \in 0 .. N
    BY <1>1
  <2>1. Sent!MemberOK(D) /\ Sent!MemberOK(E) /\ g[i] = D \o E
    BY <1>1, <1>2, <1>3, <2>0
  <2> HIDE DEF D, E
  <2>2. /\ Len(D \o E) = Len(D) + Len(E)
        /\ Len(D) \in Nat /\ Len(E) \in Nat
        /\ ((D = <<>>) <=> (Len(D) = 0)) /\ ((E = <<>>) <=> (Len(E) = 0))
    BY <2>1, Behind, MemberTypes
  <2>3. Len(<<>>) = 0
    OBVIOUS
  <2>4. g[i] = <<>> => D = <<>> /\ E = <<>>
    BY <2>1, <2>2, <2>3
  <2> QED BY <2>4 DEF D, E
<1>5. \A k \in Nat : k <= N => g[N - k] = <<>>
  <2> DEFINE S == {k \in Nat : k <= N => g[N - k] = <<>>}
  <2>1. 0 \in S
    BY <1>1, <1>3
  <2>2. ASSUME NEW j \in Nat, j \in S
        PROVE  j + 1 \in S
    <3> DEFINE k == j + 1
    <3>1. k \in Nat /\ N - j - 1 = N - k
      BY <1>1
    <3> SUFFICES ASSUME k <= N PROVE g[N - k] = <<>>
      BY <3>1
    <3>2. N - j \in 1 .. N /\ j <= N
      BY <1>1
    <3>3. g[N - j] = <<>>
      BY <2>2, <3>2
    <3>4. g[N - j - 1] = <<>>
      BY <1>4, <3>2, <3>3
    <3> HIDE DEF k
    <3> QED BY <3>1, <3>4
  <2>3. \A k \in Nat : k \in S
    <3> HIDE DEF S
    <3> QED BY <2>1, <2>2, Induction
  <2> QED BY <2>3
<1>6. ASSUME NEW i \in 1 .. N
      PROVE  job.files[i]["data"] = <<>>
  <2>1. N - i \in Nat /\ N - i <= N /\ N - (N - i) = i
    BY <1>1
  <2>2. g[i] = <<>>
    BY <1>5, <2>1
  <2> QED BY <1>4, <2>2
<1> QED BY <1>1, <1>6

-----------------------------------------------------------------------------
(* What the requests take of the data.                                     *)

LEMMA RestAdds ==
  ASSUME NEW a \in Nat, NEW b \in Nat, NEW n \in Nat \ {0}
  PROVE  ((a % n) + b) % n = (a + b) % n
<1> DEFINE q == a \div n
           r == a % n
<1>1. q \in Nat /\ r \in 0 .. n - 1 /\ a = n * q + r
  BY DivMod
<1> HIDE DEF q, r
<1> DEFINE c == r + b
<1>2. c \in Nat /\ r + b = c
  BY <1>1
<1> HIDE DEF c
<1> DEFINE e == c \div n
           s == c % n
<1>3. e \in Nat /\ s \in 0 .. n - 1 /\ c = n * e + s
  BY <1>2, DivMod
<1> HIDE DEF e
<1> DEFINE f == q + e
<1>4. f \in Nat /\ n * f = n * q + n * e /\ n * q \in Nat /\ n * e \in Nat
  BY <1>1, <1>3
<1> HIDE DEF f
<1>5. a + b = n * f + s
  BY <1>1, <1>2, <1>3, <1>4
<1> HIDE DEF s
<1>6. (n * f + s) % n = s
  BY <1>3, <1>4, QuotientIs
<1>7. (a + b) % n = s
  BY <1>5, <1>6
<1> QED BY <1>2, <1>7 DEF r, s

LEMMA StreamIs ==
  ASSUME NEW member, NEW D, D = Sent!Elements(member), Sent!MemberOK(D),
         NEW u \in 0 .. StreamCount(D) - 1
  PROVE  LET S == Sent!StreamOf(member, u)
         IN  /\ Len(S) = StepCount(D, u)
             /\ DOMAIN S = 1 .. StepCount(D, u)
             /\ \A k \in 0 .. StepCount(D, u) - 1 :
                   S[k + 1] = StepIn(D, u, k)
<1> DEFINE S == Sent!StreamOf(member, u)
<1>1. /\ Len(D) \in Nat /\ DOMAIN D = 1 .. Len(D)
      /\ \A i \in 1 .. Len(D) : DOMAIN D[i].steps = 1 .. Len(D[i].steps)
  BY MemberTypes
<1>2. D # <<>>
  BY CountTypes
<1>3. CASE D[1].array
  <2>1. S = D[u + 1].steps
    BY <1>2, <1>3 DEF Sent!StreamOf
  <2>2. u + 1 \in 1 .. Len(D)
    BY <1>1, <1>2, <1>3 DEF StreamCount
  <2> QED BY <1>1, <1>3, <2>1, <2>2 DEF StepCount, StepIn
<1>4. CASE ~D[1].array
  <2>1. S = [i \in 1 .. Len(D) |-> D[i].steps[1]]
    BY <1>1, <1>4 DEF Sent!StreamOf
  <2>2. StepCount(D, u) = Len(D)
    BY <1>4 DEF StepCount
  <2>3. \A k : StepIn(D, u, k) = D[k + 1].steps[1]
    BY <1>4 DEF StepIn
  <2> HIDE DEF S
  <2>4. Len(S) = Len(D) /\ DOMAIN S = 1 .. Len(D)
    BY <1>1, <2>1
  <2>5. ASSUME NEW k \in 0 .. Len(D) - 1
        PROVE  S[k + 1] = D[k + 1].steps[1]
    <3>1. k + 1 \in 1 .. Len(D)
      BY <1>1
    <3> QED BY <2>1, <3>1
  <2> QED BY <2>2, <2>3, <2>4, <2>5 DEF S
<1> QED BY <1>3, <1>4

LEMMA StepIs ==
  ASSUME NEW member, NEW D, D = Sent!Elements(member), Sent!MemberOK(D),
         NEW u \in 0 .. StreamCount(D) - 1, NEW pos \in Nat
  PROVE  /\ Has(D, u, pos % StepCount(D, u))
         /\ Sent!StepOf(member, u, pos)
              = StepIn(D, u, pos % StepCount(D, u))
<1> DEFINE T == StepCount(D, u)
           S == Sent!StreamOf(member, u)
           k == pos % T
<1>1. T \in Nat \ {0}
  BY CountTypes
<1>2. /\ Len(S) = T
      /\ \A j \in 0 .. T - 1 : S[j + 1] = StepIn(D, u, j)
  BY StreamIs
<1>3. Sent!StepOf(member, u, pos) = S[(pos % Len(S)) + 1]
  BY DEF Sent!StepOf
<1> HIDE DEF S
<1>4. Has(D, u, k)
  <2>1. k \in 0 .. T - 1
    <3> HIDE DEF T
    <3> QED BY <1>1, DivMod
  <2> QED BY <2>1 DEF Has
<1>5. k \in 0 .. T - 1
  BY <1>4 DEF Has
<1> QED BY <1>2, <1>3, <1>4, <1>5

\* The data loader holds all the data of the files.
Loaded == /\ Holds(loader, Data, Valid)
          /\ Sent!MemberOK(Data) /\ Sent!MemberOK(Valid)

LEMMA TotalSteps ==
  ASSUME Loaded
  PROVE  /\ loader.data_stream_cnt = StreamCount(Data)
         /\ \A u \in 0 .. StreamCount(Data) - 1 :
               Sent!GetTotalSteps(loader, u) = StepCount(Data, u)
<1>1. /\ Numbered(loader.step_num, Data)
      /\ loader.data_stream_cnt = StreamCount(Data)
      /\ StreamCount(Data) \in Nat
  BY CountTypes DEF Loaded, Holds
<1> QED BY <1>1 DEF Numbered, Sent!GetTotalSteps

LEMMA KeysAre ==
  ASSUME Loaded
  PROVE  \A n, u, k : <<n, u, k>> \in Sent!Keys <=>
                         n \in Inputs /\ Has(Data, u, k)
<1>1. /\ loader.data_stream_cnt = StreamCount(Data)
      /\ \A u \in 0 .. StreamCount(Data) - 1 :
            Sent!GetTotalSteps(loader, u) = StepCount(Data, u)
  BY TotalSteps
<1> SUFFICES ASSUME NEW n, NEW u, NEW k
             PROVE  <<n, u, k>> \in Sent!Keys <=>
                       n \in Inputs /\ Has(Data, u, k)
  OBVIOUS
<1>2. ASSUME <<n, u, k>> \in Sent!Keys
      PROVE  n \in Inputs /\ Has(Data, u, k)
  BY <1>1, <1>2 DEF Sent!Keys, Has
<1>3. ASSUME n \in Inputs, Has(Data, u, k)
      PROVE  <<n, u, k>> \in Sent!Keys
  BY <1>1, <1>3 DEF Sent!Keys, Has
<1> QED BY <1>2, <1>3

\* GetInputData finds what the step has.
Got(n, u, k) == IF n \in DOMAIN StepIn(Data, u, k)
                THEN Sent!Found(StepIn(Data, u, k)[n]) ELSE Sent!Missing

LEMMA InputIs ==
  ASSUME Loaded, NEW n \in Inputs, NEW u, NEW k, Has(Data, u, k)
  PROVE  Sent!GetInputData(loader, n, u, k, job.model) = Got(n, u, k)
<1>1. Filled(loader.input, Data, Inputs) /\ loader.input_buf = FALSE
  BY DEF Loaded, Holds
<1>2. /\ <<n, u, k>> \in DOMAIN loader.input <=>
            n \in DOMAIN StepIn(Data, u, k)
      /\ <<n, u, k>> \in DOMAIN loader.input =>
            loader.input[<<n, u, k>>] = StepIn(Data, u, k)[n]
  BY <1>1 DEF Filled
<1> QED BY <1>1, <1>2 DEF Sent!GetInputData, Got

LEMMA OutputIs ==
  ASSUME Loaded, Len(Valid) = Len(Data), NEW n \in Outputs, NEW u, NEW k,
         Has(Valid, u, k)
  PROVE  Sent!GetOutputData(loader, n, u, k)
           = Sent!Found(StepIn(Valid, u, k)[n])
<1>1. Filled(loader.output, Valid, Outputs) /\ Complete(Valid)
  BY DEF Loaded, Holds, HoldsExpected
<1>2. n \in DOMAIN StepIn(Valid, u, k)
  BY <1>1 DEF Complete
<1>3. /\ <<n, u, k>> \in DOMAIN loader.output
      /\ loader.output[<<n, u, k>>] = StepIn(Valid, u, k)[n]
  BY <1>1, <1>2 DEF Filled
<1> QED BY <1>3 DEF Sent!GetOutputData

Width(n) == IF n \in job.model.shape_tensors THEN 1 ELSE job.batch

\* The inputs of the step that a key names are prepared, as one batch.
Prepared(x) ==
    /\ Sent!BatchOk(x[1], x[2], x[3])
    /\ x \in DOMAIN prepared <=> Sent!BatchData(x[1], x[2], x[3])[1].valid
    /\ x \in DOMAIN prepared =>
          prepared[x] = Sent!Values(Sent!BatchData(x[1], x[2], x[3]))

AllPrepared == \A x \in Sent!Keys : Prepared(x)

\* The batch that starts at a position of a stream.
BatchFrom(n, u, k, pos) ==
    LET A == Sent!BatchSteps(n, u, k)
        B == Sent!BatchData(n, u, k)
        at(i) == (pos + (i - 1)) % StepCount(Data, u)
    IN  /\ DOMAIN A = 1 .. Width(n) /\ DOMAIN B = 1 .. Width(n)
        /\ 1 \in 1 .. Width(n)
        /\ \A i \in 1 .. Width(n) :
              /\ A[i] = at(i) /\ B[i] = Got(n, u, at(i))
              /\ Sent!StepOf("data", u, pos + i - 1)
                   = StepIn(Data, u, at(i))

LEMMA BatchIs ==
  ASSUME Loaded, NEW n \in Inputs, NEW u \in 0 .. StreamCount(Data) - 1,
         NEW pos \in Nat, job.batch \in Nat \ {0}, NEW k,
         k = pos % StepCount(Data, u)
  PROVE  BatchFrom(n, u, k, pos)
<1> DEFINE T == StepCount(Data, u)
           A == Sent!BatchSteps(n, u, k)
           B == Sent!BatchData(n, u, k)
           W == Width(n)
<1>1. /\ T \in Nat \ {0} /\ Sent!GetTotalSteps(loader, u) = T
      /\ Sent!MemberOK(Data)
  BY TotalSteps, CountTypes DEF Loaded
<1>2. W \in Nat /\ 1 \in 1 .. W
  BY DEF Width
<1>3. /\ A = [i \in 1 .. W |-> (k + i - 1) % T]
      /\ B = [i \in DOMAIN A |->
                Sent!GetInputData(loader, n, u, A[i], job.model)]
  BY <1>1 DEF Sent!BatchSteps, Sent!BatchData, Width
<1> HIDE DEF A, B, W, T
<1>4. DOMAIN A = 1 .. W /\ DOMAIN B = 1 .. W
  BY <1>3
<1>5. ASSUME NEW i \in 1 .. W
      PROVE  /\ A[i] = (pos + (i - 1)) % T
             /\ B[i] = Got(n, u, (pos + (i - 1)) % T)
             /\ Sent!StepOf("data", u, pos + i - 1)
                  = StepIn(Data, u, (pos + (i - 1)) % T)
  <2> DEFINE j == i - 1
             p == pos + j
  <2>1. j \in Nat /\ p \in Nat /\ pos + i - 1 = p /\ k + i - 1 = k + j
    BY <1>2
  <2>2. A[i] = (k + j) % T
    BY <1>3, <2>1
  <2>3. k = pos % T
    BY DEF T
  <2> HIDE DEF j
  <2>4. (k + j) % T = (pos + j) % T
    <3>1. ((pos % T) + j) % T = (pos + j) % T
      BY <1>1, <2>1, RestAdds
    <3> QED BY <2>3, <3>1
  <2>5. A[i] = p % T
    BY <2>2, <2>4
  <2> HIDE DEF p
  <2>6. /\ Has(Data, u, p % T)
        /\ Sent!StepOf("data", u, p) = StepIn(Data, u, p % T)
    BY <1>1, <2>1, StepIs DEF Data, T
  <2>7. B[i] = Got(n, u, p % T)
    BY <1>3, <1>4, <2>5, <2>6, InputIs
  <2> QED BY <2>1, <2>5, <2>6, <2>7 DEF p, j
<1> QED BY <1>2, <1>4, <1>5 DEF A, B, W, T, BatchFrom

\* A request with the inputs prepared for a step carries the data from there
\* on, and all inputs that are not optional.
LEMMA UpdateCarries ==
  ASSUME Loaded, AllPrepared, job.batch \in Nat \ {0},
         NEW u \in 0 .. StreamCount(Data) - 1, NEW pos \in Nat, NEW k,
         k = pos % StepCount(Data, u),
         NEW req, req.inputs = Sent!UpdateInputs(u, k)
  PROVE  /\ Sent!Carries(req, u, pos)
         /\ Inputs \ job.model.optional \subseteq DOMAIN req.inputs
<1> DEFINE T == StepCount(Data, u)
           at(i) == (pos + (i - 1)) % T
<1>1. /\ DOMAIN req.inputs
           = {m \in Inputs : <<m, u, k>> \in DOMAIN prepared}
      /\ \A n \in DOMAIN req.inputs : req.inputs[n] = prepared[<<n, u, k>>]
  BY DEF Sent!UpdateInputs
<1>2. Has(Data, u, k)
  BY StepIs DEF Loaded, Data
<1>3. ASSUME NEW n \in Inputs
      PROVE  /\ IF n \in DOMAIN req.inputs
                THEN /\ DOMAIN req.inputs[n] = 1 .. Width(n)
                     /\ \A i \in 1 .. Width(n) :
                           req.inputs[n][i]
                             = Sent!StepOf("data", u, pos + i - 1)[n].val
                ELSE \A i \in 1 .. Width(n) :
                        n \notin DOMAIN Sent!StepOf("data", u, pos + i - 1)
             /\ n \notin job.model.optional => n \in DOMAIN req.inputs
  <2> DEFINE x == <<n, u, k>>
             A == Sent!BatchSteps(n, u, k)
             B == Sent!BatchData(n, u, k)
             W == Width(n)
             st(i) == Sent!StepOf("data", u, pos + i - 1)
  <2>1. /\ DOMAIN A = 1 .. W /\ DOMAIN B = 1 .. W /\ 1 \in 1 .. W
        /\ \A i \in 1 .. W : /\ A[i] = at(i) /\ B[i] = Got(n, u, at(i))
                             /\ st(i) = StepIn(Data, u, at(i))
    <3>1. BatchFrom(n, u, k, pos)
      BY BatchIs
    <3> QED BY <3>1 DEF BatchFrom
  <2>2. /\ Sent!BatchOk(n, u, k)
        /\ x \in DOMAIN prepared <=> B[1].valid
        /\ x \in DOMAIN prepared => prepared[x] = Sent!Values(B)
    <3>1. x \in Sent!Keys
      BY <1>2, KeysAre
    <3>2. Prepared(x)
      BY <3>1 DEF AllPrepared
    <3> QED BY <3>2 DEF Prepared
  <2>3. \/ \A i \in DOMAIN B : B[i].valid
        \/ \A i \in DOMAIN B : ~B[i].valid
    BY <2>2 DEF Sent!BatchOk
  <2>4. \A i \in DOMAIN A : Sent!InputDataOk(loader, n, u, A[i], job.model)
    BY <2>2 DEF Sent!BatchOk
  <2>5. B[1] = Sent!GetInputData(loader, n, u, A[1], job.model)
    BY <2>1 DEF Sent!BatchData
  <2> HIDE DEF A, B, W, x, at, st
  <2>6. B[1].valid \/ n \in job.model.optional
    BY <2>1, <2>4, <2>5 DEF Sent!InputDataOk
  <2>7. \A i \in 1 .. W : /\ B[i].valid <=> n \in DOMAIN st(i)
                          /\ B[i].valid => B[i].val = st(i)[n].val
    BY <2>1 DEF Got, Sent!Found, Sent!Missing
  <2>8. n \in DOMAIN req.inputs <=> B[1].valid
    BY <1>1, <2>2 DEF x
  <2>9. ASSUME n \in DOMAIN req.inputs
        PROVE  /\ DOMAIN req.inputs[n] = 1 .. W
               /\ \A i \in 1 .. W : req.inputs[n][i] = st(i)[n].val
    <3>1. req.inputs[n] = Sent!Values(B)
      BY <1>1, <2>2, <2>8, <2>9 DEF x
    <3>2. \A i \in 1 .. W : B[i].valid
      BY <2>1, <2>3, <2>8, <2>9
    <3> QED BY <2>1, <2>7, <3>1, <3>2 DEF Sent!Values
  <2>10. ASSUME n \notin DOMAIN req.inputs
         PROVE  \A i \in 1 .. W : n \notin DOMAIN st(i)
    BY <2>1, <2>3, <2>7, <2>8, <2>10
  <2> QED BY <2>6, <2>8, <2>9, <2>10 DEF W, st
<1>4. Sent!Carries(req, u, pos)
  BY <1>3 DEF Sent!Carries, Width
<1>5. Inputs \ job.model.optional \subseteq DOMAIN req.inputs
  BY <1>3
<1> QED BY <1>4, <1>5

\* Where no stream is longer than the first, the expected outputs are those
\* of the same steps.
LEMMA UpdateExpects ==
  ASSUME Loaded, job.batch = 1, Sent!FirstIsLongest,
         NEW u \in 0 .. StreamCount(Data) - 1, NEW pos \in Nat, NEW k,
         k = pos % StepCount(Data, u),
         NEW req, req.expected = Sent!UpdateValidationOutputs(u, k)
  PROVE  Sent!Expects(req, u, pos)
<1> SUFFICES ASSUME Len(Valid) = Len(Data),
                    NEW n \in Outputs, NEW i \in 1 .. 1
             PROVE  req.expected[n][i]
                      = Sent!StepOf("validation", u, pos + i - 1)[n].val
  BY DEF Sent!Expects, Valid, Data
<1> DEFINE T == StepCount(Data, u)
<1>1. i = 1 /\ pos + i - 1 = pos
  OBVIOUS
<1>2. /\ Sent!MemberOK(Data) /\ Sent!MemberOK(Valid)
      /\ SameLayout(Data, Valid)
  BY DEF Loaded, Holds, HoldsExpected
<1>3. SameSteps(Data, Valid)
  BY <1>2, LayoutsAgree
<1>4. u \in 0 .. StreamCount(Valid) - 1 /\ StepCount(Valid, u) = T
  BY <1>3 DEF SameSteps
<1>5. /\ Has(Valid, u, k)
      /\ Sent!StepOf("validation", u, pos) = StepIn(Valid, u, k)
  BY <1>2, <1>4, StepIs DEF Valid
<1>6. \A m \in Outputs :
         Sent!GetOutputData(loader, m, u, k)
           = Sent!Found(StepIn(Valid, u, k)[m])
  BY <1>5, OutputIs
<1>7. (k + 1 - 1) % Sent!GetTotalSteps(loader, 0) = k
  <2>1. /\ T \in Nat \ {0} /\ 0 \in 0 .. StreamCount(Data) - 1
        /\ StreamCount(Data) \in Nat
    BY <1>2, CountTypes
  <2>2. /\ Sent!GetTotalSteps(loader, 0) = StepCount(Data, 0)
        /\ StepCount(Data, 0) \in Nat \ {0}
    BY <1>2, <2>1, TotalSteps, CountTypes
  <2>3. T <= StepCount(Data, 0)
    <3>1. CASE Data[1].array
      <4>1. /\ Len(Data) \in Nat /\ DOMAIN Data = 1 .. Len(Data)
            /\ Data # <<>>
        BY <1>2, <2>1, MemberTypes, CountTypes
      <4>2. u + 1 \in DOMAIN Data
        BY <3>1, <4>1 DEF StreamCount
      <4>3. Len(Data[u + 1].steps) <= Len(Data[1].steps)
        BY <3>1, <4>2 DEF Sent!FirstIsLongest, Data
      <4>4. 0 + 1 = 1
        OBVIOUS
      <4> QED BY <3>1, <4>3, <4>4 DEF StepCount
    <3>2. CASE ~Data[1].array
      <4>1. T = StepCount(Data, 0)
        BY <3>2 DEF StepCount
      <4> QED BY <2>1, <4>1
    <3> QED BY <3>1, <3>2
  <2>4. k \in 0 .. T - 1
    <3> HIDE DEF T
    <3>1. k = pos % T
      BY DEF T
    <3> QED BY <2>1, <3>1, DivMod
  <2> DEFINE F == StepCount(Data, 0)
  <2>5. F \in Nat \ {0} /\ k \in 0 .. F - 1 /\ k + 1 - 1 = k
    BY <2>1, <2>2, <2>3, <2>4
  <2> HIDE DEF F
  <2>6. k % F = k
    BY <2>5
  <2> QED BY <2>2, <2>5, <2>6 DEF F
<1>8. req.expected
        = [m \in {x \in Outputs : Sent!GetOutputData(loader, x, u, k).valid}
             |-> [j \in 1 .. 1 |-> Sent!GetOutputData(loader, m, u,
                       (k + j - 1) % Sent!GetTotalSteps(loader, 0)).val]]
  BY <1>7 DEF Sent!UpdateValidationOutputs
<1>9. /\ Sent!GetOutputData(loader, n, u, k).valid
       /\ Sent!GetOutputData(loader, n, u, k).val
            = StepIn(Valid, u, k)[n].val
  <2> DEFINE t == StepIn(Valid, u, k)[n]
  <2>1. Sent!GetOutputData(loader, n, u, k) = Sent!Found(t)
    BY <1>6
  <2> HIDE DEF t
  <2>2. Sent!Found(t).valid /\ Sent!Found(t).val = t.val
    BY DEF Sent!Found
  <2> QED BY <2>1, <2>2 DEF t
<1>10. n \in {x \in Outputs : Sent!GetOutputData(loader, x, u, k).valid}
  <2>1. Sent!GetOutputData(loader, n, u, k).valid
    BY <1>9
  <2> QED BY <2>1
<1>11. req.expected[n][1] = Sent!GetOutputData(loader, n, u,
                       (k + 1 - 1) % Sent!GetTotalSteps(loader, 0)).val
  BY <1>8, <1>10
<1>12. req.expected[n][1] = StepIn(Valid, u, k)[n].val
  <2>1. req.expected[n][1] = Sent!GetOutputData(loader, n, u, k).val
    BY <1>7, <1>11
  <2>2. Sent!GetOutputData(loader, n, u, k).val = StepIn(Valid, u, k)[n].val
    BY <1>9
  <2> QED BY <2>1, <2>2
<1> QED BY <1>1, <1>5, <1>12

-----------------------------------------------------------------------------
(* The data that are loaded, and the inputs that are prepared of them.     *)

FilesLoaded ==
    Sent!Json /\ stage \in {"load", "prepare", "run", "stop"} =>
        /\ read \in 0 .. Len(job.files)
        /\ Holds(loader, UpTo("data")[read], UpTo("validation")[read])
        /\ stage # "load" => read = Len(job.files)

NothingPrepared ==
    stage = "load" => prepared = <<>> /\ regions = Sent!NoRegions

RegionsPrepared ==
    stage = "prepare" /\ job.shm # "none" =>
        \A x \in Sent!Keys :
            /\ x \in DOMAIN prepared <=> x \in regions.owned
            /\ x \in regions.owned => Prepared(x)

LoadInv ==
    /\ job \in Jobs
    /\ FilesLoaded /\ NothingPrepared /\ RegionsPrepared
    /\ stage \in {"run", "stop"} => AllPrepared

LEMMA LoadInit ==
  ASSUME Sent!JobsOK, Sent!Init
  PROVE  LoadInv
<1>1. /\ job \in Jobs /\ stage = "load" /\ loader = Sent!EmptyLoader
      /\ read = 0 /\ prepared = <<>> /\ regions = Sent!NoRegions
  BY DEF Sent!Init
<1>2. Len(job.files) \in Nat
  BY <1>1, JobFiles
<1>3. UpTo("data")[0] = <<>> /\ UpTo("validation")[0] = <<>>
  BY <1>1, FilesRead DEF FilesUpTo
<1>4. FilesLoaded
  BY <1>1, <1>2, <1>3, EmptyHolds DEF FilesLoaded
<1> QED
  BY <1>1, <1>4 DEF LoadInv, NothingPrepared, RegionsPrepared

\* Everything loaded stays the same.
LEMMA SameFiles ==
  ASSUME job' = job, NEW member
  PROVE  UpTo(member)' = UpTo(member)
<1>1. Sent!Elements(member)' = Sent!Elements(member)
  BY DEF Sent!Elements
<1>2. ASSUME NEW g
      PROVE  FilesUpTo(g, member)' <=> FilesUpTo(g, member)
  BY <1>1 DEF FilesUpTo
<1> QED BY <1>1 DEF UpTo, FilesUpTo

LEMMA SameBatches ==
  ASSUME job' = job, loader' = loader
  PROVE  /\ Sent!Keys' = Sent!Keys
         /\ \A n, u, k :
               /\ Sent!BatchOk(n, u, k)' <=> Sent!BatchOk(n, u, k)
               /\ Sent!BatchData(n, u, k)' = Sent!BatchData(n, u, k)
<1>1. Sent!Keys' = Sent!Keys
  BY DEF Sent!Keys
<1>2. \A n, u, k : Sent!BatchSteps(n, u, k)' = Sent!BatchSteps(n, u, k)
  BY DEF Sent!BatchSteps
<1>3. \A n, u, k : Sent!BatchData(n, u, k)' = Sent!BatchData(n, u, k)
  BY <1>2 DEF Sent!BatchData
<1>4. \A n, u, k : Sent!ValidateShapeTensor(n, u, k)'
                     <=> Sent!ValidateShapeTensor(n, u, k)
  BY DEF Sent!ValidateShapeTensor
<1>5. \A n, u, k : Sent!BatchOk(n, u, k)' <=> Sent!BatchOk(n, u, k)
  BY <1>2, <1>3, <1>4 DEF Sent!BatchOk
<1> QED BY <1>1, <1>3, <1>5

LEMMA SamePrepared ==
  ASSUME UNCHANGED <<job, loader, prepared>>
  PROVE  /\ Sent!Keys' = Sent!Keys
         /\ \A x : Prepared(x)' <=> Prepared(x)
         /\ AllPrepared' <=> AllPrepared
<1>1. \A x : Prepared(x)' <=> Prepared(x)
  BY SameBatches DEF Prepared, Sent!Values
<1>2. Sent!Keys' = Sent!Keys
  BY SameBatches
<1> QED BY <1>1, <1>2 DEF AllPrepared

LEMMA LoadReads ==
  ASSUME Sent!JobsOK, LoadInv, Sent!ReadDataFromJSON
  PROVE  LoadInv'
<1> DEFINE f == job.files[read + 1]
           d == UpTo("data")
           v == UpTo("validation")
<1>1. /\ stage = "load" /\ Sent!Json /\ read < Len(job.files)
      /\ loader' = Sent!ParseData(loader, f, job.model)
      /\ read' = read + 1 /\ job' = job
      /\ prepared' = prepared /\ regions' = regions
      /\ stage' = IF loader'.ok
                  THEN (IF read' = Len(job.files) THEN "prepare" ELSE "load")
                  ELSE "destroy"
  BY DEF Sent!ReadDataFromJSON
<1>2. /\ job \in Jobs /\ read \in 0 .. Len(job.files)
      /\ Holds(loader, d[read], v[read])
      /\ prepared = <<>> /\ regions = Sent!NoRegions
  BY <1>1 DEF LoadInv, FilesLoaded, NothingPrepared
<1>3. Len(job.files) \in Nat /\ DOMAIN job.files = 1 .. Len(job.files)
  BY <1>2, JobFiles
<1>4. /\ read' \in 1 .. Len(job.files) /\ read \in 0 .. Len(job.files)
      /\ read' \in 0 .. Len(job.files) /\ read = read' - 1
  BY <1>1, <1>2, <1>3
<1>5. ASSUME loader'.ok
      PROVE  Holds(loader', d[read'], v[read'])
  <2> DEFINE E == f.data
             W == f.validation
  <2>1. /\ Sent!MemberOK(d[read]) /\ Sent!MemberOK(v[read])
        /\ d[read'] = d[read] \o E /\ v[read'] = v[read] \o W
    BY <1>1, <1>2, <1>4, FilesRead DEF FilesUpTo
  <2>2. Sent!MemberOK(E) /\ Sent!MemberOK(W)
    BY <1>1, <1>2, <1>4, JobFiles
  <2> HIDE DEF f, d, v
  <2> QED BY <1>1, <1>2, <1>5, <2>1, <2>2, ParseHolds
<1>6. FilesLoaded'
  <2>1. d' = d /\ v' = v
    BY <1>1, SameFiles
  <2>2. stage' \in {"load", "prepare", "run", "stop"} => loader'.ok
    BY <1>1
  <2>3. stage' # "load" /\ loader'.ok => read' = Len(job.files)
    BY <1>1
  <2> HIDE DEF d, v, f
  <2>4. job'.files = job.files
    BY <1>1
  <2> QED BY <1>4, <1>5, <2>1, <2>2, <2>3, <2>4 DEF FilesLoaded, d, v
<1>7. NothingPrepared'
  BY <1>1, <1>2 DEF NothingPrepared, Sent!NoRegions
<1>8. RegionsPrepared'
  <2>1. prepared' = <<>> /\ regions'.owned = {}
    BY <1>1, <1>2 DEF Sent!NoRegions
  <2>2. DOMAIN <<>> = {}
    OBVIOUS
  <2> QED BY <2>1, <2>2 DEF RegionsPrepared
<1>9. stage' \notin {"run", "stop"} /\ job' \in Jobs
  BY <1>1, <1>2
<1> QED BY <1>6, <1>7, <1>8, <1>9 DEF LoadInv

LEMMA LoadGenerates ==
  ASSUME LoadInv, Sent!ReadOrGenerate
  PROVE  LoadInv'
<1>1. /\ stage = "load" /\ ~Sent!Json /\ job' = job
      /\ prepared' = prepared /\ regions' = regions
      /\ stage' \in {"prepare", "destroy"}
  BY DEF Sent!ReadOrGenerate
<1>2. job \in Jobs /\ prepared = <<>> /\ regions = Sent!NoRegions
  BY <1>1 DEF LoadInv, NothingPrepared
<1>3. FilesLoaded' /\ NothingPrepared'
  BY <1>1 DEF FilesLoaded, NothingPrepared, Sent!Json
<1>4. RegionsPrepared'
  <2>1. prepared' = <<>> /\ regions'.owned = {}
    BY <1>1, <1>2 DEF Sent!NoRegions
  <2>2. DOMAIN <<>> = {}
    OBVIOUS
  <2> QED BY <2>1, <2>2 DEF RegionsPrepared
<1> QED BY <1>1, <1>2, <1>3, <1>4 DEF LoadInv

\* What preparing the inputs leaves as it is.
LEMMA FilesStay ==
  ASSUME LoadInv, UNCHANGED <<job, loader, read>>,
         stage \in {"prepare", "run", "stop"},
         stage' \in {"prepare", "run", "stop", "destroy", "end"}
  PROVE  job' \in Jobs /\ FilesLoaded' /\ NothingPrepared'
<1>1. UpTo("data")' = UpTo("data") /\ UpTo("validation")' = UpTo("validation")
  BY SameFiles
<1>2. job' \in Jobs /\ NothingPrepared'
  BY DEF LoadInv, NothingPrepared
<1>3. FilesLoaded'
  <2> SUFFICES ASSUME Sent!Json', stage' \in {"prepare", "run", "stop"}
               PROVE  /\ read' \in 0 .. Len(job'.files)
                      /\ Holds(loader', UpTo("data")'[read'],
                               UpTo("validation")'[read'])
                      /\ read' = Len(job'.files)
    BY DEF FilesLoaded
  <2>1. Sent!Json
    BY DEF Sent!Json
  <2>2. /\ read \in 0 .. Len(job.files) /\ read = Len(job.files)
        /\ Holds(loader, UpTo("data")[read], UpTo("validation")[read])
    BY <2>1 DEF LoadInv, FilesLoaded
  <2> QED BY <1>1, <2>2
<1> QED BY <1>2, <1>3

LEMMA LoadInitInputs ==
  ASSUME LoadInv, Sent!InitInputs
  PROVE  LoadInv'
<1>1. /\ stage = "prepare" /\ job.shm = "none"
      /\ UNCHANGED <<job, loader, read>>
      /\ stage' \in {"run", "destroy"}
  BY DEF Sent!InitInputs
<1>2. job' \in Jobs /\ FilesLoaded' /\ NothingPrepared'
  BY <1>1, FilesStay
<1>3. RegionsPrepared'
  BY <1>1 DEF RegionsPrepared
<1>4. ASSUME stage' = "run"
      PROVE  AllPrepared'
  <2> DEFINE B(x) == Sent!BatchData(x[1], x[2], x[3])
  <2>1. /\ \A k \in Sent!Keys : Sent!BatchOk(k[1], k[2], k[3])
        /\ prepared' = [k \in {j \in Sent!Keys : B(j)[1].valid}
                          |-> Sent!Values(B(k))]
    BY <1>4 DEF Sent!InitInputs
  <2>2. /\ Sent!Keys' = Sent!Keys
        /\ \A n, u, k :
              /\ Sent!BatchOk(n, u, k)' <=> Sent!BatchOk(n, u, k)
              /\ Sent!BatchData(n, u, k)' = Sent!BatchData(n, u, k)
    BY <1>1, SameBatches
  <2>3. ASSUME NEW x \in Sent!Keys
        PROVE  Prepared(x)'
    <3>1. /\ x \in DOMAIN prepared' <=> B(x)[1].valid
          /\ x \in DOMAIN prepared' => prepared'[x] = Sent!Values(B(x))
      BY <2>1
    <3>2. B(x)' = B(x) /\ Sent!BatchOk(x[1], x[2], x[3])'
      BY <2>1, <2>2
    <3> QED BY <3>1, <3>2 DEF Prepared, Sent!Values
  <2> QED BY <2>2, <2>3 DEF AllPrepared
<1> QED BY <1>1, <1>2, <1>3, <1>4 DEF LoadInv

LEMMA LoadInitRegion ==
  ASSUME LoadInv, Sent!InitRegion
  PROVE  LoadInv'
<1>1. /\ stage = "prepare" /\ job.shm # "none"
      /\ UNCHANGED <<job, loader, read>>
      /\ stage' \in {"prepare", "destroy"}
  BY DEF Sent!InitRegion
<1>2. job' \in Jobs /\ FilesLoaded' /\ NothingPrepared'
  BY <1>1, FilesStay
<1>3. ASSUME stage' = "prepare"
      PROVE  \A x \in Sent!Keys' :
                /\ x \in DOMAIN prepared' <=> x \in regions'.owned
                /\ x \in regions'.owned => Prepared(x)'
  <2>1. PICK r \in Sent!NextRegions :
          /\ Sent!RegionOk(r)
          /\ regions' = Sent!CreateMemoryRegion(r, 3)
          /\ prepared' = IF r \in Sent!Keys
                         THEN Sent!Extended(prepared, [x \in {r} |->
                            Sent!Values(Sent!BatchData(r[1], r[2], r[3]))])
                         ELSE prepared
    <3>1. PICK r \in Sent!NextRegions, done \in 0 .. 3,
               copied \in BOOLEAN :
            /\ Sent!RegionOk(r)
            /\ regions' = Sent!CreateMemoryRegion(r, done)
            /\ prepared' = IF done = 3 /\ copied /\ r \in Sent!Keys
                           THEN Sent!Extended(prepared, [x \in {r} |->
                              Sent!Values(Sent!BatchData(r[1], r[2], r[3]))])
                           ELSE prepared
            /\ stage' = IF done = 3 /\ copied THEN stage ELSE "destroy"
      BY <1>1, <1>3 DEF Sent!InitRegion, Sent!CopySharedMemory
    <3>2. done = 3 /\ copied
      BY <1>3, <3>1
    <3> QED BY <3>1, <3>2
  <2>2. regions'.owned = regions.owned \cup {r}
    BY <2>1 DEF Sent!CreateMemoryRegion
  <2>3. /\ Sent!Keys' = Sent!Keys
        /\ \A n, u, k :
              /\ Sent!BatchOk(n, u, k)' <=> Sent!BatchOk(n, u, k)
              /\ Sent!BatchData(n, u, k)' = Sent!BatchData(n, u, k)
    BY <1>1, SameBatches
  <2>4. \A x \in Sent!Keys :
            /\ x \in DOMAIN prepared <=> x \in regions.owned
            /\ x \in regions.owned => Prepared(x)
    BY <1>1 DEF LoadInv, RegionsPrepared
  <2>5. ASSUME NEW x \in Sent!Keys
        PROVE  /\ x \in DOMAIN prepared' <=> x \in regions'.owned
               /\ x \in regions'.owned => Prepared(x)'
    <3> DEFINE B == Sent!BatchData(x[1], x[2], x[3])
               new == [y \in {r} |->
                         Sent!Values(Sent!BatchData(r[1], r[2], r[3]))]
    <3>1. /\ B' = B
          /\ Sent!BatchOk(x[1], x[2], x[3])'
               <=> Sent!BatchOk(x[1], x[2], x[3])
      BY <2>3
    <3>2. r \in Sent!Keys => prepared' = Sent!Extended(prepared, new)
      BY <2>1
    <3>3. DOMAIN new = {r} /\ (x = r => new[x] = Sent!Values(B))
      OBVIOUS
    <3>4. r \notin Sent!Keys => prepared' = prepared
      BY <2>1
    <3> HIDE DEF new
    <3>5. CASE x = r
      <4>1. prepared' = Sent!Extended(prepared, new)
        BY <3>2, <3>5
      <4>2. x \in DOMAIN prepared' /\ x \in regions'.owned
        BY <2>2, <3>3, <3>5, <4>1 DEF Sent!Extended
      <4>3. Sent!BatchOk(x[1], x[2], x[3]) /\ B[1].valid
        BY <2>1, <3>5 DEF Sent!RegionOk
      <4>4. prepared'[x] = Sent!Values(B)
        <5>1. CASE x \in DOMAIN prepared
          <6>1. prepared[x] = Sent!Values(B)
            BY <2>4, <5>1 DEF Prepared
          <6> QED BY <4>1, <5>1, <6>1 DEF Sent!Extended
        <5>2. CASE x \notin DOMAIN prepared
          BY <3>3, <3>5, <4>1, <5>2 DEF Sent!Extended
        <5> QED BY <5>1, <5>2
      <4> QED BY <3>1, <4>2, <4>3, <4>4 DEF Prepared, Sent!Values
    <3>6. CASE x # r
      <4>1. x \in regions'.owned <=> x \in regions.owned
        BY <2>2, <3>6
      <4>2. /\ x \in DOMAIN prepared' <=> x \in DOMAIN prepared
            /\ x \in DOMAIN prepared => prepared'[x] = prepared[x]
        BY <3>2, <3>3, <3>4, <3>6 DEF Sent!Extended
      <4>3. x \in regions.owned => Prepared(x)
        BY <2>4
      <4>4. x \in DOMAIN prepared' <=> x \in regions'.owned
        BY <2>4, <4>1, <4>2
      <4>5. Prepared(x) => Prepared(x)'
        BY <3>1, <4>2 DEF Prepared, Sent!Values
      <4> QED BY <4>1, <4>3, <4>4, <4>5
    <3> QED BY <3>5, <3>6
  <2> QED BY <2>3, <2>5
<1>4. RegionsPrepared'
  BY <1>3 DEF RegionsPrepared
<1> QED BY <1>1, <1>2, <1>4 DEF LoadInv

LEMMA LoadRegionsReady ==
  ASSUME LoadInv, Sent!RegionsReady
  PROVE  LoadInv'
<1>1. /\ stage = "prepare" /\ job.shm # "none" /\ Sent!NextRegions = {}
      /\ UNCHANGED <<job, loader, read, prepared>> /\ stage' = "run"
  BY DEF Sent!RegionsReady
<1>2. job' \in Jobs /\ FilesLoaded' /\ NothingPrepared'
  BY <1>1, FilesStay
<1>3. RegionsPrepared'
  BY <1>1 DEF RegionsPrepared
<1>4. Sent!Keys \subseteq regions.owned
  BY <1>1 DEF Sent!NextRegions
<1>5. AllPrepared
  BY <1>1, <1>4 DEF LoadInv, RegionsPrepared, AllPrepared
<1>6. AllPrepared'
  BY <1>1, <1>5, SamePrepared
<1> QED BY <1>1, <1>2, <1>3, <1>6 DEF LoadInv

\* The steps after the inputs are prepared.
WorkerStep ==
    \/ \E t \in Sent!Threads : Sent!InitContext(t) \/ Sent!SendInferRequest(t)
    \/ \E s \in Sent!Slots : \/ Sent!TakeSeqId(s) \/ Sent!CompareSeqId(s)
                             \/ Sent!BeginSequence(s)
                             \/ Sent!ContinueSequence(s)
                             \/ Sent!CompleteOngoingSequence(s)

LEMMA LoadStays ==
  ASSUME LoadInv, UNCHANGED <<job, loader, read, prepared>>,
         \/ UNCHANGED <<stage, regions>>
         \/ /\ stage \in {"run", "stop", "destroy"}
            /\ stage' \in {"stop", "destroy", "end"}
            /\ stage' = "stop" => stage = "run"
  PROVE  LoadInv'
<1>1. /\ Sent!Keys' = Sent!Keys
      /\ \A x : Prepared(x)' <=> Prepared(x)
      /\ AllPrepared' <=> AllPrepared
  BY SamePrepared
<1>2. UpTo("data")' = UpTo("data") /\ UpTo("validation")' = UpTo("validation")
  BY SameFiles
<1>3. CASE UNCHANGED <<stage, regions>>
  <2>1. FilesLoaded'
    BY <1>2, <1>3 DEF LoadInv, FilesLoaded, Sent!Json
  <2>2. NothingPrepared'
    BY <1>3 DEF LoadInv, NothingPrepared, Sent!NoRegions
  <2>3. RegionsPrepared'
    BY <1>1, <1>3 DEF LoadInv, RegionsPrepared
  <2> QED BY <1>1, <1>3, <2>1, <2>2, <2>3 DEF LoadInv
<1>4. CASE /\ stage \in {"run", "stop", "destroy"}
           /\ stage' \in {"stop", "destroy", "end"}
           /\ stage' = "stop" => stage = "run"
  <2>1. FilesLoaded'
    BY <1>2, <1>4 DEF LoadInv, FilesLoaded, Sent!Json
  <2>2. NothingPrepared' /\ RegionsPrepared'
    BY <1>4 DEF NothingPrepared, RegionsPrepared
  <2>3. stage' \in {"run", "stop"} => AllPrepared'
    BY <1>1, <1>4 DEF LoadInv
  <2> QED BY <2>1, <2>2, <2>3 DEF LoadInv
<1> QED BY <1>3, <1>4

LEMMA LoadStep ==
  ASSUME Sent!JobsOK, LoadInv, [Sent!Next]_Sent!vars
  PROVE  LoadInv'
<1>1. CASE WorkerStep \/ Sent!Ended \/ UNCHANGED Sent!vars
  <2>1. UNCHANGED <<job, stage, loader, read, prepared, regions>>
    BY <1>1 DEF WorkerStep, Sent!InitContext, Sent!SendInferRequest,
         Sent!TakeSeqId, Sent!CompareSeqId, Sent!BeginSequence,
         Sent!ContinueSequence, Sent!CompleteOngoingSequence, Sent!Ended,
         Sent!vars
  <2> QED BY <2>1, LoadStays
<1>2. CASE Sent!Stop \/ Sent!Joined \/ Sent!Destroy
  <2>1. /\ UNCHANGED <<job, loader, read, prepared>>
        /\ stage \in {"run", "stop", "destroy"}
        /\ stage' \in {"stop", "destroy", "end"}
        /\ stage' = "stop" => stage = "run"
    BY <1>2 DEF Sent!Stop, Sent!Joined, Sent!Destroy
  <2> QED BY <2>1, LoadStays
<1> QED
  BY <1>1, <1>2, LoadReads, LoadGenerates, LoadInitInputs, LoadInitRegion,
     LoadRegionsReady DEF Sent!Next, WorkerStep

\* In the run everything is loaded and prepared.
LEMMA LoadImplies ==
  ASSUME Sent!JobsOK, LoadInv, Sent!Json, stage \in {"run", "stop"}
  PROVE  Loaded /\ AllPrepared
<1>1. /\ job \in Jobs /\ read = Len(job.files) /\ AllPrepared
      /\ Holds(loader, UpTo("data")[read], UpTo("validation")[read])
  BY DEF LoadInv, FilesLoaded
<1>2. /\ UpTo("data")[Len(job.files)] = Data
      /\ UpTo("validation")[Len(job.files)] = Valid
      /\ Sent!MemberOK(Data) /\ Sent!MemberOK(Valid)
  BY <1>1, FilesRead DEF FilesUpTo, Data, Valid
<1> QED BY <1>1, <1>2 DEF Loaded

-----------------------------------------------------------------------------
(* The requests of the contexts and of the sequences.                      *)

ContextFields == {"data_step_id", "ready", "ok", "sent", "req"}
RequestFields == {"inputs", "expected", "stream", "pos", "start", "end"}

\* A context has sent every threads-th batch up to its step, and its last
\* request carries the last of them.
ContextOK(t, c) ==
    /\ c = [f \in ContextFields |-> c[f]] /\ c.sent \in Nat
    /\ c.req = [f \in RequestFields |-> c.req[f]]
    /\ c.data_step_id = t + c.sent * job.threads
    /\ c.ready /\ c.ok => Data # <<>>
    /\ c.sent > 0 =>
          /\ c.ready /\ c.req.pos \in Nat /\ c.req.pos = c.sent - 1
          /\ Sent!Carries(c.req, 0,
                          (t + c.req.pos * job.threads) * job.batch)

RequestOK(req) ==
    /\ Sent!Carries(req, req.stream, req.pos)
    /\ Sent!FirstIsLongest => Sent!Expects(req, req.stream, req.pos)

\* A sequence that is open goes through a stream from its first step on.
SequenceOK(st) ==
    /\ st.remaining \in Nat
    /\ st.phase # "idle" \/ st.remaining > 0 => job.sequence
    /\ st.remaining > 0 =>
          /\ st.length \in Nat /\ st.length = st.count + st.remaining
          /\ st.data_stream_id \in 0 .. StreamCount(Data) - 1
    /\ st.req # Sent!NoRequest => RequestOK(st.req)

\* A batch of the data has been sent.
Covered(t, j) ==
    \A n \in Inputs \ job.model.optional, i \in 1 .. job.batch :
        n \notin job.model.shape_tensors =>
            Sent!StepOf("data", 0, (t + j * job.threads) * job.batch
                                     + i - 1)[n].val \in used[n]

RequestsInv ==
    /\ job \in Jobs
    /\ Sent!Json =>
          /\ ctx = [t \in Sent!Threads |-> ctx[t]]
          /\ \A t \in Sent!Threads : ContextOK(t, ctx[t])
          /\ \A s \in Sent!Slots : SequenceOK(seq[s])
          /\ \A t \in Sent!Threads : \A j \in Nat :
                j < ctx[t].sent => Covered(t, j)

\* What depends on the job alone.
Same ==
    /\ Sent!Threads' = Sent!Threads /\ Sent!Slots' = Sent!Slots
    /\ Sent!Json' <=> Sent!Json
    /\ Data' = Data
    /\ \A m, u, p : Sent!StepOf(m, u, p)' = Sent!StepOf(m, u, p)
    /\ \A req, u, p : Sent!Carries(req, u, p)' <=> Sent!Carries(req, u, p)
    /\ \A req, u, p : Sent!Expects(req, u, p)' <=> Sent!Expects(req, u, p)
    /\ Sent!FirstIsLongest' <=> Sent!FirstIsLongest

LEMMA SameJob == job' = job => Same
<1> SUFFICES ASSUME job' = job PROVE Same
  OBVIOUS
<1>1. /\ Sent!Threads' = Sent!Threads /\ Sent!Slots' = Sent!Slots
      /\ Sent!Json' <=> Sent!Json
  BY DEF Sent!Threads, Sent!Slots, Sent!Json
<1>2. \A m : Sent!Elements(m)' = Sent!Elements(m)
  BY DEF Sent!Elements
<1>3. \A m, u : Sent!StreamOf(m, u)' = Sent!StreamOf(m, u)
  BY <1>2 DEF Sent!StreamOf
<1>4. \A m, u, p : Sent!StepOf(m, u, p)' = Sent!StepOf(m, u, p)
  BY <1>3 DEF Sent!StepOf
<1>5. \A req, u, p : Sent!Carries(req, u, p)' <=> Sent!Carries(req, u, p)
  BY <1>4 DEF Sent!Carries
<1>6. \A req, u, p : Sent!Expects(req, u, p)' <=> Sent!Expects(req, u, p)
  BY <1>2, <1>4 DEF Sent!Expects
<1>7. Data' = Data /\ (Sent!FirstIsLongest' <=> Sent!FirstIsLongest)
  BY <1>2 DEF Data, Sent!FirstIsLongest
<1> QED BY <1>1, <1>4, <1>5, <1>6, <1>7 DEF Same

LEMMA SameRequests ==
  ASSUME job' = job
  PROVE  /\ \A t, c : ContextOK(t, c)' <=> ContextOK(t, c)
         /\ \A st : SequenceOK(st)' <=> SequenceOK(st)
<1>0. /\ Data' = Data
      /\ \A req, u, p : Sent!Carries(req, u, p)' <=> Sent!Carries(req, u, p)
      /\ \A req, u, p : Sent!Expects(req, u, p)' <=> Sent!Expects(req, u, p)
      /\ Sent!FirstIsLongest' <=> Sent!FirstIsLongest
  <2>1. Same
    BY SameJob
  <2> QED BY <2>1 DEF Same
<1>1. \A t, c : ContextOK(t, c)' <=> ContextOK(t, c)
  BY <1>0 DEF ContextOK
<1>2. \A req : RequestOK(req)' <=> RequestOK(req)
  BY <1>0 DEF RequestOK
<1>3. \A st : SequenceOK(st)' <=> SequenceOK(st)
  BY <1>0, <1>2 DEF SequenceOK, Sent!NoRequest, StreamCount
<1> QED BY <1>1, <1>3

\* What has been sent stays sent.
LEMMA CoveredStays ==
  ASSUME job' = job, \A n \in Inputs : used[n] \subseteq used'[n]
  PROVE  \A t, j : Covered(t, j) => Covered(t, j)'
<1> SUFFICES ASSUME NEW t, NEW j, Covered(t, j),
                    NEW n \in Inputs \ job.model.optional,
                    NEW i \in 1 .. job.batch,
                    n \notin job.model.shape_tensors
             PROVE  Sent!StepOf("data", 0, (t + j * job.threads) * job.batch
                                             + i - 1)'[n].val \in used'[n]
  BY DEF Covered
<1> DEFINE p == (t + j * job.threads) * job.batch + i - 1
<1>1. Sent!StepOf("data", 0, p)[n].val \in used[n]
  BY DEF Covered
<1>2. Sent!StepOf("data", 0, p)' = Sent!StepOf("data", 0, p)
  <2>1. p' = p
    OBVIOUS
  <2> HIDE DEF p
  <2>2. Same
    BY SameJob
  <2> QED BY <2>1, <2>2 DEF Same
<1> QED BY <1>1, <1>2

LEMMA RequestsInit ==
  ASSUME Sent!JobsOK, Sent!Init
  PROVE  RequestsInv
<1>1. /\ job \in Jobs /\ ctx = [t \in Sent!Threads |-> Sent!NewContext(t)]
      /\ seq = [s \in Sent!Slots |-> Sent!NewSequenceStatus]
  BY DEF Sent!Init
<1>2. job.threads \in Nat
  BY <1>1 DEF Sent!JobsOK
<1>3. ASSUME NEW t \in Sent!Threads
      PROVE  ContextOK(t, ctx[t]) /\ ctx[t].sent = 0
  <2>1. ctx[t] = [data_step_id |-> t, ready |-> FALSE, ok |-> TRUE,
                  sent |-> 0, req |-> Sent!NoRequest]
    BY <1>1, <1>3 DEF Sent!NewContext
  <2>2. t + 0 * job.threads = t
    BY <1>2 DEF Sent!Threads
  <2>3. Sent!NoRequest = [f \in RequestFields |-> Sent!NoRequest[f]]
    BY DEF Sent!NoRequest, RequestFields
  <2>4. ~(0 > 0) /\ 0 \in Nat
    OBVIOUS
  <2> DEFINE c == ctx[t]
  <2>5. /\ c = [f \in ContextFields |-> c[f]] /\ c.sent = 0
        /\ c.data_step_id = t /\ c.ready = FALSE /\ c.req = Sent!NoRequest
    BY <2>1 DEF ContextFields
  <2> HIDE DEF c
  <2>6. ContextOK(t, c)
    BY <2>2, <2>3, <2>4, <2>5 DEF ContextOK
  <2> QED BY <2>5, <2>6 DEF c
<1>4. ASSUME NEW s \in Sent!Slots
      PROVE  SequenceOK(seq[s])
  <2>1. /\ seq[s].remaining = 0 /\ seq[s].phase = "idle"
        /\ seq[s].req = Sent!NoRequest
    BY <1>1 DEF Sent!NewSequenceStatus
  <2>2. ~(0 > 0) /\ 0 \in Nat
    OBVIOUS
  <2> QED BY <2>1, <2>2 DEF SequenceOK
<1>5. ctx = [t \in Sent!Threads |-> ctx[t]]
  BY <1>1
<1>6. \A j \in Nat : ~(j < 0)
  OBVIOUS
<1> QED BY <1>1, <1>3, <1>4, <1>5, <1>6 DEF RequestsInv

\* A request can be made ready only if there are data.
LEMMA ReadyHasData ==
  ASSUME Sent!JobsOK, job \in Jobs, Sent!Json, Loaded, Sent!InitInferDataOk
  PROVE  Data # <<>>
<1> SUFFICES ASSUME Data = <<>> PROVE FALSE
  OBVIOUS
<1>1. \A u, k : ~Has(Data, u, k)
  <2>1. StreamCount(Data) = 0 /\ \A u : u \notin 0 .. 0 - 1
    BY DEF StreamCount
  <2> QED BY <2>1 DEF Has
<1>2. Filled(loader.input, Data, Inputs) /\ loader.input_buf = FALSE
  BY DEF Loaded, Holds
<1>3. \A n : <<n, 0, 0>> \notin DOMAIN loader.input
  BY <1>1, <1>2 DEF Filled
<1>4. \A n \in Inputs :
         Sent!GetInputData(loader, n, 0, 0, job.model) = Sent!Missing
  BY <1>2, <1>3 DEF Sent!GetInputData
<1>5. ASSUME NEW n \in Inputs
      PROVE  n \in job.model.optional
  <2>1. ~Sent!GetInputData(loader, n, 0, 0, job.model).valid
    BY <1>4 DEF Sent!Missing
  <2> QED BY <2>1 DEF Sent!InitInferDataOk, Sent!InputDataOk
<1>6. \E i \in DOMAIN job.files : job.files[i].data # <<>>
  BY <1>5 DEF Sent!JobsOK, Sent!Json
<1> QED BY <1>6, SomeData

\* The steps of the workers leave everything else as it is.
LEMMA OthersKeep ==
  ASSUME RequestsInv, job' = job, Sent!Json,
         ctx' = [t \in Sent!Threads |-> ctx'[t]],
         \A t \in Sent!Threads : ContextOK(t, ctx'[t]),
         \A s \in Sent!Slots : SequenceOK(seq'[s]),
         \A n \in Inputs : used[n] \subseteq used'[n],
         \A t \in Sent!Threads : \A j \in Nat :
            j < ctx'[t].sent => Covered(t, j) \/ Covered(t, j)'
  PROVE  RequestsInv'
<1>1. Sent!Threads' = Sent!Threads /\ Sent!Slots' = Sent!Slots
  <2>1. Same
    BY SameJob
  <2> QED BY <2>1 DEF Same
<1>2. /\ \A t \in Sent!Threads : ContextOK(t, ctx[t])'
      /\ \A s \in Sent!Slots : SequenceOK(seq[s])'
  <2>1. /\ \A t, c : ContextOK(t, c)' <=> ContextOK(t, c)
        /\ \A st : SequenceOK(st)' <=> SequenceOK(st)
    BY SameRequests
  <2>2. \A t \in Sent!Threads : ContextOK(t, ctx[t])'
    <3> SUFFICES ASSUME NEW t \in Sent!Threads PROVE ContextOK(t, ctx[t])'
      OBVIOUS
    <3> DEFINE c == ctx'[t]
    <3>1. ContextOK(t, c)
      OBVIOUS
    <3> QED BY <1>1, <3>1, SameJob DEF ContextOK, Same
  <2>3. \A s \in Sent!Slots : SequenceOK(seq[s])'
    BY <2>1
  <2> QED BY <2>2, <2>3
<1>3. \A t \in Sent!Threads : \A j \in Nat :
         j < ctx'[t].sent => Covered(t, j)'
  BY CoveredStays
<1> QED BY <1>1, <1>2, <1>3 DEF RequestsInv

LEMMA RequestsInitContext ==
  ASSUME Sent!JobsOK, LoadInv, RequestsInv, Sent!Json,
         NEW t \in Sent!Threads, Sent!InitContext(t)
  PROVE  RequestsInv'
<1> DEFINE req == IF Sent!InitInferDataOk
                  THEN [ctx[t].req EXCEPT !.inputs = Sent!InitInferData]
                  ELSE ctx[t].req
           c == [ctx[t] EXCEPT !.ready = TRUE, !.ok = Sent!InitInferDataOk,
                               !.req = req]
<1>1. /\ job' = job /\ seq' = seq /\ used' = used
      /\ stage = "run" /\ ~ctx[t].ready
  BY DEF Sent!InitContext
<1>2. /\ ctx = [x \in Sent!Threads |-> ctx[x]] /\ ContextOK(t, ctx[t])
      /\ job \in Jobs
  BY DEF RequestsInv
<1>3. /\ ctx[t] = [f \in ContextFields |-> ctx[t][f]]
      /\ ctx[t].req = [f \in RequestFields |-> ctx[t].req[f]]
      /\ ctx[t].data_step_id = t + ctx[t].sent * job.threads
      /\ ctx[t].sent \in Nat /\ ~(ctx[t].sent > 0)
  BY <1>1, <1>2 DEF ContextOK
<1>4. ctx' = [ctx EXCEPT ![t] = c]
  BY <1>2, <1>3 DEF Sent!InitContext, ContextFields
<1>5. req = [f \in RequestFields |-> req[f]]
  BY <1>3
<1> HIDE DEF req
<1>6. /\ c = [f \in ContextFields |-> c[f]]
      /\ c.data_step_id = ctx[t].data_step_id /\ c.sent = ctx[t].sent
      /\ c.ok = Sent!InitInferDataOk /\ c.req = req
  BY <1>3 DEF ContextFields
<1> HIDE DEF c
<1>7. Sent!InitInferDataOk => Data # <<>>
  BY <1>1, <1>2, LoadImplies, ReadyHasData
<1>8. ContextOK(t, c)
  BY <1>3, <1>5, <1>6, <1>7 DEF ContextOK
<1>9. /\ ctx'[t] = c
      /\ \A x \in Sent!Threads \ {t} : ctx'[x] = ctx[x]
      /\ ctx' = [x \in Sent!Threads |-> ctx'[x]]
  BY <1>2, <1>4
<1>10. \A x \in Sent!Threads : ContextOK(x, ctx'[x])
  BY <1>8, <1>9 DEF RequestsInv
<1>11. \A x \in Sent!Threads : \A j \in Nat : j < ctx'[x].sent => Covered(x, j)
  <2>1. \A x \in Sent!Threads : ctx'[x].sent = ctx[x].sent
    BY <1>6, <1>9
  <2> QED BY <2>1 DEF RequestsInv
<1>12. \A s \in Sent!Slots : SequenceOK(seq'[s])
  BY <1>1 DEF RequestsInv
<1> QED BY <1>1, <1>9, <1>10, <1>11, <1>12, OthersKeep

\* What is sent counts as used, and nothing that was is forgotten.
LEMMA SentIsUsed ==
  ASSUME NEW inputs, used' = Sent!Sent(inputs)
  PROVE  \A n \in Inputs :
            /\ used[n] \subseteq used'[n]
            /\ n \in DOMAIN inputs =>
                 \A i \in DOMAIN inputs[n] : inputs[n][i] \in used'[n]
BY DEF Sent!Sent

\* A batch that was sent with all inputs is covered.
LEMMA CarriedIsCovered ==
  ASSUME job' = job, NEW req, NEW t, NEW j,
         Sent!Carries(req, 0, (t + j * job.threads) * job.batch),
         Inputs \ job.model.optional \subseteq DOMAIN req.inputs,
         used' = Sent!Sent(req.inputs)
  PROVE  Covered(t, j)'
<1> DEFINE p == (t + j * job.threads) * job.batch
<1> SUFFICES ASSUME NEW n \in Inputs \ job.model.optional,
                    NEW i \in 1 .. job.batch,
                    n \notin job.model.shape_tensors
             PROVE  Sent!StepOf("data", 0, p + i - 1)'[n].val \in used'[n]
  BY DEF Covered
<1>1. Sent!StepOf("data", 0, p + i - 1)' = Sent!StepOf("data", 0, p + i - 1)
  <2>1. Same /\ (p + i - 1)' = p + i - 1
    BY SameJob
  <2> HIDE DEF p
  <2> QED BY <2>1 DEF Same
<1> HIDE DEF p
<1>2. /\ DOMAIN req.inputs[n] = 1 .. job.batch
      /\ req.inputs[n][i] = Sent!StepOf("data", 0, p + i - 1)[n].val
  BY DEF Sent!Carries, p
<1>3. req.inputs[n][i] \in used'[n]
  BY <1>2, SentIsUsed
<1> QED BY <1>1, <1>2, <1>3

LEMMA RequestsSend ==
  ASSUME Sent!JobsOK, LoadInv, RequestsInv, Sent!Json,
         NEW t \in Sent!Threads, Sent!SendInferRequest(t)
  PROVE  RequestsInv'
<1> DEFINE at == (t + ctx[t].sent * job.threads) * job.batch
           step == at % StepCount(Data, 0)
           req == [ctx[t].req EXCEPT
                      !.inputs = Sent!UpdateInputs(0, step),
                      !.expected = Sent!UpdateValidationOutputs(0, step),
                      !.pos = ctx[t].sent]
           next == ctx[t].data_step_id + job.threads
           more == ctx[t].sent + 1
           c == [ctx[t] EXCEPT !.data_step_id = next, !.sent = more,
                               !.req = req]
<1>1. /\ job' = job /\ seq' = seq /\ stage = "run"
      /\ ctx[t].ready /\ ctx[t].ok
  BY DEF Sent!SendInferRequest
<1>2. /\ ctx = [x \in Sent!Threads |-> ctx[x]] /\ ContextOK(t, ctx[t])
      /\ job \in Jobs
  BY DEF RequestsInv
<1>3. /\ ctx[t] = [f \in ContextFields |-> ctx[t][f]]
      /\ ctx[t].req = [f \in RequestFields |-> ctx[t].req[f]]
      /\ ctx[t].data_step_id = t + ctx[t].sent * job.threads
      /\ ctx[t].sent \in Nat /\ Data # <<>>
  BY <1>1, <1>2 DEF ContextOK
<1>4. /\ job.threads \in Nat /\ job.batch \in Nat \ {0} /\ t \in Nat
  <2>1. job.threads \in Nat /\ job.batch \in Nat \ {0}
    BY <1>2 DEF Sent!JobsOK
  <2> QED BY <2>1 DEF Sent!Threads
<1>5. Loaded /\ AllPrepared
  BY <1>1, LoadImplies
<1>6. /\ 0 \in 0 .. StreamCount(Data) - 1
      /\ Sent!GetTotalSteps(loader, 0) = StepCount(Data, 0)
  <2>1. Sent!MemberOK(Data)
    BY <1>5 DEF Loaded
  <2>2. StreamCount(Data) \in Nat /\ StreamCount(Data) # 0
    BY <1>3, <2>1, CountTypes
  <2>3. 0 \in 0 .. StreamCount(Data) - 1
    BY <2>2
  <2> QED BY <1>5, <2>3, TotalSteps
<1>7. at \in Nat
  <2>1. \A a, b \in Nat : a * b \in Nat
    OBVIOUS
  <2>2. ctx[t].sent * job.threads \in Nat
    BY <1>3, <1>4, <2>1
  <2>3. t + ctx[t].sent * job.threads \in Nat
    BY <1>4, <2>2
  <2> QED BY <1>4, <2>1, <2>3
<1>8. Sent!JsonStep(t) = step
  BY <1>3, <1>6 DEF Sent!JsonStep
<1>9. /\ ctx' = [ctx EXCEPT ![t] = c]
      /\ used' = Sent!Sent(Sent!UpdateInputs(0, step))
  <2> DEFINE data == Sent!UpdateInferData(0, step)
  <2>1. /\ data.inputs = Sent!UpdateInputs(0, step)
        /\ data.expected = Sent!UpdateValidationOutputs(0, step)
    BY DEF Sent!UpdateInferData
  <2>2. /\ ctx' = [ctx EXCEPT
              ![t].data_step_id = @ + job.threads,
              ![t].sent = @ + 1,
              ![t].req = [@ EXCEPT !.inputs = data.inputs,
                                   !.expected = data.expected,
                                   !.pos = ctx[t].sent]]
        /\ used' = Sent!Sent(data.inputs)
    <3> HIDE DEF step
    <3> QED BY <1>8 DEF Sent!SendInferRequest
  <2> HIDE DEF data, step
  <2> QED BY <1>2, <1>3, <2>1, <2>2 DEF ContextFields
<1> HIDE DEF step
<1>10. /\ req = [f \in RequestFields |-> req[f]]
       /\ req.inputs = Sent!UpdateInputs(0, step)
       /\ req.pos = ctx[t].sent
  BY <1>3 DEF RequestFields
<1> HIDE DEF req, next, more
<1>11. /\ c = [f \in ContextFields |-> c[f]]
       /\ c.data_step_id = next /\ c.sent = more
       /\ c.ready = ctx[t].ready /\ c.ok = ctx[t].ok /\ c.req = req
  BY <1>3 DEF ContextFields
<1> HIDE DEF c
<1>12. /\ Sent!Carries(req, 0, at)
       /\ Inputs \ job.model.optional \subseteq DOMAIN req.inputs
  <2> HIDE DEF at
  <2> QED BY <1>4, <1>5, <1>6, <1>7, <1>10, UpdateCarries DEF step
<1>13. /\ more \in Nat /\ more > 0 /\ more - 1 = ctx[t].sent
       /\ next = t + more * job.threads
  <2> DEFINE x == ctx[t].sent
             y == job.threads
  <2>1. x \in Nat /\ y \in Nat /\ t \in Nat
    BY <1>3, <1>4
  <2>2. (x + 1) * y = x * y + y /\ x * y \in Nat
    <3> HIDE DEF x, y
    <3> QED BY <2>1
  <2>3. next = (t + x * y) + y /\ more = x + 1
    BY <1>3 DEF next, more
  <2> HIDE DEF x, y
  <2>4. next = t + more * y /\ more \in Nat /\ more > 0 /\ more - 1 = x
    BY <2>1, <2>2, <2>3
  <2> QED BY <2>4 DEF x, y
<1>14. ContextOK(t, c)
  BY <1>1, <1>3, <1>10, <1>11, <1>12, <1>13 DEF ContextOK
<1>15. /\ ctx'[t] = c
       /\ \A x \in Sent!Threads \ {t} : ctx'[x] = ctx[x]
       /\ ctx' = [x \in Sent!Threads |-> ctx'[x]]
  BY <1>2, <1>9
<1>16. \A x \in Sent!Threads : ContextOK(x, ctx'[x])
  BY <1>14, <1>15 DEF RequestsInv
<1>17. used' = Sent!Sent(req.inputs)
  BY <1>9, <1>10
<1>18. \A n \in Inputs : used[n] \subseteq used'[n]
  BY <1>17, SentIsUsed
<1>19. \A j : j = ctx[t].sent => Covered(t, j)'
  <2> DEFINE k == ctx[t].sent
  <2>1. Sent!Carries(req, 0, (t + k * job.threads) * job.batch)
    BY <1>12
  <2> HIDE DEF k
  <2>2. \A j : j = k => Covered(t, j)'
    BY <1>1, <1>12, <1>17, <2>1, CarriedIsCovered
  <2> QED BY <2>2 DEF k
<1>20. \A x \in Sent!Threads : \A j \in Nat :
          j < ctx'[x].sent => Covered(x, j) \/ Covered(x, j)'
  <2> SUFFICES ASSUME NEW x \in Sent!Threads, NEW j \in Nat,
                      j < ctx'[x].sent
               PROVE  Covered(x, j) \/ Covered(x, j)'
    OBVIOUS
  <2>1. j < ctx[x].sent => Covered(x, j)
    BY DEF RequestsInv
  <2>2. CASE x = t
    <3>1. ctx'[x].sent = more
      BY <1>11, <1>15, <2>2
    <3>2. j < ctx[x].sent \/ j = ctx[t].sent
      BY <1>3, <1>13, <2>2, <3>1
    <3> QED BY <1>19, <2>1, <2>2, <3>2
  <2>3. CASE x # t
    BY <1>15, <2>1, <2>3
  <2> QED BY <2>2, <2>3
<1>21. \A s \in Sent!Slots : SequenceOK(seq'[s])
  BY <1>1 DEF RequestsInv
<1> QED BY <1>1, <1>15, <1>16, <1>18, <1>20, <1>21, OthersKeep

\* A status whose next request is at position pos of its stream.
Sendable(st, pos) ==
    /\ Status(st) /\ st.phase = "idle" /\ st.count \in Nat
    /\ st.remaining \in Nat \ {0} /\ st.length \in Nat /\ pos \in Nat
    /\ st.length - st.remaining = pos
    /\ st.remaining # 1 => st.length = st.count + st.remaining
    /\ st.data_stream_id \in 0 .. StreamCount(Data) - 1
    /\ st.req # Sent!NoRequest => RequestOK(st.req)

LEMMA SendIsFaithful ==
  ASSUME Loaded, AllPrepared, Sent!Json, job.batch = 1, job.sequence,
         NEW s, NEW st, NEW start, NEW pos, Sendable(st, pos),
         Sent!SendOf(s, st, start, pos)
  PROVE  /\ \A n \in Inputs : used[n] \subseteq used'[n]
         /\ \E u : seq' = [seq EXCEPT ![s] = u] /\ SequenceOK(u)
<1>1. /\ Status(st) /\ st.phase = "idle" /\ st.count \in Nat
      /\ st.remaining \in Nat \ {0} /\ st.length \in Nat /\ pos \in Nat
      /\ st.length - st.remaining = pos
      /\ st.remaining # 1 => st.length = st.count + st.remaining
      /\ st.data_stream_id \in 0 .. StreamCount(Data) - 1
      /\ st.req # Sent!NoRequest => RequestOK(st.req)
  BY DEF Sendable
<1>2. CASE Sent!InitInferDataOk
  <2> DEFINE stream == st.data_stream_id
             step == pos % StepCount(Data, stream)
             req == [inputs |-> Sent!UpdateInputs(stream, step),
                     expected |-> Sent!UpdateValidationOutputs(stream, step),
                     stream |-> stream, pos |-> pos, start |-> start,
                     end |-> st.remaining = 1]
             less == st.remaining - 1
             more == st.count + 1
             u == [st EXCEPT !.remaining = less, !.count = more, !.req = req]
  <2>1. Sent!GetTotalSteps(loader, stream) = StepCount(Data, stream)
    BY <1>1, TotalSteps
  <2>2. Sent!SeqJsonStep(st) = step
    BY <1>1, <2>1 DEF Sent!SeqJsonStep
  <2>3. /\ seq' = [seq EXCEPT ![s] = u]
        /\ used' = Sent!Sent(Sent!UpdateInputs(stream, step))
    <3> DEFINE data == Sent!UpdateInferData(stream, step)
    <3>1. /\ data.inputs = Sent!UpdateInputs(stream, step)
          /\ data.expected = Sent!UpdateValidationOutputs(stream, step)
      BY DEF Sent!UpdateInferData
    <3>2. /\ seq' = [seq EXCEPT ![s] = [st EXCEPT
                !.remaining = @ - 1, !.count = @ + 1,
                !.req = [inputs |-> data.inputs, expected |-> data.expected,
                         stream |-> stream, pos |-> pos,
                         start |-> start, end |-> st.remaining = 1]]]
          /\ used' = Sent!Sent(data.inputs)
      <4> HIDE DEF step
      <4> QED BY <1>2, <2>2 DEF Sent!SendOf
    <3> HIDE DEF data, step
    <3> QED BY <1>1, <3>1, <3>2 DEF Status, StatusFields
  <2> HIDE DEF step
  <2>4. /\ req.inputs = Sent!UpdateInputs(stream, step)
        /\ req.expected = Sent!UpdateValidationOutputs(stream, step)
        /\ req.stream = stream /\ req.pos = pos
    OBVIOUS
  <2>5. less \in Nat /\ (less > 0 => st.length = more + less)
    BY <1>1
  <2> HIDE DEF req, less, more
  <2>6. /\ u.remaining = less /\ u.count = more /\ u.req = req
        /\ u.phase = "idle" /\ u.length = st.length
        /\ u.data_stream_id = stream
    BY <1>1 DEF Status, StatusFields
  <2> HIDE DEF u
  <2>7. Sent!Carries(req, stream, pos)
    <3>1. 1 \in Nat \ {0}
      OBVIOUS
    <3> QED BY <1>1, <2>4, <3>1, UpdateCarries DEF step
  <2>8. Sent!FirstIsLongest => Sent!Expects(req, stream, pos)
    BY <1>1, <2>4, UpdateExpects DEF step
  <2>9. RequestOK(req)
    BY <2>4, <2>7, <2>8 DEF RequestOK
  <2>10. SequenceOK(u)
    BY <1>1, <2>5, <2>6, <2>9 DEF SequenceOK
  <2> QED BY <2>3, <2>10, SentIsUsed
<1>3. CASE ~Sent!InitInferDataOk
  <2> DEFINE u == [st EXCEPT !.ok = FALSE, !.remaining = 0]
  <2>1. seq' = [seq EXCEPT ![s] = u] /\ used' = used
    BY <1>3 DEF Sent!SendOf
  <2>2. u.remaining = 0 /\ u.phase = "idle" /\ u.req = st.req
    BY <1>1 DEF Status, StatusFields
  <2> HIDE DEF u
  <2>3. ~(0 > 0) /\ 0 \in Nat
    OBVIOUS
  <2>4. SequenceOK(u)
    BY <1>1, <2>2, <2>3 DEF SequenceOK
  <2> QED BY <2>1, <2>4
<1> QED BY <1>2, <1>3

LEMMA SlotStep ==
  ASSUME RequestsInv, SlotTypes, Sent!Json, UNCHANGED <<job, ctx>>,
         NEW s \in Sent!Slots, NEW u, seq' = [seq EXCEPT ![s] = u],
         SequenceOK(u), \A n \in Inputs : used[n] \subseteq used'[n]
  PROVE  RequestsInv'
<1>1. \A o \in Sent!Slots : seq'[o] = IF o = s THEN u ELSE seq[o]
  BY DEF SlotTypes
<1>2. \A o \in Sent!Slots : SequenceOK(seq'[o])
  BY <1>1 DEF RequestsInv
<1>3. /\ job' = job /\ ctx' = [t \in Sent!Threads |-> ctx'[t]]
      /\ \A t \in Sent!Threads : ContextOK(t, ctx'[t])
      /\ \A t \in Sent!Threads : \A j \in Nat :
            j < ctx'[t].sent => Covered(t, j)
  BY DEF RequestsInv
<1> QED BY <1>2, <1>3, OthersKeep

\* Taking an id leaves the rest of the status as it is.
LEMMA RequestsTake ==
  ASSUME RequestsInv, SlotTypes, Sent!Json, NEW s \in Sent!Slots,
         Sent!TakeSeqId(s) \/ Sent!CompareSeqId(s)
  PROVE  RequestsInv'
<1>1. Status(seq[s]) /\ SequenceOK(seq[s])
  BY DEF SlotTypes, RequestsInv
<1>2. /\ UNCHANGED <<job, ctx, used>> /\ job.sequence
      /\ \E phase, next :
            seq' = [seq EXCEPT ![s].phase = phase, ![s].next = next]
  <2>1. CASE Sent!TakeSeqId(s)
    <3>1. seq' = [seq EXCEPT ![s].phase = "compare",
                             ![s].next = Sent!NextSeqId]
      BY <1>1, <2>1 DEF Sent!TakeSeqId, SlotTypes, Status, StatusFields
    <3>2. UNCHANGED <<job, ctx, used>> /\ job.sequence
      BY <2>1 DEF Sent!TakeSeqId
    <3> QED BY <3>1, <3>2
  <2>2. CASE Sent!CompareSeqId(s)
    <3> DEFINE next == IF \E i \in Sent!Slots : seq[i].seq_id = seq[s].next
                       THEN seq[s].seq_id ELSE seq[s].next
    <3>1. seq' = [seq EXCEPT ![s].phase = "begin", ![s].next = next]
      BY <1>1, <2>2 DEF Sent!CompareSeqId, SlotTypes, Status, StatusFields
    <3>2. UNCHANGED <<job, ctx, used>> /\ job.sequence
      BY <1>1, <2>2 DEF Sent!CompareSeqId, SequenceOK
    <3> HIDE DEF next
    <3> QED BY <3>1, <3>2
  <2> QED BY <2>1, <2>2
<1>3. PICK phase, next :
         seq' = [seq EXCEPT ![s].phase = phase, ![s].next = next]
  BY <1>2
<1> DEFINE u == [seq[s] EXCEPT !.phase = phase, !.next = next]
<1>4. seq' = [seq EXCEPT ![s] = u]
  BY <1>1, <1>3 DEF SlotTypes, Status, StatusFields
<1>5. /\ u.remaining = seq[s].remaining /\ u.req = seq[s].req
      /\ u.length = seq[s].length /\ u.count = seq[s].count
      /\ u.data_stream_id = seq[s].data_stream_id
  BY <1>1 DEF Status, StatusFields
<1> HIDE DEF u
<1>6. SequenceOK(u)
  BY <1>1, <1>2, <1>5 DEF SequenceOK
<1> QED BY <1>2, <1>4, <1>6, SlotStep

\* A sequence is begun at the first step of its stream.
LEMMA NewIsSendable ==
  ASSUME Sent!JobsOK, job \in Jobs, Sent!Json, Loaded,
         NEW s, Status(seq[s]), SequenceOK(seq[s]),
         NEW st \in Sent!NewSequences(s)
  PROVE  Sendable(st, 0)
<1> DEFINE lens(v) == IF job.lengths # {} THEN job.lengths
                      ELSE {Sent!GetTotalSteps(loader, v)}
           streams == 0 .. loader.data_stream_cnt - 1
           new(v, len) == [seq[s] EXCEPT !.seq_id = seq[s].next,
                              !.phase = "idle", !.count = 0,
                              !.data_stream_id = v, !.length = len,
                              !.remaining = len]
<1>1. PICK draw \in UNION {{v} \X lens(v) : v \in streams} :
         st = new(draw[1], draw[2])
  BY DEF Sent!NewSequences
<1> HIDE DEF new, lens, streams
<1>2. PICK v \in streams : draw \in {v} \X lens(v)
  BY <1>1
<1> DEFINE len == draw[2]
<1>3. len \in lens(v) /\ st = new(v, len)
  BY <1>1, <1>2
<1> HIDE DEF len
<1>4. v \in 0 .. StreamCount(Data) - 1 /\ len \in Nat \ {0}
  <2>1. /\ v \in 0 .. StreamCount(Data) - 1
        /\ Sent!GetTotalSteps(loader, v) = StepCount(Data, v)
    BY TotalSteps DEF streams
  <2>2. StepCount(Data, v) \in Nat \ {0}
    BY <2>1, CountTypes DEF Loaded
  <2>3. job.lengths \subseteq Nat \ {0}
    BY DEF Sent!JobsOK
  <2> QED BY <1>3, <2>1, <2>2, <2>3 DEF lens
<1>5. Status(st)
  BY <1>3 DEF Status, new
<1>6. /\ st.phase = "idle" /\ st.count = 0 /\ st.data_stream_id = v
      /\ st.length = len /\ st.remaining = len /\ st.req = seq[s].req
  BY <1>3 DEF Status, StatusFields, new
<1>7. len - len = 0 /\ len = 0 + len /\ 0 \in Nat /\ len \in Nat
  BY <1>4
<1>8. st.req # Sent!NoRequest => RequestOK(st.req)
  BY <1>6 DEF SequenceOK
<1> QED BY <1>4, <1>5, <1>6, <1>7, <1>8 DEF Sendable

LEMMA RequestsSequence ==
  ASSUME Sent!JobsOK, LoadInv, RequestsInv, SlotTypes, QuietOutsideRun,
         Sent!Json, NEW s \in Sent!Slots,
         \/ Sent!BeginSequence(s) \/ Sent!ContinueSequence(s)
         \/ Sent!CompleteOngoingSequence(s)
  PROVE  RequestsInv'
<1>1. /\ job \in Jobs /\ Status(seq[s]) /\ SequenceOK(seq[s])
      /\ seq[s].count \in Nat
  BY DEF SlotTypes, RequestsInv
<1>2. UNCHANGED <<job, ctx>>
  BY DEF Sent!BeginSequence, Sent!ContinueSequence,
       Sent!CompleteOngoingSequence
<1>3. stage \in {"run", "stop"}
  BY DEF QuietOutsideRun, Sent!BeginSequence, Sent!ContinueSequence,
       Sent!CompleteOngoingSequence
<1>4. Loaded /\ AllPrepared
  BY <1>3, LoadImplies
<1>5. job.sequence /\ job.batch = 1
  <2>1. job.sequence
    BY <1>1 DEF SequenceOK, Sent!BeginSequence, Sent!ContinueSequence,
         Sent!CompleteOngoingSequence
  <2> QED BY <1>1, <2>1 DEF Sent!JobsOK
<1>6. \E st, start, pos : Sendable(st, pos) /\ Sent!SendOf(s, st, start, pos)
  <2>1. CASE Sent!BeginSequence(s)
    <3>1. PICK st \in Sent!NewSequences(s) : Sent!SendOf(s, st, TRUE, 0)
      BY <2>1 DEF Sent!BeginSequence
    <3>2. Sendable(st, 0)
      BY <1>1, <1>4, NewIsSendable
    <3> QED BY <3>1, <3>2
  <2>2. CASE \/ Sent!ContinueSequence(s) \/ Sent!CompleteOngoingSequence(s)
    <3>1. /\ seq[s].phase = "idle" /\ seq[s].remaining > 0
          /\ seq[s].remaining \in Nat \ {0} /\ seq[s].length \in Nat
          /\ seq[s].length = seq[s].count + seq[s].remaining
          /\ seq[s].data_stream_id \in 0 .. StreamCount(Data) - 1
          /\ seq[s].req # Sent!NoRequest => RequestOK(seq[s].req)
      <4>1. seq[s].phase = "idle" /\ seq[s].remaining > 0
        BY <2>2 DEF Sent!ContinueSequence, Sent!CompleteOngoingSequence
      <4> QED BY <1>1, <4>1 DEF SequenceOK
    <3>2. CASE Sent!ContinueSequence(s)
      <4>1. Sent!SendOf(s, seq[s], FALSE, seq[s].count)
        BY <3>2 DEF Sent!ContinueSequence
      <4>2. seq[s].length - seq[s].remaining = seq[s].count
        BY <1>1, <3>1
      <4>3. Sendable(seq[s], seq[s].count)
        BY <1>1, <3>1, <4>2 DEF Sendable
      <4> QED BY <4>1, <4>3
    <3>3. CASE Sent!CompleteOngoingSequence(s)
      <4> DEFINE st == [seq[s] EXCEPT !.remaining = 1]
                 pos == seq[s].length - 1
      <4>1. Sent!SendOf(s, st, FALSE, pos)
        BY <3>3 DEF Sent!CompleteOngoingSequence
      <4>2. Status(st)
        BY <1>1 DEF Status
      <4>3. /\ st.phase = "idle" /\ st.count = seq[s].count
            /\ st.remaining = 1 /\ st.length = seq[s].length
            /\ st.data_stream_id = seq[s].data_stream_id
            /\ st.req = seq[s].req
        BY <1>1, <3>1 DEF Status, StatusFields
      <4>4. pos \in Nat /\ 1 \in Nat \ {0}
        BY <1>1, <3>1
      <4> HIDE DEF st
      <4>5. Sendable(st, pos)
        BY <1>1, <3>1, <4>2, <4>3, <4>4 DEF Sendable
      <4> HIDE DEF pos
      <4> QED BY <4>1, <4>5
    <3> QED BY <2>2, <3>2, <3>3
  <2> QED BY <2>1, <2>2
<1>7. PICK st, start, pos :
         Sendable(st, pos) /\ Sent!SendOf(s, st, start, pos)
  BY <1>6
<1>8. /\ \A n \in Inputs : used[n] \subseteq used'[n]
      /\ \E u : seq' = [seq EXCEPT ![s] = u] /\ SequenceOK(u)
  BY <1>4, <1>5, <1>7, SendIsFaithful
<1> QED BY <1>2, <1>8, SlotStep

LEMMA RequestsStep ==
  ASSUME Sent!JobsOK, LoadInv, RequestsInv, SlotTypes, QuietOutsideRun,
         [Sent!Next]_Sent!vars
  PROVE  RequestsInv'
<1>1. job' = job /\ job \in Jobs
  <2>1. CASE UNCHANGED Sent!vars
    BY <2>1 DEF Sent!vars, RequestsInv
  <2>2. CASE Sent!Next
    BY <2>2 DEF RequestsInv, Sent!Next, Sent!ReadDataFromJSON,
         Sent!ReadOrGenerate, Sent!InitInputs, Sent!InitRegion,
         Sent!RegionsReady, Sent!InitContext, Sent!SendInferRequest,
         Sent!TakeSeqId, Sent!CompareSeqId, Sent!BeginSequence,
         Sent!ContinueSequence, Sent!CompleteOngoingSequence, Sent!Stop,
         Sent!Joined, Sent!Destroy, Sent!Ended, Sent!vars
  <2> QED BY <2>1, <2>2
<1> SUFFICES ASSUME Sent!Json PROVE RequestsInv'
  BY <1>1 DEF RequestsInv, Sent!Json
<1>2. CASE UNCHANGED <<ctx, seq, used>>
  <2>1. /\ ctx' = [t \in Sent!Threads |-> ctx'[t]]
        /\ \A t \in Sent!Threads : ContextOK(t, ctx'[t])
        /\ \A s \in Sent!Slots : SequenceOK(seq'[s])
        /\ \A t \in Sent!Threads : \A j \in Nat :
              j < ctx'[t].sent => Covered(t, j)
        /\ \A n \in Inputs : used[n] \subseteq used'[n]
    BY <1>2 DEF RequestsInv
  <2> QED BY <1>1, <2>1, OthersKeep
<1>3. CASE \/ Sent!ReadDataFromJSON \/ Sent!ReadOrGenerate
           \/ Sent!InitInputs \/ Sent!InitRegion \/ Sent!RegionsReady
           \/ Sent!Stop \/ Sent!Joined \/ Sent!Destroy \/ Sent!Ended
           \/ UNCHANGED Sent!vars
  <2>1. UNCHANGED <<ctx, seq, used>>
    BY <1>3 DEF Sent!ReadDataFromJSON, Sent!ReadOrGenerate, Sent!InitInputs,
         Sent!InitRegion, Sent!RegionsReady, Sent!Stop, Sent!Joined,
         Sent!Destroy, Sent!Ended, Sent!vars
  <2> QED BY <1>2, <2>1
<1> QED
  BY <1>3, RequestsInitContext, RequestsSend, RequestsTake, RequestsSequence
     DEF Sent!Next

LEMMA RequestsImply ==
  ASSUME RequestsInv, SlotTypes
  PROVE  Sent!RequestFaithful
<1> SUFFICES ASSUME Sent!Json PROVE Sent!RequestFaithful
  BY DEF Sent!RequestFaithful
<1>1. DOMAIN ctx = Sent!Threads /\ DOMAIN seq = Sent!Slots
  BY DEF RequestsInv, SlotTypes
<1>2. ASSUME NEW t \in Sent!Threads, ctx[t].sent > 0
      PROVE  Sent!Carries(ctx[t].req, 0,
                          (t + ctx[t].req.pos * job.threads) * job.batch)
  BY <1>2 DEF RequestsInv, ContextOK
<1>3. ASSUME NEW s \in Sent!Slots, seq[s].req # Sent!NoRequest
      PROVE  RequestOK(seq[s].req)
  BY <1>3 DEF RequestsInv, SequenceOK
<1> QED BY <1>1, <1>2, <1>3 DEF Sent!RequestFaithful, RequestOK

\* The quotient by n of what is below k times n is below k.
LEMMA QuotientBelow ==
  ASSUME NEW a \in Nat, NEW n \in Nat \ {0}, NEW k \in Nat, a < k * n
  PROVE  a \div n < k
<1> DEFINE q == a \div n
           r == a % n
<1>1. q \in Nat /\ r \in 0 .. n - 1 /\ a = n * q + r
  BY DivMod
<1> HIDE DEF q, r
<1> SUFFICES ASSUME k <= q PROVE FALSE
  BY <1>1 DEF q
<1> DEFINE d == q - k
<1>2. d \in Nat /\ q = k + d
  BY <1>1
<1> HIDE DEF d
<1>3. n * q = k * n + n * d /\ n * d \in Nat /\ k * n \in Nat
  BY <1>2
<1> DEFINE x == k * n
           y == n * d
           z == n * q
<1>4. z = x + y /\ x \in Nat /\ y \in Nat /\ a = z + r /\ a < x
  BY <1>1, <1>3
<1> HIDE DEF x, y, z
<1> QED BY <1>1, <1>4

LEMMA RoundsImply ==
  ASSUME Sent!JobsOK, LoadInv, RequestsInv
  PROVE  Sent!RoundsCoverData
<1> SUFFICES ASSUME Sent!Json, stage = "run", NEW k \in 1 .. MaxRequests,
                    NEW n \in Inputs \ job.model.optional,
                    NEW p \in DOMAIN Sent!StreamOf("data", 0),
                    p <= k * job.threads * job.batch,
                    n \notin job.model.shape_tensors,
                    \A t \in Sent!Threads : ctx[t].sent >= k
             PROVE  Sent!StreamOf("data", 0)[p][n].val \in used[n]
  BY DEF Sent!RoundsCoverData
<1> DEFINE S == Sent!StreamOf("data", 0)
           T == StepCount(Data, 0)
           B == job.batch
           W == job.threads
<1>1. Loaded /\ Sent!MemberOK(Data) /\ job \in Jobs
  BY LoadImplies DEF Loaded, LoadInv
<1>2. B \in Nat \ {0} /\ W \in Nat /\ k \in Nat
  BY <1>1 DEF Sent!JobsOK
<1>3. Data # <<>>
  <2> SUFFICES ASSUME Data = <<>> PROVE FALSE
    OBVIOUS
  <2>1. S = [i \in DOMAIN Data |-> Data[i].steps[1]]
    BY DEF Sent!StreamOf, Data
  <2>2. DOMAIN Data = {}
    OBVIOUS
  <2> QED BY <2>1, <2>2
<1>4. /\ T \in Nat \ {0} /\ Len(S) = T /\ DOMAIN S = 1 .. T
  <2>1. StreamCount(Data) \in Nat /\ StreamCount(Data) # 0
    BY <1>1, <1>3, CountTypes
  <2>2. 0 \in 0 .. StreamCount(Data) - 1
    BY <2>1
  <2> QED BY <1>1, <2>2, CountTypes, StreamIs DEF Data
<1> DEFINE a == p - 1
           q == a \div B
           r == a % B
<1>5. a \in Nat /\ p \in Nat /\ a < T /\ p = a + 1
  <2> HIDE DEF T, S
  <2>1. p \in 1 .. T
    BY <1>4 DEF S
  <2> QED BY <1>4, <2>1
<1>6. q \in Nat /\ r \in 0 .. B - 1 /\ a = B * q + r
  <2> HIDE DEF a, B
  <2> QED BY <1>2, <1>5, DivMod
<1>7. k * W \in Nat
  BY <1>2
<1>8. q < k * W
  <2> DEFINE m == k * W
             e == m * B
  <2>1. p <= e
    OBVIOUS
  <2>2. e \in Nat
    <3>1. \A x, y \in Nat : x * y \in Nat
      OBVIOUS
    <3> HIDE DEF m, B
    <3> QED BY <1>2, <1>7, <3>1 DEF m
  <2>3. a < e
    <3> HIDE DEF e, a
    <3> QED BY <1>5, <2>1, <2>2
  <2> HIDE DEF a, m, B
  <2> QED BY <1>2, <1>5, <1>7, <2>3, QuotientBelow DEF m
<1>9. W \in Nat \ {0}
  <2>1. W # 0
    <3> SUFFICES ASSUME W = 0 PROVE FALSE
      OBVIOUS
    <3>1. k * W = 0
      BY <1>2
    <3> HIDE DEF q, W
    <3> QED BY <1>6, <1>8, <3>1
  <2> QED BY <1>2, <2>1
<1> DEFINE j == q \div W
           t == q % W
<1>10. j \in Nat /\ t \in 0 .. W - 1 /\ q = W * j + t
  <2> HIDE DEF q, W
  <2> QED BY <1>6, <1>9, DivMod
<1>11. j < k
  <2> HIDE DEF q, W
  <2> QED BY <1>2, <1>6, <1>8, <1>9, QuotientBelow
<1>12. t \in Sent!Threads /\ Covered(t, j)
  <2>1. t \in Sent!Threads
    BY <1>10 DEF Sent!Threads
  <2> HIDE DEF t, j
  <2>2. ctx[t].sent >= k /\ ctx[t].sent \in Nat
    BY <2>1 DEF RequestsInv, ContextOK
  <2>3. j < ctx[t].sent
    BY <1>2, <1>10, <1>11, <2>2
  <2> QED BY <1>10, <2>1, <2>3 DEF RequestsInv
<1>13. (t + j * W) * B + (r + 1) - 1 = a
  <2>1. t + j * W = q
    <3> DEFINE x == W * j
    <3>1. j * W = x /\ x \in Nat
      <4> HIDE DEF j, W
      <4> QED BY <1>2, <1>10
    <3> HIDE DEF x, j, t, q, W
    <3> QED BY <1>10, <3>1 DEF x
  <2>2. q * B = B * q /\ B * q \in Nat
    <3> HIDE DEF q, B
    <3> QED BY <1>2, <1>6
  <2> HIDE DEF t, j, W
  <2>3. (t + j * W) * B = B * q
    BY <2>1, <2>2
  <2> DEFINE x == (t + j * W) * B
             y == B * q
  <2>4. x = y /\ y \in Nat /\ a = y + r
    BY <1>6, <2>2, <2>3
  <2> HIDE DEF x, y, a, r, B
  <2>5. x + (r + 1) - 1 = a
    BY <1>6, <2>4
  <2> QED BY <2>5 DEF x
<1>14. Sent!StepOf("data", 0, a) = S[p]
  <2>1. Sent!StepOf("data", 0, a) = S[(a % Len(S)) + 1]
    BY DEF Sent!StepOf
  <2> HIDE DEF S, a, T
  <2>2. a % Len(S) = a
    BY <1>4, <1>5
  <2> QED BY <1>5, <2>1, <2>2
<1>15. Sent!StepOf("data", 0, a)[n].val \in used[n]
  <2> DEFINE i == r + 1
  <2>1. i \in 1 .. B
    BY <1>2, <1>6
  <2>2. (t + j * job.threads) * job.batch + i - 1 = a
    BY <1>13
  <2> HIDE DEF i, t, j, a
  <2> QED BY <1>12, <2>1, <2>2 DEF Covered
<1> QED BY <1>14, <1>15

\* The requests of a run of InputData, with what they rest on: the data that
\* are loaded and prepared, the statuses of the slots, and that no sequence is
\* open outside the run.
RequestsIInv == LoadInv /\ IdsInv /\ RegionsInv /\ RequestsInv

LEMMA RequestsIInit == Sent!JobsOK /\ Sent!Init => RequestsIInv
BY LoadInit, IdsInit, RegionsInit, RequestsInit DEF RequestsIInv

LEMMA RequestsIStep ==
  ASSUME Sent!JobsOK, RequestsIInv, [Sent!Next]_Sent!vars
  PROVE  RequestsIInv'
<1>1. LoadInv /\ IdsInv /\ RegionsInv /\ RequestsInv
  BY DEF RequestsIInv
<1>2. LoadInv'
  BY <1>1, LoadStep
<1>3. IdsInv'
  BY <1>1, IdsStep
<1>4. RegionsInv'
  BY <1>1, RegionsStep
<1>5. RequestsInv'
  <2>1. SlotTypes /\ QuietOutsideRun
    BY <1>1 DEF IdsInv, RegionsInv
  <2> QED BY <1>1, <2>1, RequestsStep
<1> QED BY <1>2, <1>3, <1>4, <1>5 DEF RequestsIInv

-----------------------------------------------------------------------------
(* The composition.                                                        *)

\* GetNextSeqId takes the counter and then looks at the ids of the other
\* slots while their threads change them.  All the same, until the range has
\* been gone through, the sequences that are open at the same time have
\* different ids of the range, for any number of threads and any range.
THEOREM IdsAreDistinct == PreparationSpec => []OpenIdsDistinct
<1> DEFINE Inv == mode = "data" => IdsInv
<1>1. PreparationInit => Inv
  BY IdsInit DEF PreparationInit
<1>2. Inv /\ [PreparationNext]_<<vars, dataVars, timingVars, mode>> => Inv'
  <2>1. ASSUME Inv, mode = "data", Sent!Next, mode' = mode
        PROVE  Inv'
    BY <2>1, PreparationOK, IdsStep
  <2>2. ASSUME Inv, UNCHANGED <<dataVars, mode>>
        PROVE  Inv'
    <3>1. UNCHANGED Sent!vars
      BY <2>2 DEF Sent!vars, dataVars
    <3> QED
      BY <2>2, <3>1, PreparationOK, IdsStep
  <2>3. ASSUME mode # "data", mode' = mode
        PROVE  Inv'
    BY <2>3
  <2> HIDE DEF Inv
  <2> QED
    BY <2>1, <2>2, <2>3 DEF PreparationNext
<1>3. Inv => OpenIdsDistinct
  BY PreparationOK, IdsImply DEF OpenIdsDistinct
<1> QED
  BY <1>1, <1>2, <1>3, PTL DEF PreparationSpec

\* Whatever files and streams the data are spread over, however many streams
\* and steps there are, whatever the batch, and with or without shared
\* memory: the requests of a thread carry every threads-th batch of the data,
\* and those of a sequence the steps of one stream from the first to the last,
\* with the expected outputs of the same steps if no stream is longer than
\* the first.
THEOREM RequestsAreFaithful == PreparationSpec => []RequestFaithful
<1> DEFINE Inv == mode = "data" => RequestsIInv
<1>1. PreparationInit => Inv
  BY PreparationOK, RequestsIInit DEF PreparationInit
<1>2. Inv /\ [PreparationNext]_<<vars, dataVars, timingVars, mode>> => Inv'
  <2>1. ASSUME Inv, mode = "data", Sent!Next, mode' = mode
        PROVE  Inv'
    BY <2>1, PreparationOK, RequestsIStep
  <2>2. ASSUME Inv, UNCHANGED <<dataVars, mode>>
        PROVE  Inv'
    <3>1. UNCHANGED Sent!vars
      BY <2>2 DEF Sent!vars, dataVars
    <3> QED
      BY <2>2, <3>1, PreparationOK, RequestsIStep
  <2>3. ASSUME mode # "data", mode' = mode
        PROVE  Inv'
    BY <2>3
  <2> HIDE DEF Inv
  <2> QED
    BY <2>1, <2>2, <2>3 DEF PreparationNext
<1>3. Inv => RequestFaithful
  BY RequestsImply DEF RequestFaithful, RequestsIInv, IdsInv
<1> QED
  BY <1>1, <1>2, <1>3, PTL DEF PreparationSpec

\* Whatever the data, the batch and the number of threads, of which each goes
\* through the data by itself: when each has sent k requests, the first
\* k * threads batches have been sent, and no step of them was left out.
THEOREM RoundsCoverAllData == PreparationSpec => []RoundsCoverData
<1> DEFINE Inv == mode = "data" => RequestsIInv
<1>1. PreparationInit => Inv
  BY PreparationOK, RequestsIInit DEF PreparationInit
<1>2. Inv /\ [PreparationNext]_<<vars, dataVars, timingVars, mode>> => Inv'
  <2>1. ASSUME Inv, mode = "data", Sent!Next, mode' = mode
        PROVE  Inv'
    BY <2>1, PreparationOK, RequestsIStep
  <2>2. ASSUME Inv, UNCHANGED <<dataVars, mode>>
        PROVE  Inv'
    <3>1. UNCHANGED Sent!vars
      BY <2>2 DEF Sent!vars, dataVars
    <3> QED
      BY <2>2, <3>1, PreparationOK, RequestsIStep
  <2>3. ASSUME mode # "data", mode' = mode
        PROVE  Inv'
    BY <2>3
  <2> HIDE DEF Inv
  <2> QED
    BY <2>1, <2>2, <2>3 DEF PreparationNext
<1>3. Inv => RoundsCoverData
  BY PreparationOK, RoundsImply DEF RoundsCoverData, RequestsIInv
<1> QED
  BY <1>1, <1>2, <1>3, PTL DEF PreparationSpec

\* Whatever the data, the kind of shared memory and the point at which the
\* making of a region fails, and for any number of inputs, outputs and
\* streams: what a run leaves behind is at most the memory of the one region
\* whose making failed, and nothing at all when a request was sent.
THEOREM SharedMemoryReleased == PreparationSpec => []RegionsReleased
<1> DEFINE Inv == mode = "data" => RegionsInv
<1>1. PreparationInit => Inv
  BY RegionsInit DEF PreparationInit
<1>2. Inv /\ [PreparationNext]_<<vars, dataVars, timingVars, mode>> => Inv'
  <2>1. ASSUME Inv, mode = "data", Sent!Next, mode' = mode
        PROVE  Inv'
    BY <2>1, RegionsStep
  <2>2. ASSUME Inv, UNCHANGED <<dataVars, mode>>
        PROVE  Inv'
    <3>1. UNCHANGED Sent!vars
      BY <2>2 DEF Sent!vars, dataVars
    <3> QED
      BY <2>2, <3>1, RegionsStep
  <2>3. ASSUME mode # "data", mode' = mode
        PROVE  Inv'
    BY <2>3
  <2> HIDE DEF Inv
  <2> QED
    BY <2>1, <2>2, <2>3 DEF PreparationNext
<1>3. Inv => RegionsReleased
  BY DEF RegionsReleased, RegionsInv
<1> QED
  BY <1>1, <1>2, <1>3, PTL DEF PreparationSpec

\* Whatever the intervals, draws, timestamps, warm-up, threads and sequences,
\* and however often the workers ask: though every worker goes through its own
\* part of the timestamps by itself, round after round, its k-th request is
\* due when the request in its place of the one schedule asked for is, and
\* with a fixed schedule the requests are those of the data, each at its own
\* time and none twice or left out.
THEOREM ScheduleIsFollowed == PreparationSpec => []OnSchedule
<1> DEFINE Inv == mode = "timing" => TimingInv
<1>1. PreparationInit => Inv
  BY TimingInit DEF PreparationInit
<1>2. Inv /\ [PreparationNext]_<<vars, dataVars, timingVars, mode>> => Inv'
  <2>1. ASSUME Inv, mode = "timing", Timing!ScheduleNext, mode' = mode
        PROVE  Inv'
    BY <2>1, TimingStep
  <2>2. ASSUME Inv, UNCHANGED <<timingVars, mode>>
        PROVE  Inv'
    BY <2>2, TimingStutter DEF timingVars
  <2>3. ASSUME mode # "timing", mode' = mode
        PROVE  Inv'
    BY <2>3
  <2> HIDE DEF Inv
  <2> QED
    BY <2>1, <2>2, <2>3 DEF PreparationNext
<1>3. Inv => OnSchedule
  BY TimingImplies DEF OnSchedule
<1> QED
  BY <1>1, <1>2, <1>3, PTL DEF PreparationSpec

\* Whatever the command line, the server's answers and the moments of the
\* signals: when perf_analyzer's exit status is 0, it has written the export
\* that was asked for and printed every level it measured, and no error was
\* passed over but for a SIGINT.
THEOREM ExitStatusIsTruthful == PreparationSpec => []ExitStatusTruthful
<1>1. PreparationInit => DeliveryInv
  BY DeliveryInit DEF PreparationInit, NoSetup
<1>2. /\ DeliveryInv
      /\ [PreparationNext]_<<vars, dataVars, timingVars, mode>>
      => DeliveryInv'
  <2>1. [PreparationNext]_<<vars, dataVars, timingVars, mode>> => [Next]_vars
    BY DEF PreparationNext
  <2> QED
    BY <2>1, DeliveryStep
<1>3. DeliveryInv => ExitStatusTruthful
  BY DEF DeliveryInv
<1> QED
  BY <1>1, <1>2, <1>3, PTL DEF PreparationSpec

\* Whatever the command line, in whatever order and however long: when the
\* load starts, the service has every call that the load makes, but for the
\* two combinations that nobody checks.
THEOREM LoadCallsSupported == PreparationSpec => []RefusedBeforeLoad
<1>1. PreparationInit => RefusalInv
  BY RefusalInit DEF PreparationInit, NoSetup
<1>2. /\ RefusalInv
      /\ [PreparationNext]_<<vars, dataVars, timingVars, mode>>
      => RefusalInv'
  <2>1. [PreparationNext]_<<vars, dataVars, timingVars, mode>> => [Next]_vars
    BY DEF PreparationNext
  <2> QED
    BY <2>1, RefusalStep
<1> QED
  BY <1>1, <1>2, RefusalImplies, PTL DEF PreparationSpec

\* Whatever options are given, in whatever order: what the managers are
\* started with fits together, as the parser, VerifyOptions and
\* CreateAnalyzerObjects each settle a part of it.
THEOREM StartedConsistently == PreparationSpec => []ParametersConsistent
<1>1. PreparationInit => ConsistencyInv
  BY PreparationOK, ConsistencyInit DEF PreparationInit, NoSetup
<1>2. /\ ConsistencyInv
      /\ [PreparationNext]_<<vars, dataVars, timingVars, mode>>
      => ConsistencyInv'
  <2>1. [PreparationNext]_<<vars, dataVars, timingVars, mode>> => [Next]_vars
    BY DEF PreparationNext
  <2> QED
    BY <2>1, PreparationOK, ConsistencyStep
<1>3. ConsistencyInv => ParametersConsistent
  BY PreparationOK, ConsistencyImplies
<1> QED
  BY <1>1, <1>2, <1>3, PTL DEF PreparationSpec
=============================================================================
