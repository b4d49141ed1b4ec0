---------------------------- MODULE MCInputData ----------------------------
(***************************************************************************)
(* Data sets, models and options for InputData: files of steps and files   *)
(* of streams of different lengths, batches that do and do not divide the  *)
(* data, more threads than batches, and data that must be refused.         *)
(***************************************************************************)
EXTENDS Naturals, Sequences

T(v) == [val |-> v, dims |-> "model", good |-> TRUE]
Shaped(v, d) == [val |-> v, dims |-> d, good |-> TRUE]
Bad == [val |-> 0, dims |-> "model", good |-> FALSE]

\* Steps with both inputs, without the second one, and with a constant one.
S(i) == [A |-> T(i), B |-> T(i + 100)]
S1(i) == [A |-> T(i)]
SC(i) == [A |-> T(i), B |-> T(7)]
SS(i, d) == [A |-> Shaped(i, d), B |-> T(i)]
V(i) == [Y |-> T(i + 200)]

Flat(step) == [array |-> FALSE, steps |-> <<step>>]
Stream(steps) == [array |-> TRUE, steps |-> steps]
File(data, val) == [parses |-> TRUE, data |-> data, validation |-> val]
FlatFile(a, b) == File([i \in 1 .. b - a + 1 |-> Flat(S(a + i - 1))], <<>>)
Checked(a, b) == File([i \in 1 .. b - a + 1 |-> Flat(S(a + i - 1))],
                      [i \in 1 .. b - a + 1 |-> Flat(V(a + i - 1))])
Str(a, b) == Stream([i \in 1 .. b - a + 1 |-> S(a + i - 1)])
VStr(a, b) == Stream([i \in 1 .. b - a + 1 |-> V(a + i - 1)])

Model == [optional |-> {}, shape_tensors |-> {}, open |-> {}, strings |-> {}]
OptionalB == [Model EXCEPT !.optional = {"B"}]
ShapeB == [Model EXCEPT !.shape_tensors = {"B"}]
OpenA == [Model EXCEPT !.open = {"A"}]

Job == [source |-> "json", files |-> <<>>, dir |-> S(1), model |-> Model,
        batch |-> 1, threads |-> 2, sequence |-> FALSE, slots |-> 0,
        lengths |-> {}, range |-> 9, start_id |-> 1, shm |-> "none",
        in_process |-> FALSE]

DataSets ==
    {<<FlatFile(1, 3)>>, <<FlatFile(1, 2), Checked(3, 5)>>,
     <<File(<<Str(1, 3)>>, <<VStr(1, 3)>>)>>,
     <<FlatFile(1, 2), File(<<Str(3, 4)>>, <<>>)>>,
     <<File(<<Str(1, 2), Flat(S(3))>>, <<>>)>>,
     <<File(<<Flat(S(1))>>, <<Flat(V(1)), Flat(V(2))>>)>>,
     <<File(<<Str(1, 2)>>, <<VStr(1, 1)>>)>>,
     <<File(<<Flat([A |-> Bad, B |-> T(1)])>>, <<>>)>>,
     <<File(<<Flat([A |-> T(1), B |-> T(1), X |-> T(1)])>>, <<>>)>>,
     <<[FlatFile(1, 1) EXCEPT !.parses = FALSE]>>, <<File(<<>>, <<>>)>>}

PlainJobs ==
    {[Job EXCEPT !.files = f, !.batch = b, !.threads = t] :
        f \in DataSets, b \in 1 .. 3, t \in 1 .. 3}
    \cup {[Job EXCEPT !.files = f, !.batch = b, !.model = m, !.shm = "none"] :
        f \in {<<File(<<Flat(S(1)), Flat(S1(2)), Flat(S(3))>>, <<>>)>>,
               <<File(<<Flat(S1(1)), Flat(S1(2))>>, <<>>)>>,
               <<File(<<Flat(SC(1)), Flat(SC(2)), Flat(SC(3))>>, <<>>)>>,
               <<File(<<Flat(SC(1)), Flat(S(2))>>, <<>>)>>,
               <<File(<<Flat(SS(1, "s")), Flat(SS(2, "s"))>>, <<>>)>>,
               <<File(<<Flat(SS(1, "s")), Flat(SS(2, "l"))>>, <<>>)>>},
        b \in 1 .. 2, m \in {Model, OptionalB, ShapeB, OpenA}}
    \cup {[Job EXCEPT !.source = s, !.dir = d, !.batch = b, !.model = m] :
        s \in {"dir", "generate"}, b \in 1 .. 2,
        d \in {S(1), S1(1), [A |-> T(1), B |-> Bad],
               [A |-> T(1), B |-> T(2), Y |-> T(3)]},
        m \in {Model, OptionalB, OpenA, [Model EXCEPT !.strings = {"A"}],
               [Model EXCEPT !.strings = {"A", "B"}]}}

SharedJobs ==
    {[Job EXCEPT !.files = f, !.batch = b, !.model = m, !.shm = s,
                 !.in_process = p, !.threads = 1] :
        f \in {<<FlatFile(1, 2)>>,
               <<File(<<Flat(SC(1)), Flat(SC(2))>>, <<>>)>>,
               <<File(<<Flat(S1(1))>>, <<>>)>>},
        b \in 1 .. 2, m \in {Model, ShapeB, OptionalB},
        s \in {"system", "cuda"}, p \in BOOLEAN}
    \cup {[Job EXCEPT !.source = "generate", !.shm = "system"]}

Uneven == <<File(<<Str(1, 2), Str(3, 3)>>, <<VStr(1, 2), VStr(3, 3)>>)>>
Rising == <<File(<<Str(1, 1), Str(2, 3)>>, <<VStr(1, 1), VStr(2, 3)>>)>>

SequenceJobs ==
    {[Job EXCEPT !.files = f, !.sequence = TRUE, !.threads = 0, !.slots = n,
                 !.range = r, !.lengths = l] :
        f \in {Uneven, Rising, <<FlatFile(1, 2), FlatFile(3, 3)>>,
               <<File(<<Str(1, 2)>>, <<>>), File(<<Str(3, 3)>>, <<>>)>>},
        n \in {2}, r \in {2, 9}, l \in {{}, {1, 3}}}
    \cup {[Job EXCEPT !.source = s, !.dir = S(1), !.sequence = TRUE,
                      !.threads = 0, !.slots = 3, !.range = r,
                      !.lengths = {1, 2}, !.start_id = i] :
        s \in {"dir", "generate"}, r \in {3, 9}, i \in {1, 7}}
    \cup {[Job EXCEPT !.files = Uneven, !.sequence = TRUE, !.threads = 0,
                      !.slots = 2, !.shm = "system"]}

MCJobs == PlainJobs \cup SharedJobs \cup SequenceJobs
=============================================================================
