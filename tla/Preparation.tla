----------------------------- MODULE Preparation -----------------------------
(***************************************************************************)
(* What is settled before a request can be sent, none of it concurrent     *)
(* with the load: a behaviour is one of Setup (from the command line to    *)
(* the exit status), one of InputData (from the data files to the          *)
(* requests) or one of Schedules (when they are due).                      *)
(***************************************************************************)
EXTENDS Setup

CONSTANTS Inputs, Outputs, Jobs, MaxRequests,    \* of InputData
          Plans, MaxTimestamps                   \* of Schedules

VARIABLES job, stage, loader, read, prepared, regions, ctx, seq, curr_seq_id,
          used,
          plan, part, stamps, given, got,
          mode

dataVars == <<job, stage, loader, read, prepared, regions, ctx, seq,
              curr_seq_id, used>>
timingVars == <<plan, part, stamps, given, got>>

Sent == INSTANCE InputData WITH pc <- stage
Timing == INSTANCE Schedules

ASSUME PreparationOK == OptionsOK /\ Sent!JobsOK /\ Timing!PlansOK

-----------------------------------------------------------------------------
\* The parts a behaviour is not about do not begin.
NoSetup == Init /\ argv = CHOOSE c \in CommandLines : TRUE
NoData == Sent!Init /\ job = CHOOSE j \in Jobs : TRUE
NoTiming == /\ plan = CHOOSE p \in Plans : TRUE
            /\ part = "failed" /\ stamps = <<>> /\ given = <<>> /\ got = <<>>

PreparationInit ==
    \/ mode = "setup" /\ Init /\ NoData /\ NoTiming
    \/ mode = "data" /\ NoSetup /\ Sent!Init /\ NoTiming
    \/ mode = "timing" /\ NoSetup /\ NoData /\ Timing!ScheduleInit

PreparationNext ==
    \/ mode = "setup" /\ Next
       /\ UNCHANGED <<dataVars, timingVars, mode>>
    \/ mode = "data" /\ Sent!Next
       /\ UNCHANGED <<vars, timingVars, mode>>
    \/ mode = "timing" /\ Timing!ScheduleNext
       /\ UNCHANGED <<vars, dataVars, mode>>

PreparationSpec ==
    PreparationInit
        /\ [][PreparationNext]_<<vars, dataVars, timingVars, mode>>

\* The requests of InputData carry the data the files hold for them.
RequestFaithful == mode = "data" => Sent!RequestFaithful

\* No data that InputData has loaded is left out of a round.
RoundsCoverData == mode = "data" => Sent!RoundsCoverData

\* Shared memory that InputData has made is given back.
RegionsReleased == mode = "data" => Sent!RegionsReleased

\* Sequences that are open at the same time have ids of their own.
OpenIdsDistinct == mode = "data" => Sent!OpenIdsDistinct

\* The workers together follow the one schedule that was asked for.
OnSchedule == mode = "timing" => Timing!OnSchedule
=============================================================================
