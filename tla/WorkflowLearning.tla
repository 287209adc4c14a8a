-------------------------- MODULE WorkflowLearning --------------------------
(***************************************************************************)
(* What workflow runs leave behind in long-term memory: the episode of     *)
(* every settled run and the lesson of a recovered one (record_episode,    *)
(* record_recovery_lesson and retrieve_lessons of the workflow runtime,    *)
(* the documents of workflow_learning.cpp).                                *)
(*                                                                         *)
(* One run settles on its drive while hosts ask for its lesson. The memory *)
(* is the contract of IMemory: a mutation id is applied once and answered  *)
(* as applied afterwards; applying may fail. Time only tells records made  *)
(* at different moments apart. A reason is a code, a free text or absent.  *)
(***************************************************************************)
EXTENDS Naturals, Sequences

CONSTANTS Hosts, RunFacts, MaxActions, MaxClock
\* RunFacts: [outcome, policy, escalations, step, reason, patches, audited], where
\* step is 0 without a failure signature and patches are those after the last
\* escalation.

VARIABLES facts,    \* what the run did
          settle,   \* where its settlement is: commit, emit, episode, done
          known,    \* RunRecord: settled event, episode recorded, lesson
          caller,   \* host -> [pc, lesson]
          memory,   \* mutation id -> record, none before it is applied
          audit,    \* recorded events
          clock, closed
learningVars == <<facts, settle, known, caller, memory, audit, clock, closed>>

NoRecord == [kind |-> "none"]

-----------------------------------------------------------------------------
(* Documents. *)

sanitized_reason(reason) == reason = "code"

workflow_episode_to_json(e) == [doc |-> "episode", major |-> 1, body |-> e]
workflow_episode_from_json(j) ==
  /\ j.doc = "episode" /\ j.major = 1
  /\ j.body.outcome \in {"Completed", "Failed", "Cancelled"}
  /\ j.body.reason # "none" => sanitized_reason(j.body.reason)
  /\ j.body.outcome = "Failed" => j.body.step # 0 /\ j.body.reason # "none"

failure_signature_from_json(s) == sanitized_reason(s.reason)
recovery_lesson_to_json(l) == [doc |-> "lesson", major |-> 1, body |-> l]
recovery_lesson_from_json(j) ==
  /\ j.doc = "lesson" /\ j.major = 1
  /\ failure_signature_from_json(j.body.failure)
  /\ Len(j.body.recovery) <= MaxActions
  /\ j.body.resumed \/ j.body.recovery # << >>

recovery_lesson_from_record(r) ==
  r.kind = "RecoveryLesson" /\ recovery_lesson_from_json(r.statement)

-----------------------------------------------------------------------------
Init ==
  /\ facts \in RunFacts
  /\ settle = "commit"
  /\ known = [event |-> FALSE, episode |-> FALSE, lesson |-> NoRecord]
  /\ caller = [h \in Hosts |-> [pc |-> "idle", lesson |-> NoRecord]]
  /\ memory = [episode |-> NoRecord, lesson |-> NoRecord]
  /\ audit = << >> /\ clock = 0 /\ closed = FALSE

Tick == clock' = IF clock < MaxClock THEN clock + 1 ELSE clock

\* IMemory::apply, idempotent by mutation id.
apply(id, record) ==
  memory' = IF memory[id].kind = "none" THEN [memory EXCEPT ![id] = record] ELSE memory

\* settle_terminal: the state is committed first, then the event is appended
\* (which may fail), then the episode is recorded.
commit_terminal ==
  /\ settle = "commit" /\ settle' = "emit"
  /\ UNCHANGED <<facts, known, caller, memory, audit, clock, closed>>
emit_run_settled ==
  /\ settle = "emit" /\ settle' = "episode"
  /\ known' = [known EXCEPT !.event = facts.audited]
  /\ UNCHANGED <<facts, caller, memory, audit, clock, closed>>

Episode ==
  [outcome |-> facts.outcome, at |-> clock,
   step   |-> IF facts.outcome = "Failed" THEN facts.step ELSE 0,
   reason |-> IF facts.outcome # "Failed" THEN "none"
              ELSE IF facts.step = 0 THEN "code" ELSE facts.reason]
episode_to_memory_record(e) == [kind |-> "Episode", statement |-> workflow_episode_to_json(e)]

\* No episode for a dry run, nor without the event as evidence.
record_episode ==
  /\ settle = "episode" /\ settle' = "done"
  /\ IF facts.policy = "DryRun" \/ ~known.event \/ known.episode
       THEN UNCHANGED <<known, memory, audit, clock>>
       ELSE /\ Tick
            /\ \/ /\ apply("episode", episode_to_memory_record(Episode))
                  /\ known' = [known EXCEPT !.episode = TRUE]
                  /\ audit' = Append(audit, [what |-> "episode", ok |-> TRUE])
               \/ /\ audit' = Append(audit, [what |-> "episode", ok |-> FALSE])
                  /\ UNCHANGED <<known, memory>>
  /\ UNCHANGED <<facts, caller, closed>>

-----------------------------------------------------------------------------
(* record_recovery_lesson: checks under the lock, applies outside it. *)

Lesson ==
  [failure |-> [step |-> facts.step, reason |-> facts.reason],
   recovery |-> SubSeq(facts.patches, 1, IF Len(facts.patches) < MaxActions
                                           THEN Len(facts.patches) ELSE MaxActions),
   resumed |-> facts.patches = << >>, at |-> clock]
recovery_lesson_to_memory_record(l) ==
  [kind |-> "RecoveryLesson", statement |-> recovery_lesson_to_json(l)]

Committed == settle # "commit"
\* Mutant: any settled run has a lesson.
TeachesLesson_Any == Committed
TeachesLesson ==
  /\ Committed /\ facts.outcome = "Completed" /\ facts.policy # "DryRun"
  /\ facts.escalations > 0 /\ facts.step # 0 /\ known.event

record_lesson_begin(h) ==
  /\ caller[h].pc = "idle"
  /\ IF closed THEN caller' = [caller EXCEPT ![h].pc = "refused"] /\ UNCHANGED clock
     ELSE IF known.lesson.kind # "none"
       THEN caller' = [caller EXCEPT ![h] = [pc |-> "done", lesson |-> known.lesson]] /\ UNCHANGED clock
     ELSE IF ~TeachesLesson THEN caller' = [caller EXCEPT ![h].pc = "refused"] /\ UNCHANGED clock
     ELSE /\ Tick
          /\ caller' = [caller EXCEPT ![h] =
               [pc |-> "apply", lesson |-> recovery_lesson_to_memory_record(Lesson)]]
  /\ UNCHANGED <<facts, settle, known, memory, audit, closed>>

record_lesson_apply(h) ==
  /\ caller[h].pc = "apply"
  /\ \/ /\ apply("lesson", caller[h].lesson)
        /\ caller' = [caller EXCEPT ![h].pc = "note"] /\ UNCHANGED audit
     \/ /\ caller' = [caller EXCEPT ![h] = [pc |-> "refused", lesson |-> NoRecord]]
        /\ audit' = Append(audit, [what |-> "lesson", ok |-> FALSE]) /\ UNCHANGED memory
  /\ UNCHANGED <<facts, settle, known, clock, closed>>

\* The first note stays; every caller keeps the lesson it made.
record_lesson_note(h) ==
  /\ caller[h].pc = "note"
  /\ known' = [known EXCEPT !.lesson = IF @.kind = "none" THEN caller[h].lesson ELSE @]
  /\ audit' = Append(audit, [what |-> "lesson", ok |-> TRUE])
  /\ caller' = [caller EXCEPT ![h].pc = "done"]
  /\ UNCHANGED <<facts, settle, memory, clock, closed>>

shutdown == ~closed /\ closed' = TRUE
            /\ UNCHANGED <<facts, settle, known, caller, memory, audit, clock>>

Next ==
  \/ commit_terminal \/ emit_run_settled \/ record_episode \/ shutdown
  \/ \E h \in Hosts : record_lesson_begin(h) \/ record_lesson_apply(h) \/ record_lesson_note(h)

LearningQuiet ==
  settle = "done" /\ \A h \in Hosts : caller[h].pc \in {"done", "refused"}

-----------------------------------------------------------------------------
(* Properties. *)

Timeless(r) == [r EXCEPT !.statement.body.at = 0]

\* What is in memory can be read by the contract that retrieval reads with, as
\* long as the failure had a code and, for a failed run, a step; it tells of the
\* run as it ended; a dry run and an unaudited run leave nothing; and whoever was
\* handed a lesson holds the one in memory, up to its time stamp.
ExperienceIsTrue ==
  /\ memory.lesson.kind # "none" =>
       /\ facts.outcome = "Completed" /\ facts.escalations > 0
       /\ facts.reason = "code" => recovery_lesson_from_record(memory.lesson)
       /\ \A h \in Hosts : caller[h].pc = "done"
            => Timeless(caller[h].lesson) = Timeless(memory.lesson)
  /\ memory.episode.kind # "none" =>
       /\ memory.episode.statement.body.outcome = facts.outcome
       /\ (facts.outcome = "Failed" => facts.step # 0 /\ facts.reason = "code")
            => workflow_episode_from_json(memory.episode.statement)
  /\ facts.policy = "DryRun" \/ ~facts.audited
       => memory.episode.kind = "none" /\ memory.lesson.kind = "none"
=============================================================================
