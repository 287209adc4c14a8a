--------------------------- MODULE ArtifactStore ---------------------------
(***************************************************************************)
(* The content-addressed artifact store on files (artifact_store.cpp):     *)
(* commit publishes an object through a temporary file, keeps it in the    *)
(* in-memory store and appends it to the manifest; erase removes the       *)
(* object and leaves a tombstone; the first operation after a restart      *)
(* rebuilds everything from manifest, objects and tombstones, and makes    *)
(* the store read-only when they do not agree. Neither commit nor erase    *)
(* holds a lock from end to end: a writer is a process that takes its      *)
(* steps between those of the others, and the process may crash between    *)
(* any two.                                                                *)
(*                                                                         *)
(* An artifact's id is a prefix of its digest: content and id are one      *)
(* number here. A file is "none", "partial" or "full".                     *)
(***************************************************************************)
EXTENDS Integers, Sequences, FiniteSets

CONSTANTS
  Contents,        \* artifacts
  SizeOf,          \* [Contents -> Nat]
  MaxTotalBytes,
  MaxFaults,       \* bound: writes that fail
  MaxCrashes,      \* bound
  Writers,         \* threads
  Scripts          \* what each thread does, chosen at the start

VARIABLES files, live, writers, told
\* files: the directory. live: the process's memory. told: what callers were told.
artifactVars == <<files, live, writers, told>>

EmptyFiles ==
  [object |-> [c \in Contents |-> "none"], temp |-> [c \in Contents |-> "none"],
   manifest |-> << >>, tombstones |-> {}, faults |-> 0, crashes |-> 0]
NotLoaded ==
  [loaded |-> FALSE, read_only |-> FALSE, memory |-> [c \in Contents |-> "absent"],
   paths |-> {}, tombstones |-> {}]

-----------------------------------------------------------------------------
(* MemoryArtifactStore. *)

Sum(set) ==
  LET sum[s \in SUBSET set] ==
        IF s = {} THEN 0 ELSE LET c == CHOOSE c \in s : TRUE IN SizeOf[c] + sum[s \ {c}]
  IN  sum[set]
used_bytes(l) == Sum({c \in Contents : l.memory[c] = "kept"})

\* Content that is kept already costs nothing; an erased one is kept anew.
MemoryCommit(l, c) ==
  IF l.memory[c] = "kept" THEN [ok |-> TRUE, live |-> l]
  ELSE IF SizeOf[c] > MaxTotalBytes - used_bytes(l) THEN [ok |-> FALSE, live |-> l]
  ELSE [ok |-> TRUE, live |-> [l EXCEPT !.memory[c] = "kept"]]
MemoryErase(l, c) ==
  [ok |-> l.memory[c] # "absent",
   live |-> IF l.memory[c] = "absent" THEN l ELSE [l EXCEPT !.memory[c] = "erased"]]

-----------------------------------------------------------------------------
(* FileArtifactStore. *)

\* One manifest line (0: torn). A line whose object is not whole condemns the
\* store to read-only, a tombstoned one is passed over.
LoadLine(f, l, c) ==
  IF c = 0 THEN [l EXCEPT !.read_only = TRUE]
  ELSE IF c \in l.tombstones THEN l
  ELSE IF f.object[c] # "full" \/ ~MemoryCommit(l, c).ok THEN [l EXCEPT !.read_only = TRUE]
  ELSE [MemoryCommit(l, c).live EXCEPT !.paths = @ \cup {c}]
ensure_loaded(f, l) ==
  LET first == [NotLoaded EXCEPT !.tombstones = f.tombstones]
      after[i \in 0 .. Len(f.manifest)] ==
        IF i = 0 THEN first ELSE LoadLine(f, after[i - 1], f.manifest[i])
  IN  IF l.loaded THEN l ELSE [after[Len(f.manifest)] EXCEPT !.loaded = TRUE]

\* Whether open() serves the artifact.
Opens(f, l, c) == c \in ensure_loaded(f, l).paths /\ f.object[c] = "full"

\* erase without interruption, as another component calls it; broken: the
\* tombstone cannot be written.
EraseArtifact(f, l, c, broken) ==
  LET loaded == ensure_loaded(f, l)
      done   == MemoryErase(loaded, c)
      without == [f EXCEPT !.object[c] = IF c \in loaded.paths THEN "none" ELSE @]
  IN  IF ~done.ok THEN [ok |-> FALSE, files |-> f, live |-> loaded]
      ELSE IF broken THEN [ok |-> FALSE, files |-> without, live |-> done.live]
      ELSE [ok |-> TRUE, files |-> [without EXCEPT !.tombstones = @ \cup {c}],
            live |-> [done.live EXCEPT !.tombstones = @ \cup {c}, !.paths = @ \ {c}]]

-----------------------------------------------------------------------------
(* The threads. *)

Idle == [at |-> "idle", c |-> 0]
ArtifactInit ==
  /\ files = EmptyFiles /\ live = NotLoaded
  /\ \E s \in Scripts : writers = [w \in Writers |-> [at |-> "idle", c |-> 0, todo |-> s[w]]]
  /\ told = [c \in Contents |-> "nothing"]

Goto(w, at) == writers' = [writers EXCEPT ![w].at = at]
Answer(w, c, word) ==
  /\ writers' = [writers EXCEPT ![w].at = "idle", ![w].c = 0]
  /\ told' = [told EXCEPT ![c] = IF word = "failed" \/ @ = "contested" THEN @ ELSE word]
Others(w, c) == {o \in Writers \ {w} : writers[o].at # "idle" /\ writers[o].c = c}
Erasing(w) == writers[w].at \in {"remove", "entomb"}

Begin(w) ==
  LET do == Head(writers[w].todo)
      l  == ensure_loaded(files, live)
      refused == \/ do[1] = "commit" /\ (l.read_only \/ do[2] \in l.tombstones)
                 \/ do[1] = "erase" /\ ~MemoryErase(l, do[2]).ok
  IN  /\ writers[w].at = "idle" /\ writers[w].todo # << >>
      /\ writers' = [writers EXCEPT ![w] =
           [at |-> IF refused THEN "idle" ELSE IF do[1] = "commit" THEN "open" ELSE "remove",
            c |-> IF refused THEN 0 ELSE do[2], todo |-> Tail(@.todo)]]
      /\ live' = IF do[1] = "erase" THEN MemoryErase(l, do[2]).live ELSE l
      /\ told' = IF refused THEN told
                 ELSE IF \E o \in Others(w, do[2]) : Erasing(o) # (do[1] = "erase")
                   THEN [told EXCEPT ![do[2]] = "contested"]
                 ELSE IF do[1] = "erase" /\ told[do[2]] # "contested"
                   THEN [told EXCEPT ![do[2]] = "erasing"] ELSE told
      /\ UNCHANGED files

\* commit: the temporary file is truncated, written, and renamed unless the
\* object exists. Whoever has the file open goes on writing to it under its new
\* name.
OpenTemp(w) ==
  LET c == writers[w].c
  IN  /\ writers[w].at = "open" /\ Goto(w, "write")
      /\ files' = [files EXCEPT !.temp[c] = "partial"]
      /\ UNCHANGED <<live, told>>
WriteTemp(w) ==
  LET c == writers[w].c
  IN  /\ writers[w].at \in {"write", "write renamed"} /\ Goto(w, "publish")
      /\ files' = IF writers[w].at = "write" /\ files.temp[c] # "none"
                    THEN [files EXCEPT !.temp[c] = "full"]
                  ELSE IF writers[w].at = "write renamed" /\ files.object[c] # "none"
                    THEN [files EXCEPT !.object[c] = "full"] ELSE files
      /\ UNCHANGED <<live, told>>
Publish(w) ==
  LET c == writers[w].c
  IN  /\ writers[w].at = "publish"
      /\ IF files.object[c] # "none"
           THEN /\ files' = [files EXCEPT !.temp[c] = "none"] /\ Goto(w, "keep") /\ UNCHANGED told
         ELSE IF files.temp[c] = "none"
           THEN Answer(w, c, "failed") /\ UNCHANGED files
         ELSE /\ files' = [files EXCEPT !.object[c] = files.temp[c], !.temp[c] = "none"]
              /\ writers' = [o \in Writers |->
                   IF o = w THEN [writers[w] EXCEPT !.at = "keep"]
                   ELSE IF o \in Others(w, c) /\ writers[o].at = "write"
                     THEN [writers[o] EXCEPT !.at = "write renamed"] ELSE writers[o]]
              /\ told' = IF files.temp[c] = "partial" THEN [told EXCEPT ![c] = "contested"] ELSE told
      /\ UNCHANGED live
\* The capacity is checked after the object was published.
Keep(w) ==
  LET c == writers[w].c
      done == MemoryCommit(live, c)
  IN  /\ writers[w].at = "keep" /\ live' = done.live
      /\ IF done.ok THEN Goto(w, "manifest") /\ UNCHANGED <<files, told>>
         ELSE Answer(w, c, "failed") /\ files' = [files EXCEPT !.object[c] = "none"]
AppendManifest(w) ==
  LET c == writers[w].c
  IN  /\ writers[w].at = "manifest"
      /\ \/ /\ files' = [files EXCEPT !.manifest = Append(@, c)]
            /\ Goto(w, "index") /\ UNCHANGED <<live, told>>
         \/ /\ files.faults < MaxFaults
            /\ files' = [files EXCEPT !.object[c] = "none", !.faults = @ + 1]
            /\ live' = [MemoryErase(live, c).live EXCEPT !.read_only = TRUE]
            /\ Answer(w, c, "failed")
Index(w) ==
  /\ writers[w].at = "index"
  /\ live' = [live EXCEPT !.paths = @ \cup {writers[w].c}]
  /\ Answer(w, writers[w].c, "committed") /\ UNCHANGED files

\* erase, after the in-memory store forgot the bytes: the object, then the
\* tombstone.
RemoveObject(w) ==
  LET c == writers[w].c
  IN  /\ writers[w].at = "remove" /\ Goto(w, "entomb")
      /\ files' = IF c \in live.paths THEN [files EXCEPT !.object[c] = "none"] ELSE files
      /\ UNCHANGED <<live, told>>
Entomb(w) ==
  LET c == writers[w].c
  IN  /\ writers[w].at = "entomb"
      /\ \/ /\ files' = [files EXCEPT !.tombstones = @ \cup {c}]
            /\ live' = [live EXCEPT !.tombstones = @ \cup {c}, !.paths = @ \ {c}]
            /\ Answer(w, c, "erased")
         \/ /\ files.faults < MaxFaults /\ files' = [files EXCEPT !.faults = @ + 1]
            /\ Answer(w, c, "failed") /\ UNCHANGED live

\* A crash loses memory and the operations in flight; the manifest line being
\* written may be torn.
Crash ==
  /\ files.crashes < MaxCrashes
  /\ LET torn == \E w \in Writers : writers[w].at = "manifest"
     IN  \E tear \in IF torn THEN BOOLEAN ELSE {FALSE} :
           files' = [files EXCEPT !.crashes = @ + 1,
                       !.manifest = IF tear THEN Append(@, 0) ELSE @]
  /\ live' = NotLoaded
  /\ writers' = [w \in Writers |-> [at |-> "idle", c |-> 0, todo |-> writers[w].todo]]
  /\ UNCHANGED told

ArtifactStep(w) ==
  \/ Begin(w) \/ OpenTemp(w) \/ WriteTemp(w) \/ Publish(w) \/ Keep(w)
  \/ AppendManifest(w) \/ Index(w) \/ RemoveObject(w) \/ Entomb(w)
ArtifactNext == Crash \/ \E w \in Writers : ArtifactStep(w)

-----------------------------------------------------------------------------
=============================================================================
