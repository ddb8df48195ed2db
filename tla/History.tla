------------------------------ MODULE History ------------------------------
(***************************************************************************)
(* The log of runs, history/spiffs.c.                                      *)
(*                                                                         *)
(* save_history puts an entry in front of the file /spiffs/log.txt: it     *)
(* reads the whole file, closes it, opens it again for writing, which      *)
(* empties it, and writes the new entry and then the old contents.         *)
(* push_history keeps the file open while it sends the entries to the      *)
(* display.  SPIFFS is mounted for one open file: whoever finds it open    *)
(* fails, reports nothing and gives up.                                    *)
(*                                                                         *)
(* stone_cmd saves on P02 and pushes on B01 and B42, timer_handle saves    *)
(* when a run expires; nothing keeps them apart.  An entry is known by the *)
(* order in which save_history was called.                                 *)
(***************************************************************************)
EXTENDS HistoryLimits, Naturals, Sequences, SequencesExt, FiniteSetsExt

CONSTANTS
  Tasks,       \* the tasks that save
  Pushers,     \* those of them that push
  HeapLines    \* entries that malloc can find room for

ASSUME ConstantsOK ==
  /\ Pushers \subseteq Tasks
  /\ HeapLines \in Nat /\ LOG_MAX \in Nat /\ MaxEntries \in Nat

Entries == 1 .. MaxEntries

VARIABLES
  log,      \* contents of the file, first line first
  open,     \* the tasks that have the file open
  pc,       \* next step of each task
  new,      \* the entry each task is saving
  content,  \* the old contents each task has read
  shown,    \* the rows last sent to the display
  (* The rest only observes. *)
  calls,    \* calls of save_history
  alone,    \* entries whose saving met nothing else and had room
  pushed    \* what the file held when the push that was shown was begun

vars == <<log, open, pc, new, content, shown, calls, alone, pushed>>

Init ==
  /\ log = <<>>
  /\ open = {}
  /\ pc = [t \in Tasks |-> "idle"]
  /\ new = [t \in Tasks |-> 0]
  /\ content = [t \in Tasks |-> <<>>]
  /\ shown = <<>>
  /\ calls = 0 /\ alone = {}
  /\ pushed = <<>>

Goto(t, step) == pc' = [pc EXCEPT ![t] = step]
Busy == {t \in Tasks : pc[t] # "idle"}
Saving == {new[t] : t \in {u \in Tasks : pc[u] # "idle"}} \ {0}

-----------------------------------------------------------------------------
(* save_history: insert_text_at_first_line.                                *)

save_history(t) ==
  /\ pc[t] = "idle" /\ calls < MaxEntries
  /\ calls' = calls + 1
  /\ new' = [new EXCEPT ![t] = calls']
  /\ alone' = IF Busy = {} THEN alone \union {calls'} ELSE alone \ Saving
  /\ Goto(t, "open_r")
  /\ UNCHANGED <<log, open, content, shown, pushed>>

Done(t) == Goto(t, "idle") /\ new' = [new EXCEPT ![t] = 0]

fopen_r(t) ==
  /\ pc[t] = "open_r"
  /\ IF open = {} THEN open' = {t} /\ Goto(t, "read") /\ UNCHANGED new
                  ELSE Done(t) /\ UNCHANGED open
  /\ UNCHANGED <<log, content, shown, calls, alone, pushed>>

\* malloc, fread and fclose.
fread(t) ==
  /\ pc[t] = "read"
  /\ open' = open \ {t}
  /\ IF Len(log) <= HeapLines
     THEN /\ content' = [content EXCEPT ![t] = log]
          /\ Goto(t, "open_w")
          /\ UNCHANGED <<new, alone>>
     ELSE /\ Done(t)
          /\ alone' = alone \ {new[t]}
          /\ UNCHANGED content
  /\ UNCHANGED <<log, shown, calls, pushed>>

\* Opening for writing empties the file.
fopen_w_Appending(t) ==
  /\ pc[t] = "open_w"
  /\ IF open = {}
     THEN open' = {t} /\ Goto(t, "write") /\ UNCHANGED <<new, content>>
     ELSE /\ Done(t)
          /\ content' = [content EXCEPT ![t] = <<>>]
          /\ UNCHANGED open
  /\ UNCHANGED <<log, shown, calls, alone, pushed>>
fopen_w_Shared(t) ==
  /\ pc[t] = "open_w"
  /\ open' = open \union {t} /\ log' = <<>>
  /\ Goto(t, "write")
  /\ UNCHANGED <<new, content, shown, calls, alone, pushed>>
fopen_w(t) ==
  /\ pc[t] = "open_w"
  /\ IF open = {}
     THEN /\ open' = {t} /\ log' = <<>>
          /\ Goto(t, "write")
          /\ UNCHANGED <<new, content>>
     ELSE /\ Done(t)
          /\ content' = [content EXCEPT ![t] = <<>>]
          /\ UNCHANGED <<open, log>>
  /\ UNCHANGED <<shown, calls, alone, pushed>>

\* What fprintf writes: the new line and the old contents.
Rewritten_OldFirst(t) == content[t] \o <<new[t]>>
Rewritten(t) == <<new[t]>> \o content[t]

\* fprintf, then fclose.
fwrite(t) ==
  /\ pc[t] = "write"
  /\ log' = log \o Rewritten(t)
  /\ open' = open \ {t}
  /\ content' = [content EXCEPT ![t] = <<>>]
  /\ Done(t)
  /\ UNCHANGED <<shown, calls, alone, pushed>>

-----------------------------------------------------------------------------
(* push_history.                                                           *)

push_history(t) ==
  /\ pc[t] = "idle"
  /\ IF open = {} THEN open' = {t} /\ Goto(t, "push") /\ pushed' = log
                  ELSE UNCHANGED <<open, pc, pushed>>
  /\ alone' = alone \ Saving
  /\ UNCHANGED <<log, new, content, shown, calls>>

push_rows(t) ==
  /\ pc[t] = "push"
  /\ shown' = SubSeq(log, 1, Min({Len(log), LOG_MAX}))
  /\ Goto(t, "close")
  /\ UNCHANGED <<log, open, new, content, calls, alone, pushed>>

push_close(t) ==
  /\ pc[t] = "close"
  /\ open' = open \ {t}
  /\ Goto(t, "idle")
  /\ UNCHANGED <<log, new, content, shown, calls, alone, pushed>>

-----------------------------------------------------------------------------
\* A reset.  A task that was writing has written a beginning of its text: some of its
\* lines, and perhaps a part of the next, which is no entry (see HistoryRows).
Reset ==
  /\ \/ /\ \A t \in Tasks : pc[t] # "write"
        /\ UNCHANGED log
     \/ \E t \in Tasks :
          /\ pc[t] = "write"
          /\ log' \in Prefixes(Rewritten(t))
  /\ alone' = (alone \ Saving) \intersect
                (Range(log') \union
                   {n \in Entries : \A t \in Tasks : pc[t] # "write"})
  /\ open' = {}
  /\ pc' = [t \in Tasks |-> "idle"]
  /\ new' = [t \in Tasks |-> 0]
  /\ content' = [t \in Tasks |-> <<>>]
  /\ UNCHANGED <<shown, calls, pushed>>

Step(t) ==
  \/ fopen_r(t) \/ fread(t) \/ fopen_w(t) \/ fwrite(t)
  \/ push_rows(t) \/ push_close(t)

Next ==
  \/ \E t \in Tasks : save_history(t) \/ Step(t)
  \/ \E t \in Pushers : push_history(t)
  \/ Reset

Spec == Init /\ [][Next]_vars

-----------------------------------------------------------------------------
(* Properties.                                                             *)

\* An entry that was saved alone stays in the log, newest first, whatever the
\* tasks do later and in whatever order, until a reset catches the rewriting
\* of the file: what that reset has lost is no longer asked for here.
AloneKept ==
  (\A t \in Tasks : pc[t] = "idle") =>
    /\ alone \subseteq Range(log)
    /\ \A i, j \in DOMAIN log :
         i < j /\ log[i] \in alone /\ log[j] \in alone => log[i] > log[j]

\* What a reset does to the entries that were saved alone.  Unless it catches the
\* rewriting of the file it loses none; and if it does, it loses the oldest: where an
\* entry is still in the log every newer one is, the one being written included.
ResetLosesOldest ==
  [][ Reset =>
        LET kept == alone \ {new[t] : t \in {u \in Tasks : pc[u] # "write"}}
        IN  /\ (\A t \in Tasks : pc[t] # "write") => kept \subseteq Range(log')
            /\ \A m, n \in kept : m < n /\ m \in Range(log') => n \in Range(log')
    ]_vars

\* No entry is in the log, or read by a task, twice.
NoDuplicates ==
  /\ IsInjective(log)
  /\ \A t \in Tasks : IsInjective(content[t]) /\ new[t] \notin Range(content[t])

\* The file is emptied and rewritten only by a task that has it open alone, and
\* a push shows what the file held when the push began: no save gets between.
PushIsSnapshot ==
  \A t \in Tasks : pc[t] = "close" =>
    shown = SubSeq(pushed, 1, Min({Len(pushed), LOG_MAX}))

=============================================================================
