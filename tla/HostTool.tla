------------------------------ MODULE HostTool ------------------------------
(***************************************************************************)
(* The table of team colors that the host keeps (tools/mesh_tool.py, and   *)
(* its counterpart tools/go/main.go): HTTP handlers, each in a thread of   *)
(* its own, change it by PUT and PATCH and save it in a file after every   *)
(* change; the tool loads the file when it starts.                         *)
(*                                                                         *)
(* The Python tool changes and saves under one lock; the Go tool locks the *)
(* table alone, and writes the file outside the lock.                      *)
(*                                                                         *)
(* A change is a number: the table maps a UUID to the last one that set    *)
(* its color, and 0 to a UUID that is not in it.                           *)
(***************************************************************************)
EXTENDS Integers, Sequences, FiniteSets

CONSTANTS
  Uuids,        \* the teams
  BAD,          \* an entry of a PATCH with a color that is none
  Handlers,     \* the threads of the HTTP server
  NoHandler,    \* the lock is free
  MaxChanges,   \* bounds of the model: changes,
  MaxFailures,  \* writes that fail,
  MaxCrashes    \* and crashes

ASSUME HostAssumption ==
  /\ BAD \notin Uuids
  /\ NoHandler \notin Handlers
  /\ IsFiniteSet(Uuids)
  /\ {MaxChanges, MaxFailures, MaxCrashes} \subseteq Nat

Table == [Uuids -> 0 .. MaxChanges]
Empty == [u \in Uuids |-> 0]

\* The length of the text of a table: one entry is as long as another.
Size(table) == Cardinality({u \in Uuids : table[u] # 0})

\* A file: whole when its text is that of a table, which is cut off or mixed up
\* otherwise.
File == [whole : BOOLEAN, table : Table, size : 0 .. Cardinality(Uuids)]
Cut == [whole |-> FALSE, table |-> Empty, size |-> 0]

Entry == [uuid : Uuids, change : 1 .. MaxChanges]

VARIABLES
  tool,        \* "python" or "go"
  run,         \* "up", "down", or "failed": it does not start
  colors,      \* the table
  file,        \* the table file
  colors_lock, \* the handler that holds the lock of the Python tool
  pc,          \* where each handler is
  todo,        \* the entries that it has yet to set
  data,        \* the table as it is going to write it
  updated,     \* what it answers
  change,      \* the changes that were made
  acked,       \* history: the changes that were answered by 200
  overlapped,  \* history: the Go tool saved twice at a time
  interrupted, \* history: a write ended between opening and writing the file, and
               \* no other was done since
  unsaved,     \* history: the last write failed
  failures, crashes

handlers == <<pc, todo, data, updated>>
history == <<acked, overlapped, interrupted, unsaved>>
bounds == <<failures, crashes>>
vars == <<tool, run, colors, file, colors_lock, handlers, change, history, bounds>>

TypeOK ==
  /\ tool \in {"python", "go"}
  /\ run \in {"up", "down", "failed"}
  /\ colors \in Table
  /\ file \in File
  /\ colors_lock \in Handlers \cup {NoHandler}
  /\ pc \in [Handlers -> {"idle", "set", "marshal", "open", "write", "reply"}]
  /\ todo \in [Handlers -> Seq(Uuids \cup {BAD})]
  /\ data \in [Handlers -> Table]
  /\ updated \in [Handlers -> SUBSET Entry]
  /\ change \in 0 .. MaxChanges
  /\ acked \in SUBSET Entry
  /\ {overlapped, interrupted, unsaved} \subseteq BOOLEAN
  /\ failures \in 0 .. MaxFailures
  /\ crashes \in 0 .. MaxCrashes

\* The tool has started with a table file without entries.
Init ==
  /\ tool \in {"python", "go"}
  /\ run = "up"
  /\ colors = Empty
  /\ file = [whole |-> TRUE, table |-> Empty, size |-> 0]
  /\ colors_lock = NoHandler
  /\ pc = [h \in Handlers |-> "idle"]
  /\ todo = [h \in Handlers |-> <<>>]
  /\ data = [h \in Handlers |-> Empty]
  /\ updated = [h \in Handlers |-> {}]
  /\ change = 0
  /\ acked = {}
  /\ overlapped = FALSE
  /\ interrupted = FALSE
  /\ unsaved = FALSE
  /\ failures = 0
  /\ crashes = 0

Saving(h) == pc[h] \in {"open", "write"}
InSave(h) == pc[h] = "marshal" \/ Saving(h)
-----------------------------------------------------------------------------
\* A request begins: a PUT has one entry, a PATCH some.
do_PATCH(h) ==
  /\ run = "up"
  /\ pc[h] = "idle"
  /\ pc' = [pc EXCEPT ![h] = "set"]
  /\ \E entries \in UNION {[1 .. n -> Uuids \cup {BAD}] : n \in 1 .. 2} :
       todo' = [todo EXCEPT ![h] = entries]
  /\ UNCHANGED <<tool, run, colors, file, colors_lock, data, updated, change, history, bounds>>

\* The handler is done; its locals are dead.
Leave(h) ==
  /\ pc' = [pc EXCEPT ![h] = "idle"]
  /\ todo' = [todo EXCEPT ![h] = <<>>]
  /\ data' = [data EXCEPT ![h] = Empty]
  /\ updated' = [updated EXCEPT ![h] = {}]

\* Mutant: a color is taken as it comes.
Normal_always(entry) == TRUE

\* normalize_color accepts the color of an entry.
Normal(entry) == entry # BAD

\* The next entry is none: 400, and those before it stay as they are.
normalize_failed(h) ==
  /\ pc[h] = "set"
  /\ ~Normal(Head(todo[h]))
  /\ Leave(h)
  /\ UNCHANGED <<tool, run, colors, file, colors_lock, change, history, bounds>>

\* Mutant: the Python tool does not lock.
Acquire_not(h) == UNCHANGED colors_lock

\* with self.colors_lock: (the Go tool unlocks at once).
Acquire(h) ==
  IF tool = "python"
  THEN colors_lock = NoHandler /\ colors_lock' = h
  ELSE UNCHANGED colors_lock

Release(h) == colors_lock' = NoHandler

\* set_color changes the table,
set_color(h) ==
  /\ pc[h] = "set"
  /\ Normal(Head(todo[h]))
  /\ change < MaxChanges
  /\ Acquire(h)
  /\ change' = change + 1
  /\ colors' = [colors EXCEPT ![Head(todo[h])] = change']
  /\ updated' = [updated EXCEPT ![h] = @ \cup {[uuid |-> Head(todo[h]), change |-> change']}]
  /\ todo' = [todo EXCEPT ![h] = Tail(@)]
  /\ pc' = [pc EXCEPT ![h] = "marshal"]
  /\ UNCHANGED <<tool, run, file, data, history, bounds>>

\* save_colors makes a text of it,
save_colors(h) ==
  /\ pc[h] = "marshal"
  /\ data' = [data EXCEPT ![h] = colors]
  /\ overlapped' = (overlapped \/ (tool = "go" /\ \E g \in Handlers : Saving(g)))
  /\ pc' = [pc EXCEPT ![h] = "open"]
  /\ UNCHANGED <<tool, run, colors, file, colors_lock, todo, updated, change, acked,
                 interrupted, unsaved, bounds>>

\* opens the file, which empties it,
open_file(h) ==
  /\ pc[h] = "open"
  /\ file' = Cut
  /\ pc' = [pc EXCEPT ![h] = "write"]
  /\ UNCHANGED <<tool, run, colors, colors_lock, todo, data, updated, change, history, bounds>>

\* The text of a table over what the file holds: a longer text shows behind it.
Written(table) ==
  IF file.size > Size(table)
  THEN [Cut EXCEPT !.size = file.size]
  ELSE [whole |-> TRUE, table |-> table, size |-> Size(table)]

\* and writes it.  The next entry follows, or the answer.
write_file(h) ==
  /\ pc[h] = "write"
  /\ file' = Written(data[h])
  /\ unsaved' = FALSE
  /\ interrupted' = FALSE
  /\ Release(h)
  /\ data' = [data EXCEPT ![h] = Empty]
  /\ pc' = [pc EXCEPT ![h] = IF todo[h] = <<>> THEN "reply" ELSE "set"]
  /\ UNCHANGED <<tool, run, colors, todo, updated, change, acked, overlapped, bounds>>

\* Mutant: the failure is passed over.
save_failed_ignored(h) ==
  /\ Saving(h)
  /\ failures < MaxFailures
  /\ failures' = failures + 1
  /\ unsaved' = TRUE
  /\ interrupted' = (interrupted \/ pc[h] = "write")
  /\ IF tool = "python" THEN Release(h) ELSE UNCHANGED colors_lock
  /\ pc' = [pc EXCEPT ![h] = "reply"]
  /\ UNCHANGED <<tool, run, colors, file, todo, data, updated, change, acked, overlapped, crashes>>

\* The file is not opened, or not written: there is no 200.
save_failed(h) ==
  /\ Saving(h)
  /\ failures < MaxFailures
  /\ failures' = failures + 1
  /\ unsaved' = TRUE
  /\ interrupted' = (interrupted \/ pc[h] = "write")
  /\ IF tool = "python" THEN Release(h) ELSE UNCHANGED colors_lock
  /\ Leave(h)
  /\ UNCHANGED <<tool, run, colors, file, change, acked, overlapped, crashes>>

\* 200, with all that was updated.
send_json(h) ==
  /\ pc[h] = "reply"
  /\ acked' = acked \cup updated[h]
  /\ Leave(h)
  /\ UNCHANGED <<tool, run, colors, file, colors_lock, change, overlapped, interrupted, unsaved,
                 bounds>>
-----------------------------------------------------------------------------
\* The tool ends, wherever its threads are.
crash ==
  /\ run = "up"
  /\ crashes < MaxCrashes
  /\ crashes' = crashes + 1
  /\ run' = "down"
  /\ colors' = Empty
  /\ colors_lock' = NoHandler
  /\ pc' = [h \in Handlers |-> "idle"]
  /\ todo' = [h \in Handlers |-> <<>>]
  /\ data' = [h \in Handlers |-> Empty]
  /\ updated' = [h \in Handlers |-> {}]
  /\ interrupted' = (interrupted \/ \E h \in Handlers : pc[h] = "write")
  /\ UNCHANGED <<tool, file, change, acked, overlapped, unsaved, failures>>

\* It starts again, unless the file is not that of a table.
load_uuid_color_table ==
  /\ run = "down"
  /\ IF file.whole
     THEN run' = "up" /\ colors' = file.table
     ELSE run' = "failed" /\ UNCHANGED colors
  /\ unsaved' = FALSE
  /\ UNCHANGED <<tool, file, colors_lock, handlers, change, acked, overlapped, interrupted,
                 bounds>>
-----------------------------------------------------------------------------
handler(h) ==
  \/ do_PATCH(h)
  \/ normalize_failed(h)
  \/ set_color(h)
  \/ save_colors(h)
  \/ open_file(h)
  \/ write_file(h)
  \/ save_failed(h)
  \/ send_json(h)

Next ==
  \/ \E h \in Handlers : handler(h)
  \/ crash
  \/ load_uuid_color_table

Spec == Init /\ [][Next]_vars
-----------------------------------------------------------------------------
(***************************************************************************)
(* Properties.                                                             *)
(***************************************************************************)

\* One save at a time: so it is in the Python tool always, and in the Go tool
\* when no two requests met.
Alone == tool = "python" \/ ~overlapped

\* Between two saves the file is the table, and no change is missing in it
\* because of another one, unless a write failed.
FileFollowsTable ==
  run = "up" /\ Alone /\ ~unsaved /\ (\A h \in Handlers : ~InSave(h)) =>
    file.whole /\ file.table = colors

\* A change that was answered by 200, or a later one of the same UUID, is in the
\* table of a tool that is up and in the file of one that is up or down, while
\* other threads save, a write fails or the tool ends.  The exception is a file that
\* is cut off: while it is written, and after a write ended between emptying it and
\* writing it, with which every change is lost to a tool that is not up.
InTable(e) == run = "up" => colors[e.uuid] >= e.change
InFile(e) == file.whole /\ file.table[e.uuid] >= e.change
BeingWritten == ~file.whole /\ \E h \in Handlers : pc[h] = "write"
CutOff == ~file.whole /\ interrupted
AckedIsSaved ==
  Alone => \A e \in acked : InTable(e) /\ (InFile(e) \/ BeingWritten \/ CutOff)

\* The tool starts again, unless it ended just when the file was empty, or the
\* Go tool mixed two texts.
StartsAgain == run = "failed" => interrupted \/ ~Alone
=============================================================================
