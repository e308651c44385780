--------------------------- MODULE HostToolProofs ---------------------------
(***************************************************************************)
(* Proofs about HostTool: while the saves of the table do not overlap, the *)
(* file is the table between two of them, a change that was answered by    *)
(* 200 outlives a crash, and the tool starts again.                        *)
(***************************************************************************)
EXTENDS HostTool, FiniteSetTheorems, TLAPS

\* One handler at a time is in the save of the Python tool, and one at a time
\* writes the file.
Locked ==
  /\ \A h \in Handlers : tool = "python" /\ InSave(h) => colors_lock = h
  /\ \A g, h \in Handlers : Alone /\ Saving(g) /\ Saving(h) => g = h

\* What a handler has where it is.
Places ==
  \A h \in Handlers :
    /\ run # "up" => pc[h] = "idle"
    /\ pc[h] = "idle" => updated[h] = {}
    /\ pc[h] = "set" => todo[h] # <<>>

\* Changes are numbered in their order: no table has one that is yet to come.
Numbered ==
  \A u \in Uuids :
    /\ colors[u] <= change
    /\ file.table[u] <= change
    /\ \A h \in Handlers : data[h][u] <= change

\* Who is about to write has emptied the file,
Opened == Alone => \A h \in Handlers : pc[h] = "write" => file = Cut

\* and has the table as it is, unless someone changed it and will save it.
Fresh ==
  Alone /\ (\A h \in Handlers : pc[h] # "marshal") =>
    \A h \in Handlers : Saving(h) => data[h] = colors

\* The file and those who write it have a change.
Holds(e) ==
  /\ file.whole => file.table[e.uuid] >= e.change
  /\ \A h \in Handlers : Saving(h) => data[h][e.uuid] >= e.change

\* A change that is wherever the table of the next start may come from.
Kept(e) == (run = "up" => colors[e.uuid] >= e.change) /\ Holds(e)

\* A handler's own changes are in what it writes, and kept once it wrote them,
OwnKept(h, e) ==
  /\ colors[e.uuid] >= e.change
  /\ Saving(h) => data[h][e.uuid] >= e.change
  /\ pc[h] \in {"set", "reply"} => Kept(e)
Own == Alone => \A h \in Handlers : \A e \in updated[h] : OwnKept(h, e)

\* and so are all those that were answered by 200.
Answered == Alone => \A e \in acked : Kept(e)

\* The file is cut off while it is written, or since a write was interrupted.
Broken == Alone /\ ~file.whole => interrupted \/ \E h \in Handlers : pc[h] = "write"

\* The inductive invariant.
IInv ==
  /\ TypeOK
  /\ Locked
  /\ Places
  /\ Numbered
  /\ Opened
  /\ Fresh
  /\ Own
  /\ Answered
  /\ FileFollowsTable
  /\ Broken
  /\ StartsAgain
-----------------------------------------------------------------------------
\* The assumption on the constants, one by one.
LEMMA Constants ==
  /\ BAD \notin Uuids /\ NoHandler \notin Handlers /\ IsFiniteSet(Uuids)
  /\ MaxChanges \in Nat /\ MaxFailures \in Nat /\ MaxCrashes \in Nat
BY HostAssumption

\* A table has at most an entry for each UUID.
LEMMA Sizes ==
  ASSUME NEW table
  PROVE  Size(table) \in 0 .. Cardinality(Uuids)
<1>1. {u \in Uuids : table[u] # 0} \subseteq Uuids
  OBVIOUS
<1>2. /\ IsFiniteSet({u \in Uuids : table[u] # 0})
      /\ Cardinality({u \in Uuids : table[u] # 0}) <= Cardinality(Uuids)
  BY <1>1, FS_Subset, Constants
<1> QED
  BY <1>2, FS_CardinalityType, Constants DEF Size

\* What is written is a file, and that of the table when the file was empty.
LEMMA WrittenIs ==
  ASSUME file \in File, NEW table \in Table
  PROVE  /\ Written(table) \in File
         /\ Written(table).whole => Written(table).table = table
         /\ Written(table).table \in {table, Empty}
         /\ file = Cut => Written(table).whole
<1>1. Size(table) \in 0 .. Cardinality(Uuids)
  BY Sizes
<1>2. Empty \in Table /\ Cardinality(Uuids) \in Nat
  BY FS_CardinalityType, Constants DEF Empty, Table
<1>3. file.size \in 0 .. Cardinality(Uuids)
  BY DEF File
<1>4. CASE file.size > Size(table)
  <2>1. Written(table) = [whole |-> FALSE, table |-> Empty, size |-> file.size]
    BY <1>4 DEF Written, Cut
  <2>2. file # Cut
    BY <1>1, <1>2, <1>3, <1>4 DEF Cut
  <2> QED
    BY <1>2, <1>3, <2>1, <2>2 DEF File
<1>5. CASE ~(file.size > Size(table))
  <2>1. Written(table) = [whole |-> TRUE, table |-> table, size |-> Size(table)]
    BY <1>5 DEF Written
  <2> QED
    BY <1>1, <2>1 DEF File
<1> QED
  BY <1>4, <1>5

\* Saves that have overlapped stay so, and the tool stays the same.
LEMMA AloneBefore == [Next]_vars => tool' = tool /\ (Alone' => Alone)
<1> SUFFICES ASSUME [Next]_vars PROVE tool' = tool /\ (overlapped => overlapped')
  BY DEF Alone
<1> USE DEF handlers, history, bounds
<1>1. CASE UNCHANGED vars
  BY <1>1 DEF vars
<1>2. ASSUME NEW h \in Handlers, handler(h) PROVE tool' = tool /\ (overlapped => overlapped')
  <2>1. CASE save_colors(h)
    BY <2>1, Zenon DEF save_colors
  <2>2. CASE do_PATCH(h) \/ normalize_failed(h) \/ set_color(h) \/ open_file(h)
    BY <2>2 DEF do_PATCH, normalize_failed, set_color, open_file
  <2>3. CASE write_file(h) \/ save_failed(h) \/ send_json(h)
    BY <2>3 DEF write_file, save_failed, send_json
  <2> QED
    BY <1>2, <2>1, <2>2, <2>3 DEF handler
<1>3. CASE crash \/ load_uuid_color_table
  BY <1>3 DEF crash, load_uuid_color_table
<1> QED
  BY <1>1, <1>2, <1>3 DEF Next

\* Every step keeps the types,
LEMMA TypesStep == TypeOK /\ Places /\ [Next]_vars => TypeOK'
<1> SUFFICES ASSUME TypeOK, Places, [Next]_vars PROVE TypeOK'
  OBVIOUS
<1> USE Constants DEF handlers, history, bounds
<1>0. Empty \in Table
  BY DEF Empty, Table
<1>1. CASE UNCHANGED vars
  BY <1>1 DEF vars, TypeOK
<1>2. ASSUME NEW h \in Handlers, do_PATCH(h) PROVE TypeOK'
  <2>0. PICK n \in 1 .. 2 : \E entries \in [1 .. n -> Uuids \cup {BAD}] :
          todo' = [todo EXCEPT ![h] = entries]
    BY <1>2 DEF do_PATCH
  <2>1. PICK entries \in [1 .. n -> Uuids \cup {BAD}] : todo' = [todo EXCEPT ![h] = entries]
    BY <2>0
  <2>2. entries \in Seq(Uuids \cup {BAD})
    BY <2>1
  <2>3. todo' \in [Handlers -> Seq(Uuids \cup {BAD})]
    BY <2>1, <2>2 DEF TypeOK
  <2> QED
    BY <1>2, <2>3 DEF do_PATCH, TypeOK
<1>3. ASSUME NEW h \in Handlers, Leave(h)
      PROVE  /\ pc' \in [Handlers -> {"idle", "set", "marshal", "open", "write", "reply"}]
             /\ todo' \in [Handlers -> Seq(Uuids \cup {BAD})]
             /\ data' \in [Handlers -> Table]
             /\ updated' \in [Handlers -> SUBSET Entry]
  BY <1>0, <1>3 DEF Leave, TypeOK
<1>4. ASSUME NEW h \in Handlers, normalize_failed(h) PROVE TypeOK'
  BY <1>3, <1>4 DEF normalize_failed, TypeOK
<1>5. ASSUME NEW h \in Handlers, set_color(h) PROVE TypeOK'
  <2>0. todo[h] # <<>>
    BY <1>5 DEF set_color, Places
  <2>1. /\ Head(todo[h]) \in Uuids /\ Tail(todo[h]) \in Seq(Uuids \cup {BAD})
        /\ change' \in 1 .. MaxChanges
    BY <1>5, <2>0 DEF set_color, Normal, TypeOK
  <2>2. [uuid |-> Head(todo[h]), change |-> change'] \in Entry
    BY <2>1 DEF Entry
  <2>3. updated' \in [Handlers -> SUBSET Entry]
    BY <1>5, <2>2 DEF set_color, TypeOK
  <2>4. colors' \in Table
    BY <1>5, <2>1 DEF set_color, Table, TypeOK
  <2>5. colors_lock' \in Handlers \cup {NoHandler}
    BY <1>5 DEF set_color, Acquire, TypeOK
  <2> QED
    BY <1>5, <2>1, <2>3, <2>4, <2>5 DEF set_color, TypeOK
<1>6. ASSUME NEW h \in Handlers, save_colors(h) PROVE TypeOK'
  BY <1>6 DEF save_colors, TypeOK
<1>7. ASSUME NEW h \in Handlers, open_file(h) PROVE TypeOK'
  <2>1. Cut \in File
    BY <1>0, FS_CardinalityType DEF Cut, File
  <2> QED
    BY <1>7, <2>1 DEF open_file, TypeOK
<1>8. ASSUME NEW h \in Handlers, write_file(h) PROVE TypeOK'
  <2>1. Written(data[h]) \in File
    BY WrittenIs DEF TypeOK
  <2> QED
    BY <1>0, <1>8, <2>1 DEF write_file, Release, TypeOK
<1>9. ASSUME NEW h \in Handlers, save_failed(h) PROVE TypeOK'
  BY <1>3, <1>9 DEF save_failed, Release, TypeOK
<1>10. ASSUME NEW h \in Handlers, send_json(h) PROVE TypeOK'
  BY <1>3, <1>10 DEF send_json, TypeOK
<1>11. CASE crash
  BY <1>0, <1>11 DEF crash, TypeOK
<1>12. CASE load_uuid_color_table
  BY <1>12 DEF load_uuid_color_table, File, TypeOK
<1> QED
  BY <1>1, <1>2, <1>4, <1>5, <1>6, <1>7, <1>8, <1>9, <1>10, <1>11, <1>12 DEF Next, handler

\* A handler that is not idle is one of a tool that runs.
LEMMA Running == Places => \A h \in Handlers : pc[h] # "idle" => run = "up"
BY DEF Places

\* Every step keeps the lock that of who saves,
LEMMA LockedStep == TypeOK /\ Locked /\ [Next]_vars => Locked'
<1> SUFFICES ASSUME TypeOK, Locked, [Next]_vars PROVE Locked'
  OBVIOUS
<1> USE Constants DEF handlers, history, bounds, Saving, InSave
<1>0. pc \in [Handlers -> {"idle", "set", "marshal", "open", "write", "reply"}]
  BY DEF TypeOK
<1>1. /\ \A h \in Handlers : tool = "python" /\ InSave(h) => colors_lock = h
      /\ \A g, h \in Handlers : Alone /\ Saving(g) /\ Saving(h) => g = h
      /\ tool' = tool
      /\ Alone' => Alone
  BY AloneBefore DEF Locked
<1>2. ASSUME colors_lock' = colors_lock,
             \A h \in Handlers : pc'[h] = pc[h] \/ pc'[h] \in {"idle", "set", "reply"}
      PROVE  Locked'
  BY <1>1, <1>2 DEF Locked
<1>3. CASE UNCHANGED vars
  BY <1>2, <1>3 DEF vars
<1>4. ASSUME NEW h \in Handlers, do_PATCH(h) \/ normalize_failed(h) \/ send_json(h) PROVE Locked'
  <2>1. colors_lock' = colors_lock /\ \E s \in {"set", "idle"} : pc' = [pc EXCEPT ![h] = s]
    BY <1>4 DEF do_PATCH, normalize_failed, send_json, Leave
  <2> QED
    BY <1>0, <1>2, <2>1
<1>5. ASSUME NEW h \in Handlers, set_color(h) PROVE Locked'
  <2>1. /\ pc' = [pc EXCEPT ![h] = "marshal"]
        /\ tool = "python" => colors_lock = NoHandler /\ colors_lock' = h
    BY <1>5 DEF set_color, Acquire
  <2> QED
    BY <1>0, <1>1, <2>1 DEF Locked
<1>6. ASSUME NEW h \in Handlers, save_colors(h) PROVE Locked'
  <2>1. /\ pc[h] = "marshal" /\ pc' = [pc EXCEPT ![h] = "open"] /\ colors_lock' = colors_lock
        /\ tool = "go" /\ (\E g \in Handlers : Saving(g)) => overlapped'
    BY <1>6 DEF save_colors
  <2>2. tool \in {"python", "go"}
    BY DEF TypeOK
  <2>3. ASSUME Alone', NEW g \in Handlers, Saving(g) PROVE g = h
    BY <1>1, <2>1, <2>2, <2>3 DEF Alone
  <2> QED
    BY <1>0, <1>1, <2>1, <2>3 DEF Locked
<1>7. ASSUME NEW h \in Handlers, open_file(h) PROVE Locked'
  <2>1. pc[h] = "open" /\ pc' = [pc EXCEPT ![h] = "write"] /\ colors_lock' = colors_lock
    BY <1>7 DEF open_file
  <2> QED
    BY <1>0, <1>1, <2>1 DEF Locked
<1>8. ASSUME NEW h \in Handlers, write_file(h) \/ save_failed(h) PROVE Locked'
  <2>1. /\ pc[h] \in {"open", "write"}
        /\ \E s \in {"set", "reply", "idle"} : pc' = [pc EXCEPT ![h] = s]
    BY <1>8 DEF write_file, save_failed, Leave
  <2> QED
    BY <1>0, <1>1, <2>1 DEF Locked
<1>9. CASE crash
  BY <1>9 DEF crash, Locked
<1>10. CASE load_uuid_color_table
  BY <1>2, <1>10 DEF load_uuid_color_table
<1> QED
  BY <1>3, <1>4, <1>5, <1>6, <1>7, <1>8, <1>9, <1>10 DEF Next, handler

\* what a handler has where it is,
LEMMA PlacesStep == TypeOK /\ Places /\ [Next]_vars => Places'
<1> SUFFICES ASSUME TypeOK, Places, [Next]_vars PROVE Places'
  OBVIOUS
<1> USE DEF handlers, history, bounds
<1>0. /\ pc \in [Handlers -> {"idle", "set", "marshal", "open", "write", "reply"}]
      /\ todo \in [Handlers -> Seq(Uuids \cup {BAD})]
      /\ updated \in [Handlers -> SUBSET Entry]
  BY DEF TypeOK
<1>1. CASE UNCHANGED vars
  BY <1>1 DEF vars, Places
<1>2. ASSUME NEW h \in Handlers, do_PATCH(h) PROVE Places'
  <2>0. PICK n \in 1 .. 2 : \E entries \in [1 .. n -> Uuids \cup {BAD}] :
          todo' = [todo EXCEPT ![h] = entries]
    BY <1>2 DEF do_PATCH
  <2>1. PICK entries \in [1 .. n -> Uuids \cup {BAD}] : todo' = [todo EXCEPT ![h] = entries]
    BY <2>0
  <2>2. entries # <<>>
    <3>1. 1 \in DOMAIN entries
      OBVIOUS
    <3> QED
      BY <3>1
  <2>3. run = "up" /\ run' = run /\ pc' = [pc EXCEPT ![h] = "set"] /\ updated' = updated
    BY <1>2 DEF do_PATCH
  <2> QED
    BY <1>0, <2>1, <2>2, <2>3 DEF Places
<1>3. ASSUME NEW h \in Handlers, Leave(h), run' = run PROVE Places'
  BY <1>0, <1>3 DEF Leave, Places
<1>4. ASSUME NEW h \in Handlers, normalize_failed(h) \/ save_failed(h) \/ send_json(h)
      PROVE  Places'
  BY <1>3, <1>4 DEF normalize_failed, save_failed, send_json
<1>5. ASSUME NEW h \in Handlers, set_color(h) PROVE Places'
  <2>1. run = "up" /\ run' = run
    BY <1>5, Running DEF set_color
  <2>2. /\ pc' = [pc EXCEPT ![h] = "marshal"]
        /\ todo' = [todo EXCEPT ![h] = Tail(@)]
        /\ \A g \in Handlers \ {h} : updated'[g] = updated[g]
    BY <1>0, <1>5 DEF set_color
  <2> QED
    BY <1>0, <2>1, <2>2 DEF Places
<1>6. ASSUME NEW h \in Handlers, save_colors(h) \/ open_file(h) PROVE Places'
  <2>1. run = "up" /\ run' = run
    BY <1>6, Running DEF save_colors, open_file
  <2>2. UNCHANGED <<todo, updated>> /\ \E s \in {"open", "write"} : pc' = [pc EXCEPT ![h] = s]
    BY <1>6 DEF save_colors, open_file
  <2> QED
    BY <1>0, <2>1, <2>2 DEF Places
<1>7. ASSUME NEW h \in Handlers, write_file(h) PROVE Places'
  <2>1. run = "up" /\ run' = run
    BY <1>7, Running DEF write_file
  <2>2. /\ UNCHANGED <<todo, updated>>
        /\ pc' = [pc EXCEPT ![h] = IF todo[h] = <<>> THEN "reply" ELSE "set"]
    BY <1>7 DEF write_file
  <2> QED
    BY <1>0, <2>1, <2>2 DEF Places
<1>8. CASE crash
  BY <1>8 DEF crash, Places
<1>9. CASE load_uuid_color_table
  BY <1>9 DEF load_uuid_color_table, Places
<1> QED
  BY <1>1, <1>2, <1>4, <1>5, <1>6, <1>7, <1>8, <1>9 DEF Next, handler

\* the numbers of the changes,
LEMMA NumberedStep == TypeOK /\ Places /\ Numbered /\ [Next]_vars => Numbered'
<1> SUFFICES ASSUME TypeOK, Places, Numbered, [Next]_vars PROVE Numbered'
  OBVIOUS
<1> USE Constants DEF handlers, history, bounds
<1>0. /\ change \in Nat /\ colors \in Table /\ data \in [Handlers -> Table] /\ file \in File
      /\ todo \in [Handlers -> Seq(Uuids \cup {BAD})]
      /\ \A u \in Uuids : Empty[u] = 0
  BY DEF TypeOK, Empty
<1>1. ASSUME UNCHANGED <<colors, file, data, change>> PROVE Numbered'
  BY <1>1 DEF Numbered
<1>2. ASSUME NEW h \in Handlers, Leave(h), UNCHANGED <<colors, file, change>> PROVE Numbered'
  BY <1>0, <1>2 DEF Leave, Numbered
<1>3. CASE UNCHANGED vars
  BY <1>1, <1>3 DEF vars
<1>4. ASSUME NEW h \in Handlers, do_PATCH(h) PROVE Numbered'
  BY <1>1, <1>4 DEF do_PATCH
<1>5. ASSUME NEW h \in Handlers, normalize_failed(h) \/ save_failed(h) \/ send_json(h)
      PROVE  Numbered'
  BY <1>2, <1>5 DEF normalize_failed, save_failed, send_json
<1>6. ASSUME NEW h \in Handlers, set_color(h) PROVE Numbered'
  <2>1. /\ UNCHANGED <<file, data>> /\ change' = change + 1
        /\ colors' = [colors EXCEPT ![Head(todo[h])] = change']
    BY <1>6 DEF set_color
  <2> QED
    BY <1>0, <2>1 DEF Numbered, Table, File
<1>7. ASSUME NEW h \in Handlers, save_colors(h) PROVE Numbered'
  <2>1. UNCHANGED <<colors, file, change>> /\ data' = [data EXCEPT ![h] = colors]
    BY <1>7 DEF save_colors
  <2> QED
    BY <1>0, <2>1 DEF Numbered
<1>8. ASSUME NEW h \in Handlers, open_file(h) PROVE Numbered'
  BY <1>0, <1>8 DEF open_file, Cut, Numbered
<1>9. ASSUME NEW h \in Handlers, write_file(h) PROVE Numbered'
  <2>1. file'.table \in {data[h], Empty}
    BY <1>0, <1>9, WrittenIs DEF write_file
  <2>2. UNCHANGED <<colors, change>> /\ data' = [data EXCEPT ![h] = Empty]
    BY <1>9 DEF write_file
  <2> QED
    BY <1>0, <2>1, <2>2 DEF Numbered
<1>10. CASE crash
  BY <1>0, <1>10 DEF crash, Numbered
<1>11. CASE load_uuid_color_table
  BY <1>11 DEF load_uuid_color_table, Numbered
<1> QED
  BY <1>3, <1>4, <1>5, <1>6, <1>7, <1>8, <1>9, <1>10, <1>11 DEF Next, handler

\* the empty file of who writes,
LEMMA OpenedStep == TypeOK /\ Locked /\ Opened /\ [Next]_vars => Opened'
<1> SUFFICES ASSUME TypeOK, Locked, Opened, [Next]_vars, Alone',
                    NEW g \in Handlers, pc'[g] = "write"
             PROVE  file' = Cut
  BY DEF Opened
<1> USE DEF handlers, history, bounds
<1>0. /\ pc \in [Handlers -> {"idle", "set", "marshal", "open", "write", "reply"}]
      /\ Alone
  BY AloneBefore DEF TypeOK
<1>1. ASSUME file' = file, pc[g] = "write" PROVE file' = Cut
  BY <1>0, <1>1 DEF Opened
<1>2. CASE UNCHANGED vars
  BY <1>1, <1>2 DEF vars
<1>3. ASSUME NEW h \in Handlers, do_PATCH(h) \/ normalize_failed(h) \/ set_color(h)
      PROVE  file' = Cut
  BY <1>0, <1>1, <1>3 DEF do_PATCH, normalize_failed, set_color, Leave
<1>4. ASSUME NEW h \in Handlers, save_colors(h) PROVE file' = Cut
  BY <1>0, <1>1, <1>4 DEF save_colors
<1>5. ASSUME NEW h \in Handlers, save_failed(h) \/ send_json(h) PROVE file' = Cut
  BY <1>0, <1>1, <1>5 DEF save_failed, send_json, Leave
<1>6. ASSUME NEW h \in Handlers, open_file(h) PROVE file' = Cut
  BY <1>6 DEF open_file
<1>7. ASSUME NEW h \in Handlers, write_file(h) PROVE file' = Cut
  <2>1. pc[h] = "write" /\ pc' = [pc EXCEPT ![h] = IF todo[h] = <<>> THEN "reply" ELSE "set"]
    BY <1>7 DEF write_file
  <2>2. g # h /\ pc[g] = "write"
    BY <1>0, <2>1
  <2> QED
    BY <1>0, <2>1, <2>2 DEF Locked, Saving
<1>8. CASE crash \/ load_uuid_color_table
  BY <1>1, <1>8 DEF crash, load_uuid_color_table
<1> QED
  BY <1>2, <1>3, <1>4, <1>5, <1>6, <1>7, <1>8 DEF Next, handler

\* what it is going to write,
LEMMA FreshStep == TypeOK /\ Places /\ Locked' /\ Fresh /\ [Next]_vars => Fresh'
<1> SUFFICES ASSUME TypeOK, Places, Locked', Fresh, [Next]_vars, Alone',
                    \A h \in Handlers : pc'[h] # "marshal",
                    NEW g \in Handlers, pc'[g] \in {"open", "write"}
             PROVE  data'[g] = colors'
  BY DEF Fresh, Saving
<1> USE DEF handlers, history, bounds
<1>0. /\ pc \in [Handlers -> {"idle", "set", "marshal", "open", "write", "reply"}]
      /\ data \in [Handlers -> Table]
      /\ Alone
  BY AloneBefore DEF TypeOK
<1>1. ASSUME colors' = colors, data'[g] = data[g], Saving(g),
             \A h \in Handlers : pc[h] # "marshal"
      PROVE  data'[g] = colors'
  BY <1>0, <1>1 DEF Fresh
<1>2. CASE UNCHANGED vars
  BY <1>1, <1>2 DEF vars, Saving
<1>3. ASSUME NEW h \in Handlers, do_PATCH(h) \/ normalize_failed(h) \/ save_failed(h) \/ send_json(h)
      PROVE  data'[g] = colors'
  <2>1. /\ colors' = colors
        /\ pc[h] # "marshal"
        /\ \E s \in {"set", "idle"} : pc' = [pc EXCEPT ![h] = s]
        /\ data' = data \/ data' = [data EXCEPT ![h] = Empty]
    BY <1>3 DEF do_PATCH, normalize_failed, save_failed, send_json, Leave, Saving
  <2>2. g # h /\ pc'[g] = pc[g] /\ data'[g] = data[g]
    BY <1>0, <2>1
  <2>3. \A k \in Handlers : pc[k] # "marshal"
    BY <1>0, <2>1
  <2> QED
    BY <1>1, <2>1, <2>2, <2>3 DEF Saving
<1>4. ASSUME NEW h \in Handlers, set_color(h) PROVE data'[g] = colors'
  BY <1>0, <1>4 DEF set_color
<1>5. ASSUME NEW h \in Handlers, save_colors(h) PROVE data'[g] = colors'
  <2>1. /\ colors' = colors /\ pc' = [pc EXCEPT ![h] = "open"]
        /\ data' = [data EXCEPT ![h] = colors]
    BY <1>5 DEF save_colors
  <2>2. g = h
    BY <1>0, <2>1 DEF Locked, Saving
  <2> QED
    BY <1>0, <2>1, <2>2
<1>6. ASSUME NEW h \in Handlers, open_file(h) PROVE data'[g] = colors'
  <2>1. UNCHANGED <<colors, data>> /\ pc[h] = "open" /\ pc' = [pc EXCEPT ![h] = "write"]
    BY <1>6 DEF open_file
  <2>2. Saving(g) /\ \A k \in Handlers : pc[k] # "marshal"
    BY <1>0, <2>1 DEF Saving
  <2> QED
    BY <1>1, <2>1, <2>2
<1>7. ASSUME NEW h \in Handlers, write_file(h) PROVE data'[g] = colors'
  <2>1. /\ colors' = colors /\ data' = [data EXCEPT ![h] = Empty] /\ pc[h] = "write"
        /\ pc' = [pc EXCEPT ![h] = IF todo[h] = <<>> THEN "reply" ELSE "set"]
    BY <1>7 DEF write_file
  <2>2. g # h /\ pc'[g] = pc[g] /\ data'[g] = data[g]
    BY <1>0, <2>1
  <2>3. \A k \in Handlers : pc[k] # "marshal"
    BY <1>0, <2>1
  <2> QED
    BY <1>1, <2>1, <2>2, <2>3 DEF Saving
<1>8. CASE crash
  BY <1>8 DEF crash
<1>9. CASE load_uuid_color_table
  BY <1>9 DEF load_uuid_color_table, Places
<1> QED
  BY <1>2, <1>3, <1>4, <1>5, <1>6, <1>7, <1>8, <1>9 DEF Next, handler
-----------------------------------------------------------------------------
\* The table forgets a change only when the tool ends: while it runs, a UUID
\* keeps its last change or gets a later one.
LEMMA ColorsGrow ==
  ASSUME TypeOK, Places, Numbered, [Next]_vars, run' = "up", run = "up"
  PROVE  \A u \in Uuids : colors'[u] >= colors[u]
<1> USE DEF handlers, history, bounds
<1>0. /\ change \in Nat /\ colors \in Table
      /\ \A u \in Uuids : colors[u] \in Nat /\ colors[u] <= change
  BY Constants DEF TypeOK, Table, Numbered
<1>1. ASSUME UNCHANGED colors PROVE \A u \in Uuids : colors'[u] >= colors[u]
  BY <1>0, <1>1
<1>2. CASE UNCHANGED vars
  BY <1>1, <1>2 DEF vars
<1>3. ASSUME NEW h \in Handlers, set_color(h) PROVE \A u \in Uuids : colors'[u] >= colors[u]
  <2>1. change' = change + 1 /\ colors' = [colors EXCEPT ![Head(todo[h])] = change']
    BY <1>3 DEF set_color
  <2> QED
    BY <1>0, <2>1 DEF Table
<1>4. ASSUME NEW h \in Handlers,
             \/ do_PATCH(h) \/ normalize_failed(h) \/ save_colors(h) \/ open_file(h)
             \/ write_file(h) \/ save_failed(h) \/ send_json(h)
      PROVE  \A u \in Uuids : colors'[u] >= colors[u]
  <2>1. UNCHANGED colors
    <3>1. CASE save_colors(h) \/ open_file(h) \/ write_file(h) \/ save_failed(h)
      BY <3>1, Zenon DEF save_colors, open_file, write_file, save_failed
    <3>2. CASE do_PATCH(h) \/ normalize_failed(h) \/ send_json(h)
      BY <3>2, Zenon DEF do_PATCH, normalize_failed, send_json
    <3> QED
      BY <1>4, <3>1, <3>2
  <2> QED
    BY <1>1, <2>1
<1>5. CASE crash \/ load_uuid_color_table
  BY <1>5 DEF crash, load_uuid_color_table
<1> QED
  BY <1>2, <1>3, <1>4, <1>5 DEF Next, handler

\* A change that is kept stays kept, whatever saves, fails or ends.
LEMMA KeptStep ==
  ASSUME TypeOK, Places, Numbered, [Next]_vars, NEW e \in Entry, Kept(e)
  PROVE  Kept(e)'
<1> USE DEF handlers, history, bounds
<1>0. /\ pc \in [Handlers -> {"idle", "set", "marshal", "open", "write", "reply"}]
      /\ data \in [Handlers -> Table] /\ file \in File
      /\ e.uuid \in Uuids /\ e.change \in Nat
      /\ \A u \in Uuids : colors[u] \in Nat
  BY Constants DEF TypeOK, Entry, Table
<1>1. run = "up" => colors[e.uuid] >= e.change
  BY DEF Kept
<1>2. Holds(e)
  BY DEF Kept, Holds
<1>3. run' = "up" => colors'[e.uuid] >= e.change
  <2>1. CASE run = "up"
    <3>1. ASSUME run' = "up" PROVE colors'[e.uuid] >= e.change
      <4>1. colors'[e.uuid] >= colors[e.uuid]
        BY <1>0, <2>1, <3>1, ColorsGrow
      <4>2. colors'[e.uuid] \in Nat
        <5>1. TypeOK'
          BY TypesStep
        <5> QED
          BY <1>0, <5>1, Constants DEF TypeOK, Table
      <4> QED
        BY <1>0, <1>1, <2>1, <4>1, <4>2
    <3> QED
      BY <3>1
  <2>2. CASE run # "up"
    <3>1. \A h \in Handlers : ~handler(h) \/ run' = run
      BY <2>2, Zenon DEF handler, do_PATCH, normalize_failed, set_color, save_colors, open_file,
         write_file, save_failed, send_json
    <3>2. CASE load_uuid_color_table
      BY <1>2, <3>2 DEF load_uuid_color_table, Holds
    <3>3. CASE crash
      BY <3>3 DEF crash
    <3>4. CASE UNCHANGED vars
      BY <2>2, <3>4 DEF vars
    <3> QED
      BY <2>2, <3>1, <3>2, <3>3, <3>4 DEF Next
  <2> QED
    BY <2>1, <2>2
<1>4. ASSUME UNCHANGED file,
             \A g \in Handlers : pc'[g] \in {"open", "write"} => Saving(g) /\ data'[g] = data[g]
      PROVE  Holds(e)'
  BY <1>2, <1>4 DEF Holds, Saving
<1>5. Holds(e)'
  <2>1. CASE UNCHANGED vars
    BY <1>4, <2>1 DEF vars, Saving
  <2>2. ASSUME NEW h \in Handlers, do_PATCH(h) \/ normalize_failed(h) \/ save_failed(h) \/ send_json(h)
        PROVE  Holds(e)'
    <3>1. /\ file' = file
          /\ \E s \in {"set", "idle"} : pc' = [pc EXCEPT ![h] = s]
          /\ data' = data \/ data' = [data EXCEPT ![h] = Empty]
      BY <2>2 DEF do_PATCH, normalize_failed, save_failed, send_json, Leave
    <3> QED
      BY <1>0, <1>4, <3>1 DEF Saving
  <2>3. ASSUME NEW h \in Handlers, set_color(h) PROVE Holds(e)'
    BY <1>0, <1>4, <2>3 DEF set_color, Saving
  <2>4. ASSUME NEW h \in Handlers, save_colors(h) PROVE Holds(e)'
    <3>1. colors[e.uuid] >= e.change
      BY <1>1, <2>4, Running DEF save_colors
    <3>2. file' = file /\ pc' = [pc EXCEPT ![h] = "open"] /\ data' = [data EXCEPT ![h] = colors]
      BY <2>4 DEF save_colors
    <3> QED
      BY <1>0, <1>2, <3>1, <3>2 DEF Holds, Saving
  <2>5. ASSUME NEW h \in Handlers, open_file(h) PROVE Holds(e)'
    <3>1. /\ file' = Cut /\ data' = data
          /\ pc[h] = "open" /\ pc' = [pc EXCEPT ![h] = "write"]
      BY <2>5 DEF open_file
    <3> QED
      BY <1>0, <1>2, <3>1 DEF Holds, Saving, Cut
  <2>6. ASSUME NEW h \in Handlers, write_file(h) PROVE Holds(e)'
    <3>1. /\ pc[h] = "write" /\ data' = [data EXCEPT ![h] = Empty] /\ file' = Written(data[h])
          /\ \E s \in {"set", "reply"} : pc' = [pc EXCEPT ![h] = s]
      BY <2>6 DEF write_file
    <3>2. file'.whole => file'.table = data[h]
      BY <1>0, <3>1, WrittenIs
    <3>3. data[h][e.uuid] >= e.change
      BY <1>2, <3>1 DEF Holds, Saving
    <3> QED
      BY <1>0, <1>2, <3>1, <3>2, <3>3 DEF Holds, Saving
  <2>7. CASE crash
    BY <1>4, <2>7 DEF crash
  <2>8. CASE load_uuid_color_table
    BY <1>4, <2>8 DEF load_uuid_color_table, Saving
  <2> QED
    BY <2>1, <2>2, <2>3, <2>4, <2>5, <2>6, <2>7, <2>8 DEF Next, handler
<1> QED
  BY <1>3, <1>5 DEF Kept, Holds

\* A handler has its own changes in what it writes, and they are kept when it
\* goes on.
LEMMA OwnStep == IInv /\ [Next]_vars => Own'
<1> SUFFICES ASSUME IInv, [Next]_vars, Alone', NEW g \in Handlers, NEW e \in updated'[g]
             PROVE  OwnKept(g, e)'
  BY DEF Own
<1> USE DEF handlers, history, bounds
<1>0. /\ TypeOK /\ Places /\ Numbered /\ Locked /\ Own
      /\ pc \in [Handlers -> {"idle", "set", "marshal", "open", "write", "reply"}]
      /\ data \in [Handlers -> Table] /\ file \in File /\ colors \in Table /\ change \in Nat
      /\ todo \in [Handlers -> Seq(Uuids \cup {BAD})]
      /\ updated \in [Handlers -> SUBSET Entry]
      /\ Alone
  BY AloneBefore DEF IInv, TypeOK
<1>1. e \in Entry
  <2>1. TypeOK'
    BY <1>0, TypesStep
  <2> QED
    BY <2>1 DEF TypeOK
<1>2. /\ e.uuid \in Uuids /\ e.change \in Nat
      /\ colors[e.uuid] \in Nat /\ colors[e.uuid] <= change
  BY <1>0, <1>1, Constants DEF Entry, Table, TypeOK, Numbered
<1>3. colors'[e.uuid] \in Nat
  <2>1. TypeOK'
    BY <1>0, TypesStep
  <2> QED
    BY <1>2, <2>1, Constants DEF TypeOK, Table
\* An entry that the handler had before.
<1>4. ASSUME e \in updated[g], run' = "up",
             pc'[g] \in {"open", "write"} =>
               (Saving(g) /\ data'[g] = data[g]) \/ data'[g] = colors,
             pc'[g] \in {"set", "reply"} => pc[g] \in {"set", "reply"}
      PROVE  OwnKept(g, e)'
  <2>1. OwnKept(g, e) /\ pc[g] # "idle" /\ run = "up"
    BY <1>0, <1>4 DEF Own, Places
  <2>2. colors[e.uuid] >= e.change /\ colors'[e.uuid] >= colors[e.uuid]
    BY <1>0, <1>2, <1>4, <2>1, ColorsGrow DEF OwnKept
  <2>3. pc'[g] \in {"open", "write"} => data'[g][e.uuid] >= e.change
    BY <1>4, <2>1, <2>2 DEF OwnKept
  <2>4. ASSUME pc'[g] \in {"set", "reply"} PROVE Kept(e)'
    BY <1>0, <1>1, <1>4, <2>1, <2>4, KeptStep DEF OwnKept
  <2> QED
    BY <1>2, <1>3, <2>2, <2>3, <2>4 DEF OwnKept, Saving
<1>5. CASE UNCHANGED vars
  <2>1. e \in updated[g] /\ pc[g] # "idle"
    BY <1>0, <1>5 DEF vars, Places
  <2> QED
    BY <1>0, <1>4, <1>5, <2>1 DEF vars, Saving, Places
<1>6. ASSUME NEW h \in Handlers, do_PATCH(h) PROVE OwnKept(g, e)'
  <2>1. /\ run' = run /\ run = "up" /\ updated' = updated /\ data' = data
        /\ pc[h] = "idle" /\ pc' = [pc EXCEPT ![h] = "set"]
    BY <1>6 DEF do_PATCH
  <2>2. g # h
    BY <1>0, <2>1 DEF Places
  <2> QED
    BY <1>0, <1>4, <2>1, <2>2 DEF Saving
<1>7. ASSUME NEW h \in Handlers, normalize_failed(h) \/ save_failed(h) \/ send_json(h)
      PROVE  OwnKept(g, e)'
  <2>1. Leave(h) /\ run' = run /\ run = "up"
    BY <1>0, <1>7, Running DEF normalize_failed, save_failed, send_json, Saving
  <2>2. g # h
    BY <1>0, <2>1 DEF Leave
  <2>3. updated'[g] = updated[g] /\ pc'[g] = pc[g] /\ data'[g] = data[g]
    BY <1>0, <2>1, <2>2 DEF Leave
  <2> QED
    BY <1>4, <2>1, <2>3 DEF Saving
<1>8. ASSUME NEW h \in Handlers, set_color(h) PROVE OwnKept(g, e)'
  <2>0. run' = run /\ run = "up"
    BY <1>0, <1>8, Running DEF set_color
  <2>1. /\ data' = data /\ pc[h] = "set" /\ pc' = [pc EXCEPT ![h] = "marshal"]
        /\ change' = change + 1
        /\ colors' = [colors EXCEPT ![Head(todo[h])] = change']
        /\ updated' = [updated EXCEPT
             ![h] = @ \cup {[uuid |-> Head(todo[h]), change |-> change']}]
    BY <1>8 DEF set_color
  <2>2. CASE e \in updated[g]
    BY <1>0, <1>4, <2>0, <2>1, <2>2 DEF Saving
  <2>3. CASE e \notin updated[g]
    <3>1. g = h /\ e = [uuid |-> Head(todo[h]), change |-> change']
      BY <1>0, <2>1, <2>3
    <3>2. colors'[e.uuid] = e.change /\ pc'[g] = "marshal"
      BY <1>0, <1>2, <2>1, <3>1 DEF Table
    <3> QED
      BY <1>2, <3>2 DEF OwnKept, Saving
  <2> QED
    BY <2>2, <2>3
<1>9. ASSUME NEW h \in Handlers, save_colors(h) PROVE OwnKept(g, e)'
  <2>0. run' = run /\ run = "up"
    BY <1>0, <1>9, Running DEF save_colors
  <2>1. /\ updated' = updated /\ pc' = [pc EXCEPT ![h] = "open"]
        /\ data' = [data EXCEPT ![h] = colors]
    BY <1>9 DEF save_colors
  <2> QED
    BY <1>0, <1>4, <2>0, <2>1 DEF Saving
<1>10. ASSUME NEW h \in Handlers, open_file(h) PROVE OwnKept(g, e)'
  <2>0. run' = run /\ run = "up"
    BY <1>0, <1>10, Running DEF open_file
  <2>1. /\ UNCHANGED <<updated, data>> /\ pc[h] = "open" /\ pc' = [pc EXCEPT ![h] = "write"]
    BY <1>10 DEF open_file
  <2> QED
    BY <1>0, <1>4, <2>0, <2>1 DEF Saving
<1>11. ASSUME NEW h \in Handlers, write_file(h) PROVE OwnKept(g, e)'
  <2>0. run' = run /\ run = "up"
    BY <1>0, <1>11, Running DEF write_file
  <2>1. /\ UNCHANGED <<colors, updated>> /\ file' = Written(data[h])
        /\ data' = [data EXCEPT ![h] = Empty] /\ pc[h] = "write"
        /\ \E s \in {"set", "reply"} : pc' = [pc EXCEPT ![h] = s]
    BY <1>11 DEF write_file
  <2>2. CASE g # h
    BY <1>0, <1>4, <2>0, <2>1, <2>2 DEF Saving
  <2>3. CASE g = h
    <3>1. OwnKept(h, e)
      BY <1>0, <2>1, <2>3 DEF Own
    <3>2. colors'[e.uuid] >= e.change /\ data[h][e.uuid] >= e.change
      BY <2>1, <3>1 DEF OwnKept, Saving
    <3>3. file'.whole => file'.table[e.uuid] >= e.change
      <4>1. file'.whole => file'.table = data[h]
        BY <1>0, <2>1, WrittenIs
      <4> QED
        BY <3>2, <4>1
    <3>4. \A k \in Handlers : pc'[k] \notin {"open", "write"}
      BY <1>0, <2>1 DEF Locked, Saving
    <3> QED
      BY <2>3, <3>2, <3>3, <3>4 DEF OwnKept, Kept, Holds, Saving
  <2> QED
    BY <2>2, <2>3
<1>12. CASE crash
  BY <1>12 DEF crash
<1>13. CASE load_uuid_color_table
  BY <1>0, <1>13 DEF load_uuid_color_table, Places
<1> QED
  BY <1>5, <1>6, <1>7, <1>8, <1>9, <1>10, <1>11, <1>12, <1>13 DEF Next, handler

\* What is answered by 200 is kept, and stays so.
LEMMA AnsweredStep == IInv /\ [Next]_vars => Answered'
<1> SUFFICES ASSUME IInv, [Next]_vars, Alone', NEW e \in acked'
             PROVE  Kept(e)'
  BY DEF Answered
<1> USE DEF handlers, history, bounds
<1>0. /\ TypeOK /\ Places /\ Numbered /\ Own /\ Answered /\ Alone
      /\ updated \in [Handlers -> SUBSET Entry] /\ acked \in SUBSET Entry
  BY AloneBefore DEF IInv, TypeOK
<1>1. CASE e \in acked
  BY <1>0, <1>1, KeptStep DEF Answered
<1>2. ASSUME NEW h \in Handlers, send_json(h) PROVE Kept(e)'
  <2>1. CASE e \in updated[h]
    BY <1>0, <1>2, <2>1, KeptStep DEF send_json, Own, OwnKept
  <2> QED
    BY <1>1, <1>2, <2>1 DEF send_json
<1>3. CASE UNCHANGED vars
  BY <1>1, <1>3 DEF vars
<1>4. ASSUME NEW h \in Handlers,
             \/ do_PATCH(h) \/ normalize_failed(h) \/ set_color(h) \/ save_colors(h)
             \/ open_file(h) \/ write_file(h) \/ save_failed(h)
      PROVE  Kept(e)'
  <2>1. acked' = acked
    <3>1. CASE do_PATCH(h) \/ normalize_failed(h) \/ set_color(h)
      BY <3>1, Zenon DEF do_PATCH, normalize_failed, set_color
    <3>2. CASE save_colors(h) \/ open_file(h) \/ write_file(h) \/ save_failed(h)
      BY <3>2, Zenon DEF save_colors, open_file, write_file, save_failed
    <3> QED
      BY <1>4, <3>1, <3>2
  <2> QED
    BY <1>1, <2>1
<1>5. CASE crash \/ load_uuid_color_table
  BY <1>1, <1>5 DEF crash, load_uuid_color_table
<1> QED
  BY <1>2, <1>3, <1>4, <1>5 DEF Next, handler
-----------------------------------------------------------------------------
\* Every step leaves the file the table, once no handler is in its save.
LEMMA FollowsStep == IInv /\ [Next]_vars => FileFollowsTable'
<1> SUFFICES ASSUME IInv, [Next]_vars, run' = "up", Alone', ~unsaved',
                    \A h \in Handlers : pc'[h] \notin {"marshal", "open", "write"}
             PROVE  file'.whole /\ file'.table = colors'
  BY DEF FileFollowsTable, InSave, Saving
<1> USE DEF handlers, history, bounds
<1>0. /\ pc \in [Handlers -> {"idle", "set", "marshal", "open", "write", "reply"}]
      /\ data \in [Handlers -> Table] /\ file \in File
      /\ Alone /\ Fresh /\ Opened /\ Locked /\ FileFollowsTable
  BY AloneBefore DEF IInv, TypeOK
<1>1. ASSUME UNCHANGED <<run, file, colors, unsaved>>,
             \A h \in Handlers : pc[h] \notin {"marshal", "open", "write"}
      PROVE  file'.whole /\ file'.table = colors'
  BY <1>0, <1>1 DEF FileFollowsTable, InSave, Saving
<1>2. CASE UNCHANGED vars
  BY <1>1, <1>2 DEF vars
<1>3. ASSUME NEW h \in Handlers, do_PATCH(h) \/ normalize_failed(h) \/ send_json(h)
      PROVE  file'.whole /\ file'.table = colors'
  <2>1. /\ UNCHANGED <<run, file, colors, unsaved>>
        /\ pc[h] \in {"idle", "set", "reply"} /\ \E s \in {"set", "idle"} : pc' = [pc EXCEPT ![h] = s]
    BY <1>3 DEF do_PATCH, normalize_failed, send_json, Leave
  <2> QED
    BY <1>0, <1>1, <2>1
<1>4. ASSUME NEW h \in Handlers, set_color(h) \/ save_colors(h) \/ open_file(h)
      PROVE  file'.whole /\ file'.table = colors'
  <2>1. \E s \in {"marshal", "open", "write"} : pc' = [pc EXCEPT ![h] = s]
    BY <1>4 DEF set_color, save_colors, open_file
  <2> QED
    BY <1>0, <2>1
<1>5. ASSUME NEW h \in Handlers, write_file(h) PROVE file'.whole /\ file'.table = colors'
  <2>1. /\ pc[h] = "write" /\ file' = Written(data[h]) /\ colors' = colors
        /\ \E s \in {"set", "reply"} : pc' = [pc EXCEPT ![h] = s]
    BY <1>5 DEF write_file
  <2>2. file = Cut
    BY <1>0, <2>1 DEF Opened
  <2>3. data[h] = colors
    <3>1. \A k \in Handlers : pc[k] # "marshal"
      BY <1>0, <2>1
    <3> QED
      BY <1>0, <2>1, <3>1 DEF Fresh, Saving
  <2>4. file'.whole /\ file'.table = data[h]
    BY <1>0, <2>1, <2>2, WrittenIs
  <2> QED
    BY <2>1, <2>3, <2>4
<1>6. ASSUME NEW h \in Handlers, save_failed(h) PROVE file'.whole /\ file'.table = colors'
  BY <1>6 DEF save_failed
<1>7. CASE crash
  BY <1>7 DEF crash
<1>8. CASE load_uuid_color_table
  BY <1>8 DEF load_uuid_color_table
<1> QED
  BY <1>2, <1>3, <1>4, <1>5, <1>6, <1>7, <1>8 DEF Next, handler

\* Every step that cuts the file off is one of a handler that writes it next, or
\* interrupts a write.
LEMMA BrokenStep == IInv /\ [Next]_vars => Broken'
<1> SUFFICES ASSUME IInv, [Next]_vars, Alone', ~file'.whole
             PROVE  interrupted' \/ \E h \in Handlers : pc'[h] = "write"
  BY DEF Broken
<1> USE DEF handlers, history, bounds
<1>0. /\ pc \in [Handlers -> {"idle", "set", "marshal", "open", "write", "reply"}]
      /\ data \in [Handlers -> Table] /\ file \in File
      /\ Alone /\ Opened /\ Broken
  BY AloneBefore DEF IInv, TypeOK
<1>1. ASSUME file' = file, interrupted => interrupted',
             \A h \in Handlers : pc[h] = "write" => pc'[h] = "write" \/ interrupted'
      PROVE  interrupted' \/ \E h \in Handlers : pc'[h] = "write"
  BY <1>0, <1>1 DEF Broken
<1>2. CASE UNCHANGED vars
  BY <1>1, <1>2 DEF vars
<1>3. ASSUME NEW h \in Handlers,
             do_PATCH(h) \/ normalize_failed(h) \/ set_color(h) \/ save_colors(h) \/ send_json(h)
      PROVE  interrupted' \/ \E g \in Handlers : pc'[g] = "write"
  <2>1. /\ file' = file /\ interrupted' = interrupted
        /\ pc[h] # "write"
        /\ \E s \in {"set", "idle", "marshal", "open"} : pc' = [pc EXCEPT ![h] = s]
    <3>1. CASE do_PATCH(h) \/ normalize_failed(h) \/ send_json(h)
      BY <3>1 DEF do_PATCH, normalize_failed, send_json, Leave
    <3>2. CASE set_color(h) \/ save_colors(h)
      BY <3>2 DEF set_color, save_colors
    <3> QED
      BY <1>3, <3>1, <3>2
  <2> QED
    BY <1>0, <1>1, <2>1
<1>4. ASSUME NEW h \in Handlers, open_file(h)
      PROVE  interrupted' \/ \E g \in Handlers : pc'[g] = "write"
  BY <1>0, <1>4 DEF open_file
<1>5. ASSUME NEW h \in Handlers, write_file(h)
      PROVE  interrupted' \/ \E g \in Handlers : pc'[g] = "write"
  <2>1. pc[h] = "write" /\ file' = Written(data[h])
    BY <1>5 DEF write_file
  <2>2. file = Cut
    BY <1>0, <2>1 DEF Opened
  <2> QED
    BY <1>0, <2>1, <2>2, WrittenIs
<1>6. ASSUME NEW h \in Handlers, save_failed(h)
      PROVE  interrupted' \/ \E g \in Handlers : pc'[g] = "write"
  <2>1. /\ file' = file /\ interrupted' = (interrupted \/ pc[h] = "write")
        /\ pc' = [pc EXCEPT ![h] = "idle"]
    BY <1>6 DEF save_failed, Leave
  <2> QED
    BY <1>0, <1>1, <2>1
<1>7. CASE crash
  BY <1>1, <1>7 DEF crash
<1>8. CASE load_uuid_color_table
  BY <1>1, <1>8 DEF load_uuid_color_table
<1> QED
  BY <1>2, <1>3, <1>4, <1>5, <1>6, <1>7, <1>8 DEF Next, handler

\* A tool that does not start found a file that is cut off, which nobody was
\* about to write.
LEMMA StartsStep == IInv /\ [Next]_vars => StartsAgain'
<1> SUFFICES ASSUME IInv, [Next]_vars, run' = "failed", Alone' PROVE interrupted'
  BY DEF StartsAgain
<1> USE DEF handlers, history, bounds
<1>0. Alone /\ Places /\ Broken /\ StartsAgain
  BY AloneBefore DEF IInv
<1>1. ASSUME run' = run, interrupted => interrupted' PROVE interrupted'
  BY <1>0, <1>1 DEF StartsAgain
<1>2. CASE UNCHANGED vars
  BY <1>1, <1>2 DEF vars
<1>3. ASSUME NEW h \in Handlers, handler(h) PROVE interrupted'
  <2>1. run' = run /\ (interrupted => interrupted')
    <3>1. CASE do_PATCH(h) \/ normalize_failed(h) \/ set_color(h)
      BY <3>1 DEF do_PATCH, normalize_failed, set_color
    <3>2. CASE save_colors(h)
      BY <3>2 DEF save_colors
    <3>3. CASE open_file(h) \/ send_json(h)
      BY <3>3 DEF open_file, send_json
    <3>4. CASE save_failed(h)
      BY <3>4 DEF save_failed
    <3>5. ~write_file(h)
      BY <1>0 DEF write_file, Places
    <3> QED
      BY <1>3, <3>1, <3>2, <3>3, <3>4, <3>5 DEF handler
  <2> QED
    BY <1>1, <2>1
<1>4. CASE crash
  BY <1>4 DEF crash
<1>5. CASE load_uuid_color_table
  BY <1>0, <1>5 DEF load_uuid_color_table, Broken, Places
<1> QED
  BY <1>2, <1>3, <1>4, <1>5 DEF Next
-----------------------------------------------------------------------------
\* The invariant holds at the start and in every step.
LEMMA Invariant == Spec => []IInv
<1>1. Init => IInv
  <2> SUFFICES ASSUME Init PROVE IInv
    OBVIOUS
  <2> USE Constants DEF Init
  <2>1. Empty \in Table /\ 0 \in 0 .. Cardinality(Uuids) /\ \A u \in Uuids : Empty[u] = 0
    BY FS_CardinalityType DEF Empty, Table
  <2>2. TypeOK
    <3>1. file \in File /\ colors \in Table
      BY <2>1 DEF File
    <3>2. /\ pc \in [Handlers -> {"idle", "set", "marshal", "open", "write", "reply"}]
          /\ todo \in [Handlers -> Seq(Uuids \cup {BAD})]
          /\ data \in [Handlers -> Table]
          /\ updated \in [Handlers -> SUBSET Entry]
      BY <2>1
    <3>3. {overlapped, interrupted, unsaved} \subseteq BOOLEAN
      OBVIOUS
    <3> QED
      BY <3>1, <3>2, <3>3 DEF TypeOK
  <2>3. Locked /\ Places
    BY DEF Locked, Places, Saving, InSave
  <2>4. Numbered
    BY <2>1 DEF Numbered
  <2>5. Opened /\ Fresh /\ Own /\ Answered
    BY DEF Opened, Fresh, Own, Answered, Saving
  <2>6. FileFollowsTable /\ Broken /\ StartsAgain
    BY DEF FileFollowsTable, Broken, StartsAgain
  <2> QED
    BY <2>2, <2>3, <2>4, <2>5, <2>6 DEF IInv
<1>2. IInv /\ [Next]_vars => IInv'
  <2> SUFFICES ASSUME IInv, [Next]_vars PROVE IInv'
    OBVIOUS
  <2>1. TypeOK' /\ Locked' /\ Places'
    BY TypesStep, LockedStep, PlacesStep DEF IInv
  <2>2. Numbered' /\ Opened' /\ Fresh'
    BY <2>1, NumberedStep, OpenedStep, FreshStep DEF IInv
  <2>3. Own' /\ Answered'
    BY OwnStep, AnsweredStep
  <2>4. FileFollowsTable' /\ Broken' /\ StartsAgain'
    BY FollowsStep, BrokenStep, StartsStep
  <2> QED
    BY <2>1, <2>2, <2>3, <2>4 DEF IInv
<1> QED
  BY <1>1, <1>2, PTL DEF Spec

\* Every variable keeps its type.
THEOREM TypeCorrect == Spec => []TypeOK
<1>1. IInv => TypeOK
  BY DEF IInv
<1> QED
  BY <1>1, Invariant, PTL

\* Between two saves the file is the table, unless the last save failed or two
\* saves of the Go tool overlapped (mesh_tool.py:40-54, main.go:90-117).
THEOREM FollowsHolds == Spec => []FileFollowsTable
<1>1. IInv => FileFollowsTable
  BY DEF IInv
<1> QED
  BY <1>1, Invariant, PTL

\* A change that was answered by 200, or a later one of the same UUID, is in the
\* table (mesh_tool.py:166-179), and in the file unless that is cut off: because it is
\* being written, or because a write ended after it had emptied the file
\* (mesh_tool.py:46).
THEOREM AckedHolds == Spec => []AckedIsSaved
<1>1. IInv => AckedIsSaved
  BY DEF IInv, Answered, Kept, Holds, Broken, AckedIsSaved, InTable, InFile, BeingWritten, CutOff
<1> QED
  BY <1>1, Invariant, PTL

\* A tool that ends at any other place than between emptying its file and writing
\* it starts again (mesh_tool.py:46, protocol.py:46-61).
THEOREM StartsHolds == Spec => []StartsAgain
<1>1. IInv => StartsAgain
  BY DEF IInv
<1> QED
  BY <1>1, Invariant, PTL
=============================================================================
