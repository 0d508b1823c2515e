------------------------------ MODULE SentSync ------------------------------
(***************************************************************************)
(* The synchronisation of a mailbox's Sent folder, which gates its inbox:  *)
(* a worker reads the cursor row, searches the folder from there, stores   *)
(* what it found and moves the cursor; only a complete batch lets it go on *)
(* to the inbox.  Nothing locks the cursor between its read and its write. *)
(*                                                                         *)
(* A folder stands for a folder name together with its UIDVALIDITY, which  *)
(* the code compares together; its mails are numbered by UID.  Times are   *)
(* ticks, DayLength of them a day, because SINCE compares days only.       *)
(***************************************************************************)
EXTENDS Naturals, Sequences, FiniteSets

CONSTANTS
  Workers,      \* the server processes
  Folders,      \* the values of (folder name, UIDVALIDITY)
  NoFolder,     \* the folder of a cursor that does not exist
  Windows,      \* the values of sent_backfill_days; 0 disables the sync
  DayLength,    \* ticks in a day
  BatchSize,    \* SENT_SYNC_BATCH_SIZE (200 in the code)
  Start,        \* the first tick, late enough for every window to fit
  Dates,        \* the dates mails can have
  MaxTime, MaxMails, MaxEdits, MaxFaults    \* bounds of the exploration

ASSUME SyncAssumption ==
  /\ NoFolder \notin Folders
  /\ DayLength \in Nat \ {0}
  /\ BatchSize \in Nat \ {0}
  /\ Start \in Nat
  /\ Dates \subseteq Nat
  /\ Windows \subseteq {d \in Nat : d * DayLength <= Start}
  /\ {MaxTime, MaxMails, MaxEdits, MaxFaults} \subseteq Nat

VARIABLES
  pc, conf, cursor, want, batch,  \* each worker's local state
  row, recorded,                  \* mailbox_sync_state, sent_messages
  date,                           \* the Sent folders: the date of each UID
  now, folder, window,            \* the clock and the configuration
  edits, faults,                  \* what the bounds count
  owed, raced                     \* history, for the properties

local == <<pc, conf, cursor, want, batch>>
store == <<row, recorded>>
world == <<date, now, folder, window, edits>>
vars  == <<local, store, world, faults, owed, raced>>

Cursor == [folder : Folders \cup {NoFolder}, last : Nat, cutoff : Nat]
NoCursor == [folder |-> NoFolder, last |-> 0, cutoff |-> 0]
Row   == [cursor : Cursor, complete : BOOLEAN]
NoRow == [cursor |-> NoCursor, complete |-> FALSE]
NoConf   == [folder |-> NoFolder, window |-> 0]
NoBatch  == [folder |-> NoFolder, since |-> 0, uids |-> {}, complete |-> FALSE]

Init ==
  /\ pc     = [w \in Workers |-> "idle"]
  /\ conf   = [w \in Workers |-> NoConf]
  /\ cursor = [w \in Workers |-> NoCursor]
  /\ want   = [w \in Workers |-> 0]
  /\ batch  = [w \in Workers |-> NoBatch]
  /\ row = NoRow
  /\ recorded = {}
  /\ date = [f \in Folders |-> <<>>]
  /\ now = Start
  /\ folder \in Folders
  /\ window \in Windows
  /\ edits = 0
  /\ faults = 0
  /\ owed = [w \in Workers |-> {}]
  /\ raced = FALSE

-----------------------------------------------------------------------------
(* What the IMAP search returns.                                           *)

Midnights(t) == {m \in 0..t : m % DayLength = 0}

(* SINCE asks for the day of the cutoff or a later one.                    *)
Since(f, uid, cutoff) == \A m \in Midnights(cutoff) : m <= date[f][uid]

(* The mails of a folder from a date on.                                   *)
Window(f, cutoff) == {uid \in 1..Len(date[f]) : Since(f, uid, cutoff)}

(* Slip: a window that reaches further back is not noticed.                *)
ResumesAlways(c, f, cutoff) == c.folder = f
(* sent_sync_range: go on after the cursor, from the cutoff it was begun   *)
(* with, unless the folder changed or the window reaches further back.     *)
Resumes(c, f, cutoff) == c.folder = f /\ cutoff >= c.cutoff
FromUid(c, f, cutoff) == IF Resumes(c, f, cutoff) THEN c.last ELSE 0
FromDate(c, f, cutoff) == IF Resumes(c, f, cutoff) THEN c.cutoff ELSE cutoff

(* Slip: the search begins at the last UID instead of after it.            *)
FoundAgain(f, last, cutoff) == {uid \in Window(f, cutoff) : uid >= last}
Found(f, last, cutoff) == {uid \in Window(f, cutoff) : uid > last}

(* Slip: the batch is cut before it is sorted.                             *)
Lasts(uids) ==
  {uid \in uids : Cardinality({v \in uids : v > uid}) < BatchSize}
(* uids.sort_unstable, uids.truncate(limit).                               *)
Firsts(uids) ==
  {uid \in uids : Cardinality({v \in uids : v < uid}) < BatchSize}

(* Slip: an empty batch has -1 for its largest UID.                        *)
LastUidOrMinusOne(uids) ==
  IF uids = {} THEN 0 - 1 ELSE CHOOSE uid \in uids : \A v \in uids : v <= uid
(* The largest UID of a batch, 0 for none.                                 *)
LastUid(uids) ==
  IF uids = {} THEN 0 ELSE CHOOSE uid \in uids : \A v \in uids : v <= uid

-----------------------------------------------------------------------------

Fault ==
  /\ faults < MaxFaults
  /\ faults' = faults + 1

(* The poll of this mailbox ends, in failure or before the inbox.          *)
Stop(w) ==
  /\ pc'     = [pc EXCEPT ![w] = "idle"]
  /\ conf'   = [conf EXCEPT ![w] = NoConf]
  /\ cursor' = [cursor EXCEPT ![w] = NoCursor]
  /\ want'   = [want EXCEPT ![w] = 0]
  /\ batch'  = [batch EXCEPT ![w] = NoBatch]
  /\ owed'   = [owed EXCEPT ![w] = {}]

(* The configuration is loaded once per poll, before the mailboxes that    *)
(* come first are processed.                                               *)
Poll(w) ==
  /\ pc[w] = "idle"
  /\ conf' = [conf EXCEPT ![w] = [folder |-> folder, window |-> window]]
  /\ pc' = [pc EXCEPT ![w] = IF window = 0 THEN "inbox" ELSE "read"]
  /\ UNCHANGED <<cursor, want, batch, store, world, faults, owed, raced>>

(* sent_sync_state, then the cutoff is computed from the clock.            *)
ReadCursor(w) ==
  /\ pc[w] = "read"
  /\ \/ /\ pc' = [pc EXCEPT ![w] = "fetch"]
        /\ cursor' = [cursor EXCEPT ![w] = row.cursor]
        /\ want' = [want EXCEPT ![w] = now - conf[w].window * DayLength]
        /\ UNCHANGED <<conf, batch, faults, owed>>
     \/ Stop(w) /\ Fault
  /\ UNCHANGED <<store, world, raced>>

(* fetch_sent_with_session: the folder is the configured one, or the one   *)
(* the server advertises now.                                              *)
FetchSent(w) ==
  /\ pc[w] = "fetch"
  /\ \/ \E f \in {conf[w].folder, folder} :
          LET since == FromDate(cursor[w], f, want[w])
              uids  == Found(f, FromUid(cursor[w], f, want[w]), since)
          IN /\ batch' = [batch EXCEPT ![w] =
                  [folder |-> f, since |-> since, uids |-> Firsts(uids),
                   complete |-> Cardinality(uids) <= BatchSize]]
             /\ owed' = [owed EXCEPT ![w] = {f} \X Window(f, want[w])]
             /\ pc' = [pc EXCEPT ![w] = "insert"]
             /\ UNCHANGED <<conf, cursor, want, faults>>
     \/ Stop(w) /\ Fault
  /\ UNCHANGED <<store, world, raced>>

(* record_sent_batch, first half: one upsert per mail, in UID order; an    *)
(* error ends it in the middle.                                            *)
InsertSent(w) ==
  LET f == batch[w].folder IN
  /\ pc[w] = "insert"
  /\ \/ /\ recorded' = recorded \cup ({f} \X batch[w].uids)
        /\ pc' = [pc EXCEPT ![w] = "save"]
        /\ UNCHANGED <<conf, cursor, want, batch, faults, owed>>
     \/ /\ \E last \in batch[w].uids :
             recorded' = recorded \cup
                           ({f} \X {uid \in batch[w].uids : uid < last})
        /\ Stop(w)
        /\ Fault
  /\ UNCHANGED <<row, world, raced>>

(* The row after the upsert of mailbox_sync_state.                         *)
Merged(b, cutoff) ==
  IF Resumes(row.cursor, b.folder, cutoff)
    THEN [cursor |-> [row.cursor EXCEPT
                        !.last = IF LastUid(b.uids) > @
                                   THEN LastUid(b.uids) ELSE @],
          complete |-> row.complete \/ b.complete]
    ELSE [cursor |-> [folder |-> b.folder, last |-> LastUid(b.uids),
                      cutoff |-> cutoff],
          complete |-> b.complete]

(* The batch moves a cursor that another worker has set back to an earlier *)
(* date than the batch was searched from.                                  *)
Overtakes(b, cutoff) ==
  /\ Resumes(row.cursor, b.folder, cutoff)
  /\ ~(Midnights(b.since) \subseteq Midnights(row.cursor.cutoff))
  /\ LastUid(b.uids) > row.cursor.last

(* record_sent_batch, second half; the inbox only if the batch is complete.*)
SaveCursor(w) ==
  LET b == batch[w] IN
  /\ pc[w] = "save"
  /\ \/ /\ row' = Merged(b, want[w])
        /\ raced' = (raced \/ Overtakes(b, want[w]))
        /\ IF b.complete
             THEN /\ pc' = [pc EXCEPT ![w] = "inbox"]
                  /\ UNCHANGED <<conf, cursor, want, batch, owed>>
             ELSE Stop(w)
        /\ UNCHANGED faults
     \/ Stop(w) /\ Fault /\ UNCHANGED <<row, raced>>
  /\ UNCHANGED <<recorded, world>>

(* process_mailbox.                                                        *)
ProcessInbox(w) ==
  /\ pc[w] = "inbox"
  /\ Stop(w)
  /\ UNCHANGED <<store, world, faults, raced>>

(* The process dies and starts again.                                      *)
Crash(w) ==
  /\ pc[w] # "idle"
  /\ Stop(w)
  /\ Fault
  /\ UNCHANGED <<store, world, raced>>

-----------------------------------------------------------------------------
(* The world: mails are sent, or copied in with an older date; days pass;  *)
(* an operator edits the window; the folder is replaced or renumbered.     *)

Arrive(f) ==
  /\ Len(date[f]) < MaxMails
  /\ \E d \in Dates : d <= now /\ date' = [date EXCEPT ![f] = Append(@, d)]
  /\ UNCHANGED <<local, store, now, folder, window, edits, faults, owed,
                 raced>>

Tick ==
  /\ now < MaxTime
  /\ now' = now + 1
  /\ UNCHANGED <<local, store, date, folder, window, edits, faults, owed,
                 raced>>

Edit ==
  /\ edits < MaxEdits
  /\ edits' = edits + 1
  /\ \/ window' \in Windows \ {window} /\ UNCHANGED folder
     \/ folder' \in Folders \ {folder} /\ UNCHANGED window
  /\ UNCHANGED <<local, store, date, now, faults, owed, raced>>

-----------------------------------------------------------------------------

Progress(w) ==
  \/ Poll(w) \/ ReadCursor(w) \/ FetchSent(w)
  \/ InsertSent(w) \/ SaveCursor(w) \/ ProcessInbox(w)

Next ==
  \/ \E w \in Workers : Progress(w) \/ Crash(w)
  \/ \E f \in Folders : Arrive(f)
  \/ Tick
  \/ Edit

Spec == Init /\ [][Next]_vars

(* A process keeps polling and every call returns.  Mails, days, edits and *)
(* faults need not come.                                                   *)
Fairness == \A w \in Workers : WF_vars(Progress(w))

FairSpec == Spec /\ Fairness

-----------------------------------------------------------------------------
(* Properties.                                                             *)

(* The type of every variable.                                             *)
TypeOK ==
  /\ pc \in [Workers -> {"idle", "read", "fetch", "insert", "save", "inbox"}]
  /\ conf \in [Workers ->
                 [folder : Folders \cup {NoFolder}, window : Windows \cup {0}]]
  /\ cursor \in [Workers -> Cursor]
  /\ want \in [Workers -> Nat]
  /\ batch \in [Workers ->
                  [folder : Folders \cup {NoFolder}, since : Nat,
                   uids : SUBSET Nat, complete : BOOLEAN]]
  /\ row \in Row
  /\ recorded \subseteq Folders \X Nat
  /\ date \in [Folders -> Seq(Nat)]
  /\ now \in Nat
  /\ folder \in Folders
  /\ window \in Windows
  /\ edits \in 0..MaxEdits
  /\ faults \in 0..MaxFaults
  /\ owed \in [Workers -> SUBSET (Folders \X Nat)]
  /\ raced \in BOOLEAN

(* README.md:173: the inbox is processed only with the outbound history    *)
(* known: every mail the window held when the folder was searched is       *)
(* stored.                                                                 *)
HistoryBeforeInbox ==
  \A w \in Workers : pc[w] = "inbox" => owed[w] \subseteq recorded

(* The same for several processes: the only way to miss a mail is a batch  *)
(* that moved the cursor after another worker had widened the window.      *)
HistoryUnlessRaced == raced \/ HistoryBeforeInbox

(* The stored cursor promises no more than is stored: every mail up to its *)
(* UID and since its cutoff, in whatever order batches were written, lost  *)
(* half way or repeated.                                                   *)
CursorCovers ==
  \/ raced
  \/ LET c == row.cursor IN
       c.folder # NoFolder =>
         \A uid \in Window(c.folder, c.cutoff) :
           uid <= c.last => <<c.folder, uid>> \in recorded

(* Every process gets to the inbox again and again: batches advance the    *)
(* cursor until one is complete, whatever was reset or retried.            *)
InboxReached == \A w \in Workers : []<>(pc[w] = "inbox")
=============================================================================
