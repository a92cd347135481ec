---------------------------- MODULE ReaderWriter ----------------------------
(***************************************************************************)
(* One RTML_writer and one RTML_reader on a shared RTML_buffer.  The       *)
(* writer is AtomicPush; the reader's synchronize, pull, pop and gap take  *)
(* one step per load of shared memory.  The writer numbers its events 1,   *)
(* 2, ... so that a lost, repeated or reordered event shows.               *)
(***************************************************************************)
EXTENDS AtomicPush

CONSTANT Interleaving  \* where pushes may come:
                       \* "calls": between jobs and between the calls of a job;
                       \* "any": and during them

ASSUME NumbersAssumption == Data = 0 .. MaxPush
ASSUME InterleavingAssumption == Interleaving \in {"calls", "any"}

VARIABLES rpc,        \* where the reader is
          top, bottom, timestamp,   \* RTML_reader's members
          s, b, t,    \* state(b, t, ts, ts_t): the page read, its indices
          ts, ts_t,   \*   and the times of their slots
          event,      \* the event_t a pull or pop fills in
          rret,       \* what the last call returned
          last,       \* number of the last event a pull made AVAILABLE
          warned,     \* was a gap reported since that pull?
          mixed       \* history: were a push and a job ever under way at once?

rvars == <<rpc, top, bottom, timestamp, s, b, t, ts, ts_t, event, rret, last,
           warned>>
wvars == vars
window == <<top, bottom, timestamp>>
loaded == <<s, b, t, ts, ts_t>>
told == <<rret, last, warned>>
allvars == <<wvars, rvars, mixed>>

rpcs == {"idle", "job", "page", "bottom", "top", "ts", "ts_t", "branch",
         "next", "overflow", "popped"}

RInit ==
  /\ Init
  /\ rpc = "idle"
  /\ top = 0 /\ bottom = 0 /\ timestamp = 0
  /\ s = Global /\ b = 0 /\ t = 0 /\ ts = 0 /\ ts_t = 0
  /\ event = NoEvent
  /\ rret = "NO_GAP"
  /\ last = 0
  /\ warned = FALSE
  /\ mixed = FALSE

(* length() of the reader's own window.                                    *)
length == Length(bottom, top)

WriterIdle == \A w \in Writers : pc[w] = "idle"
ReaderMayCall == Interleaving = "any" \/ WriterIdle
WriterMayPush == Interleaving = "any" \/ rpc \in {"idle", "job"}

(* Mutant: the comparison is the wrong way round.                          *)
MutGap ==
  IF bottom < size
  THEN IF array[bottom].time < timestamp THEN "GAP" ELSE "NO_GAP"
  ELSE "UNKNOWN_GAP"

(* gap(): has the slot at bottom a newer event than the reader knows of?   *)
gap ==
  IF bottom < size
  THEN IF timestamp < array[bottom].time THEN "GAP" ELSE "NO_GAP"
  ELSE "UNKNOWN_GAP"

-----------------------------------------------------------------------------
(* The monitor's job starts, and ends after any number of calls.           *)
BeginJob ==
  /\ rpc = "idle"
  /\ ReaderMayCall
  /\ rpc' = "page"
  /\ UNCHANGED <<wvars, window, loaded, event, told>>

EndJob ==
  /\ rpc = "job"
  /\ rpc' = "idle"
  /\ UNCHANGED <<wvars, window, loaded, event, told>>

(* synchronize() reads state(b, t, ts, ts_t): page, *s twice, two slots.   *)
ReadPage ==
  /\ rpc = "page"
  /\ rpc' = "bottom"
  /\ s' = page.ref
  /\ UNCHANGED <<wvars, window, b, t, ts, ts_t, event, told>>

ReadBottom ==
  /\ rpc = "bottom"
  /\ rpc' = "top"
  /\ b' = st[s].bottom
  /\ UNCHANGED <<wvars, window, s, t, ts, ts_t, event, told>>

ReadTop ==
  /\ rpc = "top"
  /\ rpc' = "ts"
  /\ t' = st[s].top
  /\ UNCHANGED <<wvars, window, s, b, ts, ts_t, event, told>>

ReadTs ==
  /\ rpc = "ts"
  /\ rpc' = "ts_t"
  /\ ts' = array[b].time
  /\ UNCHANGED <<wvars, window, s, b, t, ts_t, event, told>>

ReadTsT ==
  /\ rpc = "ts_t"
  /\ rpc' = "branch"
  /\ ts_t' = array[t].time
  /\ UNCHANGED <<wvars, window, s, b, t, ts, event, told>>

(* What synchronize() returns, and the bookkeeping of it.                  *)
Synchronized(result) ==
  /\ rpc' = "job"
  /\ rret' = result
  /\ warned' = (warned \/ result # "NO_GAP")
  /\ UNCHANGED <<wvars, loaded, event, last>>

(* if (t < b): the ring has wrapped.                                       *)
SyncWrapped ==
  /\ rpc = "branch"
  /\ t < b
  /\ top' = t
  /\ \/ /\ gap = "GAP"
        /\ bottom' = b
        /\ timestamp' = ts
        /\ Synchronized("GAP")
     \/ /\ gap # "GAP"
        /\ UNCHANGED <<bottom, timestamp>>
        /\ Synchronized("NO_GAP")

(* Mutant: the reader's bottom is always moved to the buffer's.            *)
MutSyncStraight ==
  /\ rpc = "branch"
  /\ b < t
  /\ top' = t
  /\ bottom' = b
  /\ timestamp' = ts
  /\ Synchronized("GAP")

(* else if (b < t): it has not, or it is full and starts at 0.             *)
SyncStraight ==
  /\ rpc = "branch"
  /\ b < t
  /\ top' = t
  /\ \/ /\ ts < timestamp /\ timestamp < ts_t
        /\ UNCHANGED <<bottom, timestamp>>
        /\ Synchronized("NO_GAP")
     \/ /\ ~(ts < timestamp /\ timestamp < ts_t)
        /\ bottom' = IF b < bottom THEN bottom ELSE b
        /\ timestamp' = IF b < bottom THEN timestamp ELSE ts
        /\ Synchronized("GAP")

(* else: b == t, nothing has been pushed.                                  *)
SyncEmpty ==
  /\ rpc = "branch"
  /\ b = t
  /\ \/ /\ top = 0 /\ bottom = 0
        /\ top' = t
        /\ bottom' = b
        /\ timestamp' = ts
        /\ Synchronized("GAP")
     \/ /\ ~(top = 0 /\ bottom = 0)
        /\ UNCHANGED window
        /\ Synchronized("UNKNOWN_GAP")

(* Another call in the same job.                                           *)
synchronize ==
  /\ rpc = "job"
  /\ ReaderMayCall
  /\ rpc' = "page"
  /\ UNCHANGED <<wvars, window, loaded, event, told>>

-----------------------------------------------------------------------------
(* pull() or pop() finds too little, or its index is outside the ring.     *)
Refuse(result) ==
  /\ rret' = result
  /\ UNCHANGED <<wvars, rpc, window, loaded, event, last, warned>>

(* pull(): the event at bottom is read and bottom moves on, if another     *)
(* event follows.                                                          *)
pull ==
  /\ rpc = "job"
  /\ ReaderMayCall
  /\ \/ length <= 1 /\ Refuse("UNAVAILABLE")
     \/ length > 1 /\ ~(bottom < size) /\ Refuse("READ_ERROR")
     \/ /\ length > 1
        /\ bottom < size
        /\ event' = array[bottom]
        /\ bottom' = Inc(bottom)
        /\ rpc' = "next"
        /\ UNCHANGED <<wvars, top, timestamp, loaded, told>>

(* The time of the event now at bottom; bottom was just wrapped, so this   *)
(* read cannot be out of range.                                            *)
PullNext ==
  /\ rpc = "next"
  /\ rpc' = "overflow"
  /\ timestamp' = array[bottom].time
  /\ UNCHANGED <<wvars, top, bottom, loaded, event, told>>

(* if (gap()) return READER_OVERFLOW; else return AVAILABLE                *)
PullReturn ==
  /\ rpc = "overflow"
  /\ rpc' = "job"
  /\ \/ /\ gap # "NO_GAP"
        /\ rret' = "READER_OVERFLOW"
        /\ warned' = TRUE
        /\ UNCHANGED last
     \/ /\ gap = "NO_GAP"
        /\ rret' = "AVAILABLE"
        /\ warned' = FALSE
        /\ last' = event.data
  /\ UNCHANGED <<wvars, window, loaded, event>>

(* Mutant: the event before top is read, and top moves back without a wrap.*)
MutPop ==
  /\ rpc = "job"
  /\ ReaderMayCall
  /\ \/ ~(length > 0) /\ Refuse("UNAVAILABLE")
     \/ /\ length > 0
        /\ top' = top - 1
        /\ event' = array[Dec(top)]
        /\ rpc' = "popped"
        /\ UNCHANGED <<wvars, bottom, timestamp, loaded, told>>

(* pop(): top moves back and the event there is read; top was at most      *)
(* size (RTypeOK), so this read cannot be out of range.                    *)
pop ==
  /\ rpc = "job"
  /\ ReaderMayCall
  /\ \/ ~(length > 0) /\ Refuse("UNAVAILABLE")
     \/ /\ length > 0
        /\ top' = Dec(top)
        /\ event' = array[Dec(top)]
        /\ rpc' = "popped"
        /\ UNCHANGED <<wvars, bottom, timestamp, loaded, told>>

(* if (gap()) return READER_OVERFLOW; else return AVAILABLE                *)
PopReturn ==
  /\ rpc = "popped"
  /\ rpc' = "job"
  /\ rret' = IF gap # "NO_GAP" THEN "READER_OVERFLOW" ELSE "AVAILABLE"
  /\ warned' = (warned \/ gap # "NO_GAP")
  /\ UNCHANGED <<wvars, window, loaded, event, last>>

ReaderStep ==
  \/ ReadPage \/ ReadBottom \/ ReadTop \/ ReadTs \/ ReadTsT
  \/ SyncWrapped \/ SyncStraight \/ SyncEmpty
  \/ PullNext \/ PullReturn \/ PopReturn

ReaderCall == BeginJob \/ EndJob \/ synchronize \/ pull \/ pop

-----------------------------------------------------------------------------
WriterCall(w) ==
  /\ WriterMayPush
  /\ Begin(w, [data |-> begun + 1, time |-> 0], TRUE)
  /\ UNCHANGED rvars

WriterStep(w) == Step(w) /\ UNCHANGED rvars

(* No push is under way in a job.                                          *)
Apart == rpc = "idle" \/ WriterIdle

RStep ==
  \/ \E w \in Writers : WriterCall(w) \/ WriterStep(w)
  \/ ReaderStep
  \/ ReaderCall

RNext == RStep /\ mixed' = (mixed \/ ~Apart')

RSpec == RInit /\ [][RNext]_allvars

-----------------------------------------------------------------------------
(* Types, and the bounds of the slots: whatever the interleaving, the      *)
(* indices the reader uses without a check (b and t of state(), which it   *)
(* may load between an increment and its wrap) are slots of the array,     *)
(* thanks to its one spare slot.                                           *)
RTypeOK ==
  /\ rpc \in rpcs
  /\ top \in 0 .. size /\ bottom \in 0 .. size /\ timestamp \in Time
  /\ s \in StateId /\ b \in 0 .. size /\ t \in 0 .. size
  /\ ts \in Time /\ ts_t \in Time
  /\ event \in Event
  /\ last \in 0 .. MaxPush
  /\ mixed \in BOOLEAN

(* Pulls never go back: while pushes and jobs have excluded each other, an *)
(* AVAILABLE event is newer than every earlier one.                        *)
PullsInOrder == [][~mixed' /\ last' # last => last' > last]_allvars

(* "Any event that is overwritten without being read is identified as a    *)
(* gap for the reader": so far, a pull that skips events follows a gap     *)
(* that synchronize(), pull() or pop() reported.                           *)
SkipsReported ==
  [][~mixed' /\ last' # last => last' = last + 1 \/ warned]_allvars

(* ... and so it should also when pushes come during a job.                *)
EverySkipReported == [][last' # last => last' = last + 1 \/ warned]_allvars

=============================================================================
