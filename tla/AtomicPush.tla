----------------------------- MODULE AtomicPush -----------------------------
(***************************************************************************)
(* RTML_writer::push and push_all on a shared RTML_buffer: the ATOMIC_PUSH *)
(* macro around their bodies, one action per store to shared memory (with  *)
(* the load that feeds it) or per load that decides something.             *)
(*                                                                         *)
(* A writer prepares the next state_t (top, bottom, pos, event) aside, in  *)
(* its own `state` or, when its own is the published one, in the buffer's  *)
(* `state_global`; it publishes it by compare-and-swap of `page`, and only *)
(* then fills the slot.  The next push waits for that slot ("give a chance *)
(* to complete the last push").                                            *)
(***************************************************************************)
EXTENDS RingIndex, Sequences

CONSTANTS Writers,     \* the RTML_writer objects, one thread each
          Global,      \* names state_global; the others are named by writer
          Data,        \* what events carry; event_t() carries 0
          MaxTime,     \* bound on the clock
          Ticks,       \* by how much clockgettime() may advance at a call
          CallerTime,  \* the timestamps callers of push_all give their events
          CounterMod,  \* 2^64: range of page_t.counter (x86); 1: no counter
          Overlap,     \* may pushes of different writers overlap?
          MaxPush      \* bound on the pushes begun

ASSUME WritersAssumption == Global \notin Writers
ASSUME DataAssumption == 0 \in Data
ASSUME TimeAssumption == MaxTime \in Nat /\ CallerTime \subseteq 0 .. MaxTime
ASSUME TicksAssumption == Ticks \subseteq Nat
ASSUME CounterAssumption == CounterMod \in Nat \ {0}
ASSUME OverlapAssumption == Overlap \in BOOLEAN
ASSUME MaxPushAssumption == MaxPush \in Nat

StateId == Writers \cup {Global}
Time == 0 .. MaxTime
Event == [data : Data, time : Time]
NoEvent == [data |-> 0, time |-> 0]          \* event_t()
Page == [ref : StateId, counter : 0 .. CounterMod - 1]

VARIABLES page,      \* RTML_buffer::page
          st,        \* state_global and the state of every writer
          array,     \* the slots
          pc,        \* where each writer is
          cur,       \* current_page_content
          evt,       \* evt: the slot of the last push, as read back
          sref,      \* stateref: the state being prepared
          slot,      \* top: the slot to fill after publication
          ev,        \* event: the caller's event
          stamps,    \* push (TRUE) or push_all (FALSE)
          err,       \* the value to return
          clock,     \* the last time clockgettime() returned
          begun,     \* pushes begun so far
          ret,       \* what the last published push returns
          moves,     \* how often page was swapped, and
          seen       \* how often it had been when each writer loaded it

vars == <<page, st, array, pc, cur, evt, sref, slot, ev, stamps, err, clock,
          begun, ret, moves, seen>>

local == <<cur, evt, sref, slot, ev, stamps, err>>

pcs == {"idle", "load", "read", "compare", "bottom", "top", "pos", "inctop",
        "wraptop", "incbottom", "wrapbottom", "event", "cas", "data", "time"}

Init ==
  /\ page = [ref |-> Global, counter |-> 0]
  /\ st = [s \in StateId |->
             [top |-> 0, bottom |-> 0, pos |-> 0, event |-> NoEvent]]
  /\ array = [i \in 0 .. N + 1 |-> NoEvent]
  /\ pc = [w \in Writers |-> "idle"]
  /\ cur = [w \in Writers |-> [ref |-> Global, counter |-> 0]]
  /\ evt = [w \in Writers |-> NoEvent]
  /\ sref = [w \in Writers |-> w]
  /\ slot = [w \in Writers |-> 0]
  /\ ev = [w \in Writers |-> NoEvent]
  /\ stamps = [w \in Writers |-> TRUE]
  /\ err = [w \in Writers |-> "OK"]
  /\ clock = 0
  /\ begun = 0
  /\ ret = "OK"
  /\ moves = 0
  /\ seen = [w \in Writers |-> 0]

Goto(w, from, to) == pc[w] = from /\ pc' = [pc EXCEPT ![w] = to]

(* A caller enters push(e) or push_all(e).                                 *)
Begin(w, e, s) ==
  /\ begun < MaxPush
  /\ Overlap \/ \A v \in Writers : pc[v] = "idle"
  /\ Goto(w, "idle", "load")
  /\ ev' = [ev EXCEPT ![w] = e]
  /\ stamps' = [stamps EXCEPT ![w] = s]
  /\ evt' = [evt EXCEPT ![w] = NoEvent]
  /\ begun' = begun + 1
  /\ UNCHANGED <<page, st, array, cur, sref, slot, err, clock, ret, moves, seen>>

(* push(event_t &): the caller's timestamp is overwritten later.           *)
push(w) == \E d \in Data : Begin(w, [data |-> d, time |-> 0], TRUE)

(* push_all(event_t &): the event keeps the caller's timestamp.            *)
push_all(w) ==
  \E d \in Data, t \in CallerTime : Begin(w, [data |-> d, time |-> t], FALSE)

(* current_page_content = atomic_load(&buffer.page)                        *)
Load(w) ==
  /\ Goto(w, "load", "read")
  /\ cur' = [cur EXCEPT ![w] = page]
  /\ seen' = [seen EXCEPT ![w] = moves]
  /\ UNCHANGED <<page, st, array, evt, sref, slot, ev, stamps, err, clock,
                 begun, ret, moves>>

(* complete: buffer.read(evt, pos); out of range it leaves evt as it was.  *)
ReadSlot(w) ==
  /\ Goto(w, "read", "compare")
  /\ LET p == st[cur[w].ref].pos
     IN  evt' = IF p < size THEN [evt EXCEPT ![w] = array[p]] ELSE evt
  /\ UNCHANGED <<page, st, array, cur, sref, slot, ev, stamps, err, clock,
                 begun, ret, moves, seen>>

(* The last push has not reached its slot: yield and read it again.        *)
Wait(w) ==
  /\ Goto(w, "compare", "read")
  /\ st[cur[w].ref].event # evt[w]
  /\ UNCHANGED <<page, st, array, local, clock, begun, ret, moves, seen>>

(* Mutant: a writer always prepares its own state.                         *)
MutChoose(w) ==
  /\ Goto(w, "compare", "bottom")
  /\ st[cur[w].ref].event = evt[w]
  /\ sref' = [sref EXCEPT ![w] = w]
  /\ UNCHANGED <<page, st, array, cur, evt, slot, ev, stamps, err, clock,
                 begun, ret, moves, seen>>

(* The last push is complete: choose the state that is not published.      *)
Choose(w) ==
  /\ Goto(w, "compare", "bottom")
  /\ st[cur[w].ref].event = evt[w]
  /\ sref' = [sref EXCEPT ![w] = IF cur[w].ref = w THEN Global ELSE w]
  /\ UNCHANGED <<page, st, array, cur, evt, slot, ev, stamps, err, clock,
                 begun, ret, moves, seen>>

(* What the steps that fill *stateref leave alone.                         *)
Prepare(w, from, to) ==
  /\ Goto(w, from, to)
  /\ UNCHANGED <<page, array, cur, evt, sref, begun, ret, moves, seen>>

CopyBottom(w) ==
  /\ Prepare(w, "bottom", "top")
  /\ st' = [st EXCEPT ![sref[w]].bottom = st[cur[w].ref].bottom]
  /\ UNCHANGED <<slot, ev, stamps, err, clock>>

CopyTop(w) ==
  /\ Prepare(w, "top", "pos")
  /\ st' = [st EXCEPT ![sref[w]].top = st[cur[w].ref].top]
  /\ UNCHANGED <<slot, ev, stamps, err, clock>>

(* Mutant: pos is the slot before top, without the wrap.                   *)
MutCopyPos(w) ==
  /\ Prepare(w, "pos", "inctop")
  /\ st' = [st EXCEPT ![sref[w]].pos = st[sref[w]].top - 1]
  /\ UNCHANGED <<slot, ev, stamps, err, clock>>

CopyPos(w) ==
  /\ Prepare(w, "pos", "inctop")
  /\ st' = [st EXCEPT ![sref[w]].pos = st[sref[w]].top]
  /\ UNCHANGED <<slot, ev, stamps, err, clock>>

(* push: the event is stamped.  Both: top = stateref->top; ++stateref->top,*)
(* which may be size until the next step wraps it.                         *)
IncTop(w) ==
  /\ Prepare(w, "inctop", "wraptop")
  /\ st' = [st EXCEPT ![sref[w]].top = st[sref[w]].top + 1]
  /\ slot' = [slot EXCEPT ![w] = st[sref[w]].top]
  /\ \/ /\ stamps[w]
        /\ clock' \in {clock + d : d \in Ticks} \cap Time
        /\ ev' = [ev EXCEPT ![w].time = clock']
     \/ /\ ~stamps[w]
        /\ UNCHANGED <<clock, ev>>
  /\ UNCHANGED <<stamps, err>>

Wrapped(i) == IF i >= size THEN 0 ELSE i

(* Mutant: the transient value of top is tested against N + 2 slots.       *)
MutWrapTop(w) ==
  /\ LET t == IF st[sref[w]].top > size THEN 0 ELSE st[sref[w]].top
         p == t = st[sref[w]].bottom
     IN  /\ Prepare(w, "wraptop", IF p THEN "incbottom" ELSE "event")
         /\ st' = [st EXCEPT ![sref[w]].top = t]
         /\ err' = [err EXCEPT ![w] = IF p THEN "BUFFER_OVERFLOW" ELSE "OK"]
  /\ UNCHANGED <<slot, ev, stamps, clock>>

(* The wrap of top, and p = (top == bottom), which decides on the rest.    *)
WrapTop(w) ==
  /\ LET t == Wrapped(st[sref[w]].top)
         p == t = st[sref[w]].bottom
     IN  /\ Prepare(w, "wraptop", IF p THEN "incbottom" ELSE "event")
         /\ st' = [st EXCEPT ![sref[w]].top = t]
         /\ err' = [err EXCEPT ![w] = IF p THEN "BUFFER_OVERFLOW" ELSE "OK"]
  /\ UNCHANGED <<slot, ev, stamps, clock>>

IncBottom(w) ==
  /\ Prepare(w, "incbottom", "wrapbottom")
  /\ st' = [st EXCEPT ![sref[w]].bottom = st[sref[w]].bottom + 1]
  /\ UNCHANGED <<slot, ev, stamps, err, clock>>

(* Mutant: bottom stays, so a full ring looks empty.                       *)
MutWrapBottom(w) ==
  /\ Prepare(w, "wrapbottom", "event")
  /\ st' = [st EXCEPT ![sref[w]].bottom = st[sref[w]].top]
  /\ UNCHANGED <<slot, ev, stamps, err, clock>>

WrapBottom(w) ==
  /\ Prepare(w, "wrapbottom", "event")
  /\ st' = [st EXCEPT ![sref[w]].bottom = Wrapped(st[sref[w]].bottom)]
  /\ UNCHANGED <<slot, ev, stamps, err, clock>>

(* stateref->event = event                                                 *)
CopyEvent(w) ==
  /\ Prepare(w, "event", "cas")
  /\ st' = [st EXCEPT ![sref[w]].event = ev[w]]
  /\ UNCHANGED <<slot, ev, stamps, err, clock>>

(* Mutant: update(page) forgets the counter.                               *)
MutPublish(w) ==
  /\ Goto(w, "cas", "data")
  /\ page = cur[w]
  /\ page' = [ref |-> sref[w], counter |-> cur[w].counter]
  /\ ret' = err[w]
  /\ moves' = moves + 1
  /\ UNCHANGED <<st, array, local, clock, begun, seen>>

(* The compare-and-swap succeeds; update(page) also moves the counter.     *)
Publish(w) ==
  /\ Goto(w, "cas", "data")
  /\ page = cur[w]
  /\ page' = [ref |-> sref[w],
              counter |-> (cur[w].counter + 1) % CounterMod]
  /\ ret' = err[w]
  /\ moves' = moves + 1
  /\ UNCHANGED <<st, array, local, clock, begun, seen>>

(* It fails: yield and start over.                                         *)
Retry(w) ==
  /\ Goto(w, "cas", "load")
  /\ page # cur[w]
  /\ UNCHANGED <<page, st, array, local, clock, begun, ret, moves, seen>>

(* buffer.write(event, top), one field at a time: nothing is written when  *)
(* top is out of range.                                                    *)
Fill(w, from, to) ==
  /\ Goto(w, from, to)
  /\ slot[w] >= size => UNCHANGED array
  /\ UNCHANGED <<page, st, local, clock, begun, ret, moves, seen>>

WriteData(w) ==
  /\ Fill(w, "data", "time")
  /\ slot[w] < size => array' = [array EXCEPT ![slot[w]].data = ev[w].data]

(* Mutant: push returns without filling the slot's timestamp.              *)
MutWriteTime(w) == Fill(w, "time", "idle") /\ UNCHANGED array

WriteTime(w) ==
  /\ Fill(w, "time", "idle")
  /\ slot[w] < size => array' = [array EXCEPT ![slot[w]].time = ev[w].time]

(* What a thread inside push or push_all does next.                        *)
Step(w) ==
  \/ Load(w)       \/ ReadSlot(w)   \/ Wait(w)       \/ Choose(w)
  \/ CopyBottom(w) \/ CopyTop(w)    \/ CopyPos(w)
  \/ IncTop(w)     \/ WrapTop(w)    \/ IncBottom(w)  \/ WrapBottom(w)
  \/ CopyEvent(w)  \/ Publish(w)    \/ Retry(w)
  \/ WriteData(w)  \/ WriteTime(w)

Next == \E w \in Writers : push(w) \/ push_all(w) \/ Step(w)

Spec == Init /\ [][Next]_vars

(* Every thread inside a push keeps being scheduled; nobody is obliged to  *)
(* push again.                                                             *)
FairSpec == Spec /\ \A w \in Writers : WF_vars(Step(w))

-----------------------------------------------------------------------------
State == [top : Nat, bottom : Nat, pos : Nat, event : Event]

Code == {"OK", "BUFFER_OVERFLOW"}

(* Types.  The indices are only known to be numbers: a state_global that   *)
(* two overlapping pushes prepare at once may count past the ring.         *)
TypeOK ==
  /\ page \in Page
  /\ st \in [StateId -> State]
  /\ array \in SlotArray(Event)
  /\ pc \in [Writers -> pcs]
  /\ cur \in [Writers -> Page]
  /\ evt \in [Writers -> Event]
  /\ sref \in [Writers -> StateId]
  /\ slot \in [Writers -> Nat]
  /\ ev \in [Writers -> Event]
  /\ stamps \in [Writers -> BOOLEAN]
  /\ err \in [Writers -> Code]
  /\ clock \in Time
  /\ begun \in 0 .. MaxPush
  /\ ret \in Code
  /\ moves \in Nat
  /\ seen \in [Writers -> Nat]

-----------------------------------------------------------------------------
(* Pushes never overlap: the clients see to it, or there is one writer.    *)
Serialised == ~Overlap \/ \A v, w \in Writers : v = w

(* The published state, and the ring it describes.  The newest event may   *)
(* not have reached its slot yet, and is then only in the state.           *)
Published == st[page.ref]
Ring == [array EXCEPT ![Published.pos] = Published.event]
Content == Held(Ring, Published.bottom, Published.top)

Filling == {"data", "time"}
Choosing == {"read", "compare"}
Preparing == {"bottom", "top", "pos", "inctop", "wraptop", "incbottom",
              "wrapbottom", "event", "cas"}

OneAtATime ==
  \A v, w \in Writers : pc[v] # "idle" /\ pc[w] # "idle" => v = w

(* The published indices are in the ring.                                  *)
PublishedInRing ==
  /\ Published.top \in Index
  /\ Published.bottom \in Index
  /\ Published.pos \in Index

(* The last push has reached its slot, unless its writer is on the way.    *)
LastPushComplete ==
  (\A w \in Writers : pc[w] \notin Filling)
     => array[Published.pos] = Published.event

(* What a writer knows between its load of page and its publication: page  *)
(* has not moved, the state it prepares is not the published one, and each *)
(* field prepared so far continues the published one.                      *)
PreparedSoFar(w) ==
  LET P == Published
      S == st[sref[w]]
      p == Inc(P.top) = P.bottom
      at == pc[w]
  IN  /\ at \in Choosing \cup Preparing => cur[w] = page
      /\ at = "compare" => evt[w] = P.event
      /\ at \in Preparing => sref[w] # page.ref
      /\ at \in {"top", "pos", "inctop", "wraptop", "incbottom"}
           => S.bottom = P.bottom
      /\ at \in {"pos", "inctop"} => S.top = P.top
      /\ at \in Preparing \ {"bottom", "top", "pos"} => S.pos = P.top
      /\ at \in Preparing \ {"bottom", "top", "pos", "inctop"} => slot[w] = P.top
      /\ at = "wraptop" => S.top = P.top + 1
      /\ at \in {"incbottom", "wrapbottom", "event", "cas"} =>
           /\ S.top = Inc(P.top)
           /\ err[w] = IF p THEN "BUFFER_OVERFLOW" ELSE "OK"
      /\ at \in {"incbottom", "wrapbottom"} => p
      /\ at = "wrapbottom" => S.bottom = P.bottom + 1
      /\ at \in {"event", "cas"} => S.bottom = IF p THEN Inc(P.bottom)
                                               ELSE P.bottom
      /\ at = "cas" => S.event = ev[w]

(* A writer that has published fills the slot the published state names.   *)
FillsPublished(w) ==
  pc[w] \in Filling =>
    /\ slot[w] = Published.pos
    /\ ev[w] = Published.event
    /\ pc[w] = "time" => array[Published.pos].data = Published.event.data

(* The inductive invariant of serialised pushes: between two pushes the    *)
(* ring is whole, and during one the published state is whole.             *)
SerialInv ==
  /\ OneAtATime
  /\ PublishedInRing
  /\ LastPushComplete
  /\ \A w \in Writers : PreparedSoFar(w) /\ FillsPublished(w)

(* A writer prepares its own state or state_global, and its own state only *)
(* while that is not published, even if pushes overlap.                    *)
OwnStateInv ==
  \A w \in Writers :
    /\ sref[w] \in {w, Global}
    /\ page.ref = w /\ pc[w] \in Choosing => cur[w].ref = w
    /\ page.ref = w /\ pc[w] \in Preparing => sref[w] = Global

(* A writer's own state is never changed while it is the published one,    *)
(* not even when pushes overlap: ATOMIC_PUSH turns to state_global then.   *)
OwnStateIsolated ==
  [][\A w \in Writers : page.ref = w => st'[w] = st[w]]_vars

(* The published state is never changed in place.                          *)
PublishedStateIsolated == [][st'[page.ref] = st[page.ref]]_vars

(* No ABA: a compare-and-swap succeeds only if page has not moved since    *)
(* the writer loaded it.  atomic_compat.h says so of ARM, where "any       *)
(* inter-living is detected", and the opposite of x86, which "suffers from *)
(* the ABA problem"; but it is the page_t of x86 that has the counter      *)
(* (CounterMod > 1) and those of ARM and RISC-V that have none (1).        *)
NoABA ==
  [][\A w \in Writers : pc[w] = "cas" /\ pc'[w] = "data" => seen[w] = moves]_vars

(* Wait-freedom ("a fixed number of steps for each operation"): a push     *)
(* neither waits for another push's slot nor retries its compare-and-swap. *)
FixedSteps ==
  [][\A w \in Writers :
       /\ pc[w] = "compare" => pc'[w] # "read"
       /\ pc[w] = "cas" => pc'[w] # "load"]_vars

(* Every push that begins returns.                                         *)
PushCompletes == \A w \in Writers : pc[w] = "load" ~> pc[w] = "idle"

Deque == INSTANCE BoundedDeque WITH content <- Content, out <- NoEvent

(* push and push_all are pushes of the bounded deque that take effect at   *)
(* the compare-and-swap, as long as the pushes do not overlap.             *)
ImplementsDeque == Deque!Spec

=============================================================================
