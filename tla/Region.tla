------------------------------- MODULE Region -------------------------------
(***************************************************************************)
(* Regions: scopes with cleanup hooks and an attached arena.               *)
(*                                                                         *)
(* region_end calls the hooks through pointers, last registered first,     *)
(* and a hook may call the library again: register hooks, attach arenas,   *)
(* allocate, begin and end other regions.  The calls of region_end in      *)
(* progress are a stack, and the program moves on at its top: one step of  *)
(* the loop in region_end, or one call of the hook being run.  Hooks keep  *)
(* the rule region.h states: none ends or begins the region that runs it.  *)
(* The parent pointer, which nothing reads, is left out.                   *)
(***************************************************************************)
EXTENDS Integers, FiniteSets, Sequences, SequencesExt

CONSTANTS
  Regions, Arenas,
  Hooks,     \* registrations: fn and ctx
  MaxHooks,  \* REGION_MAX_CLEANUP
  MaxFill,   \* bound of the model: allocations in an arena
  None       \* NULL

ASSUME RegionAssumption ==
  /\ MaxHooks \in Nat \ {0} /\ MaxFill \in Nat
  /\ None \notin Hooks /\ None \notin Arenas

VARIABLES
  region,   \* [Regions -> the struct]
  ends,     \* the calls of region_end in progress, innermost last
  fill,     \* [Arenas -> its offset]
  owed,     \* ghost: per region, hooks registered before region_end and
            \* not called yet, in the order of their registration
  late,     \* ghost: per region, hooks registered since and not called
  attached  \* ghost: per region, the arena it had when region_end began

vars == <<region, ends, fill, owed, late, attached>>

-----------------------------------------------------------------------------
Slots == 1 .. MaxHooks
Closed == [open |-> FALSE, arena |-> None, hooks |-> [i \in Slots |-> None], num |-> 0]

Init ==
  /\ region = [r \in Regions |-> Closed]
  /\ ends = <<>>
  /\ fill = [a \in Arenas |-> 0]
  /\ owed = [r \in Regions |-> <<>>]
  /\ late = [r \in Regions |-> {}]
  /\ attached = [r \in Regions |-> None]

Top == Last(ends)
Ending(r) == \E i \in 1 .. Len(ends) : ends[i].r = r
Registered(h) == \E r \in Regions :
  region[r].open /\ (h \in late[r] \/ \E i \in 1 .. Len(owed[r]) : owed[r][i] = h)

(* The caller, or the hook being run, may call the library. *)
InHook == IF ends = <<>> THEN FALSE ELSE Top.running # None
InLoop == IF ends = <<>> THEN FALSE ELSE Top.running = None
MayCall == ~InLoop

-----------------------------------------------------------------------------
(* A caller pairs region_begin with region_end.  *)
Begin(r) ==
  /\ MayCall /\ ~region[r].open
  /\ region' = [region EXCEPT ![r] = [Closed EXCEPT !.open = TRUE]]
  /\ late' = [late EXCEPT ![r] = {}]
  /\ UNCHANGED <<ends, fill, owed, attached>>

AttachArena(r, a) ==
  /\ MayCall /\ region[r].open
  /\ region' = [region EXCEPT ![r].arena = a]
  /\ UNCHANGED <<ends, fill, owed, late, attached>>

(* Does not look whether the table is full. *)
Register_Unbounded(r, h) ==
  /\ MayCall /\ region[r].open
  /\ ~Registered(h)
  /\ region' = [region EXCEPT ![r].hooks[region[r].num + 1] = h, ![r].num = @ + 1]
  /\ IF Ending(r) THEN late' = [late EXCEPT ![r] = @ \cup {h}] /\ UNCHANGED owed
                  ELSE owed' = [owed EXCEPT ![r] = Append(@, h)] /\ UNCHANGED late
  /\ UNCHANGED <<ends, fill, attached>>

(* region_register where it returns true. *)
Register(r, h) ==
  /\ MayCall /\ region[r].open
  /\ ~Registered(h)
  /\ region[r].num < MaxHooks
  /\ region' = [region EXCEPT ![r].hooks[region[r].num + 1] = h, ![r].num = @ + 1]
  /\ IF Ending(r) THEN late' = [late EXCEPT ![r] = @ \cup {h}] /\ UNCHANGED owed
                  ELSE owed' = [owed EXCEPT ![r] = Append(@, h)] /\ UNCHANGED late
  /\ UNCHANGED <<ends, fill, attached>>

(* Some arena_alloc. *)
Alloc(a) ==
  /\ MayCall /\ fill[a] < MaxFill
  /\ fill' = [fill EXCEPT ![a] = @ + 1]
  /\ UNCHANGED <<region, ends, owed, late, attached>>

-----------------------------------------------------------------------------
(* region_end: its start, its loop, its tail. *)

(* Resets the arena before the hooks run. *)
EndStart_ResetsFirst(r) ==
  /\ MayCall /\ region[r].open /\ ~Ending(r)
  /\ ends' = Append(ends, [r |-> r, i |-> region[r].num, saved |-> region[r].arena,
                           running |-> None])
  /\ attached' = [attached EXCEPT ![r] = region[r].arena]
  /\ fill' = [a \in Arenas |-> IF a = region[r].arena THEN 0 ELSE fill[a]]
  /\ UNCHANGED <<region, owed, late>>

EndStart(r) ==
  /\ MayCall /\ region[r].open /\ ~Ending(r)
  /\ ends' = Append(ends, [r |-> r, i |-> region[r].num, saved |-> region[r].arena,
                           running |-> None])
  /\ attached' = [attached EXCEPT ![r] = region[r].arena]
  /\ UNCHANGED <<region, fill, owed, late>>

CallHook ==
  /\ InLoop /\ Top.i > 0
  /\ LET h == region[Top.r].hooks[Top.i] IN
       /\ ends' = [ends EXCEPT ![Len(ends)].running = h]
       /\ owed' = [owed EXCEPT ![Top.r] = RemoveFirst(@, h)]
       /\ late' = [late EXCEPT ![Top.r] = @ \ {h}]
  /\ UNCHANGED <<region, fill, attached>>

(* The loop goes on from the count, which the hook may have raised. *)
HookReturns_FromCount ==
  /\ InHook
  /\ region' = [region EXCEPT ![Top.r].hooks[Top.i] = None]
  /\ ends' = [ends EXCEPT ![Len(ends)].running = None,
                          ![Len(ends)].i = IF region[Top.r].num > @ THEN region[Top.r].num ELSE @ - 1]
  /\ UNCHANGED <<fill, owed, late, attached>>

HookReturns ==
  /\ InHook
  /\ region' = [region EXCEPT ![Top.r].hooks[Top.i] = None]
  /\ ends' = [ends EXCEPT ![Len(ends)].running = None, ![Len(ends)].i = @ - 1]
  /\ UNCHANGED <<fill, owed, late, attached>>

(* Resets the arena the region has now instead of the one saved. *)
EndFinish_ResetsCurrent ==
  /\ InLoop /\ Top.i = 0
  /\ fill' = [a \in Arenas |-> IF a = region[Top.r].arena THEN 0 ELSE fill[a]]
  /\ region' = [region EXCEPT ![Top.r] = [@ EXCEPT !.num = 0, !.arena = None, !.open = FALSE]]
  /\ ends' = Front(ends)
  /\ attached' = [attached EXCEPT ![Top.r] = None]
  /\ UNCHANGED <<owed, late>>

EndFinish ==
  /\ InLoop /\ Top.i = 0
  /\ fill' = [a \in Arenas |-> IF a = Top.saved THEN 0 ELSE fill[a]]
  /\ region' = [region EXCEPT ![Top.r] = [@ EXCEPT !.num = 0, !.arena = None, !.open = FALSE]]
  /\ ends' = Front(ends)
  /\ attached' = [attached EXCEPT ![Top.r] = None]
  /\ UNCHANGED <<owed, late>>

Next ==
  \/ \E r \in Regions : Begin(r) \/ EndStart(r)
  \/ \E r \in Regions, a \in Arenas : AttachArena(r, a)
  \/ \E r \in Regions, h \in Hooks : Register(r, h)
  \/ \E a \in Arenas : Alloc(a)
  \/ CallHook \/ HookReturns \/ EndFinish

(* region_end's own steps are taken, and a hook, which is a function that  *)
(* ends, returns if it is given the processor often enough: at each depth  *)
(* of nesting on its own, since the hooks of a region it ends returning    *)
(* says nothing about the hook that ends it.  Nobody has to call anything. *)
Depth == 1 .. Cardinality(Regions)

Spec ==
  /\ Init /\ [][Next]_vars
  /\ WF_vars(CallHook) /\ WF_vars(EndFinish)
  /\ \A n \in Depth : SF_vars(Len(ends) = n /\ HookReturns)

-----------------------------------------------------------------------------
StructType ==
  [open : BOOLEAN, arena : Arenas \cup {None}, hooks : [Slots -> Hooks \cup {None}],
   num : 0 .. MaxHooks]
FrameType ==
  [r : Regions, i : 0 .. MaxHooks, saved : Arenas \cup {None}, running : Hooks \cup {None}]

TypeOK ==
  /\ region \in [Regions -> StructType]
  /\ ends \in Seq(FrameType)
  /\ fill \in [Arenas -> 0 .. MaxFill]
  /\ owed \in [Regions -> Seq(Hooks)]
  /\ late \in [Regions -> SUBSET Hooks]
  /\ attached \in [Regions -> Arenas \cup {None}]

(* Hooks are called once each and last registered first, whatever the      *)
(* hooks called so far have registered, and region_end is not over while   *)
(* one that was there when it began has not been called (region.h,         *)
(* "Every slot below num_hooks at the call visited, last first").          *)
HooksInReverse ==
  [][/\ CallHook =>
          /\ owed[Top.r] # <<>>
          /\ Last(ends').running = Last(owed[Top.r])
          /\ owed'[Top.r] = Front(owed[Top.r])
     /\ EndFinish => owed[Top.r] = <<>>]_vars

(* Hooks may still use the region's arena: an arena is emptied only by a   *)
(* region that has no hook left to call (region.h, "after hooks - hooks    *)
(* may still allocate from it").                                           *)
ArenaOutlivesHooks ==
  [][\A a \in Arenas : fill'[a] < fill[a] =>
       \E r \in Regions : Ending(r) /\ attached[r] = a /\ owed[r] = <<>>]_vars

(* When region_end returns, the arena attached when it was called is       *)
(* empty, whatever arena a hook attached meanwhile.                        *)
EndEmptiesArena ==
  [][EndFinish => (attached[Top.r] # None => fill'[attached[Top.r]] = 0)]_vars

(* A region_end that was called comes to an end, whatever its hooks        *)
(* register, begin and end meanwhile: what they register does not make its *)
(* loop longer.                                                            *)
EndReturns == \A r \in Regions : Ending(r) ~> ~Ending(r)

(* region.h: region_register "Registers a cleanup hook - called LIFO on    *)
(* region_end()"; it returns "true on success".                            *)
RegisteredHooksRun ==
  \A r \in Regions : ~region[r].open => late[r] = {}
=============================================================================
