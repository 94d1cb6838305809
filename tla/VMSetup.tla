------------------------------- MODULE VMSetup -------------------------------
(***************************************************************************)
(* The first n_malloc calls of a program on my_vm.c: n_malloc tests        *)
(* phys_mem without a lock and calls set_physical_mem, which publishes     *)
(* phys_mem first and the rest of the state after it, under setup_lock.    *)
(* Every caller then allocates one page: get_next_avail, a frame for the   *)
(* page, its entry in the page table.  The page-table level between        *)
(* directory and page is left out (VMem has it): dir holds the frames      *)
(* reachable from the page directory.                                      *)
(***************************************************************************)
EXTENDS Integers, FiniteSets

CONSTANTS
  Callers,    \* the threads that call n_malloc
  Main,       \* one of them
  Starts,     \* the values that mainfirst may have
  NULL,
  NumFrames   \* MEMSIZE / PGSIZE

VARIABLES
  mainfirst,   \* do the others start only after Main's call has returned?
  phys_mem,    \* phys_mem # NULL
  sized,       \* num_phys_pages and num_virt_pages are set
  bitmaps,     \* phys_bitmap and virt_bitmap # NULL
  phys,        \* frames whose bit is set
  page_dir,    \* frame of the page directory, or -1 while it is NULL
  dir,         \* frames reachable from the page directory
  setup_lock,  \* holder of setup_lock
  setups,      \* how often the body of set_physical_mem has been entered
  pc,          \* program counter of each caller
  frame        \* frame allocated by each caller

vars == <<mainfirst, phys_mem, sized, bitmaps, phys, page_dir, dir, setup_lock,
          setups, pc, frame>>

Init ==
  /\ mainfirst \in Starts
  /\ phys_mem = FALSE /\ sized = FALSE /\ bitmaps = FALSE
  /\ phys = {} /\ page_dir = -1 /\ dir = {}
  /\ setup_lock = NULL /\ setups = 0
  /\ pc = [t \in Callers |-> "start"]
  /\ frame = [t \in Callers |-> -1]

Goto(t, l) == pc' = [pc EXCEPT ![t] = l]

\* What allocate_phys_page finds; without bitmaps it dereferences NULL.
LowestFree(f) == f \in (0 .. NumFrames - 1) \ phys /\ (0 .. f - 1) \subseteq phys

\* Mutation: the frame is not marked.
set_bit_not(f) == UNCHANGED phys

set_bit(f) == phys' = phys \cup {f}

\* n_malloc: if (phys_mem == NULL) set_physical_mem();
Test(t) ==
  /\ pc[t] = "start"
  /\ mainfirst /\ t # Main => pc[Main] = "done"
  /\ Goto(t, IF phys_mem THEN "avail" ELSE "lock")
  /\ UNCHANGED <<phys_mem, sized, bitmaps, phys, page_dir, dir, setup_lock,
                 setups, frame>>

\* Mutation: phys_mem is not tested again under setup_lock.
Unset_untested == TRUE

Unset == ~phys_mem

\* set_physical_mem: lock, and test again.
Lock(t) ==
  /\ pc[t] = "lock" /\ setup_lock = NULL
  /\ \/ ~Unset /\ Goto(t, "avail") /\ UNCHANGED <<setup_lock, setups>>
     \/ /\ Unset
        /\ setup_lock' = t
        /\ setups' = setups + 1
        /\ Goto(t, "publish")
  /\ UNCHANGED <<phys_mem, sized, bitmaps, phys, page_dir, dir, frame>>

Publish(t) ==
  /\ pc[t] = "publish"
  /\ phys_mem' = TRUE
  /\ Goto(t, "size")
  /\ UNCHANGED <<sized, bitmaps, phys, page_dir, dir, setup_lock, setups, frame>>

Size(t) ==
  /\ pc[t] = "size"
  /\ sized' = TRUE
  /\ Goto(t, "calloc")
  /\ UNCHANGED <<phys_mem, bitmaps, phys, page_dir, dir, setup_lock, setups, frame>>

\* calloc: the bitmaps are there, and clear.
Calloc(t) ==
  /\ pc[t] = "calloc"
  /\ bitmaps' = TRUE
  /\ phys' = {}
  /\ Goto(t, "dirframe")
  /\ UNCHANGED <<phys_mem, sized, page_dir, dir, setup_lock, setups, frame>>

\* The first free frame becomes the page directory.
DirFrame(t) ==
  /\ pc[t] = "dirframe"
  /\ \E f \in 0 .. NumFrames - 1 : /\ LowestFree(f)
                                   /\ set_bit(f)
                                   /\ page_dir' = f
  /\ Goto(t, "zero")
  /\ UNCHANGED <<phys_mem, sized, bitmaps, dir, setup_lock, setups, frame>>

\* memset of the directory, initialisation of the TLB, unlock.
Zero(t) ==
  /\ pc[t] = "zero"
  /\ dir' = {}
  /\ setup_lock' = NULL
  /\ Goto(t, "avail")
  /\ UNCHANGED <<phys_mem, sized, bitmaps, phys, page_dir, setups, frame>>

\* get_next_avail: nothing to find while num_virt_pages is 0, a NULL
\* dereference while virt_bitmap is NULL.
Avail(t) ==
  /\ pc[t] = "avail"
  /\ Goto(t, IF ~sized THEN "failed" ELSE IF ~bitmaps THEN "segv" ELSE "frame")
  /\ UNCHANGED <<phys_mem, sized, bitmaps, phys, page_dir, dir, setup_lock,
                 setups, frame>>

AllocFrame(t) ==
  /\ pc[t] = "frame"
  /\ \E f \in 0 .. NumFrames - 1 : /\ LowestFree(f)
                                   /\ set_bit(f)
                                   /\ frame' = [frame EXCEPT ![t] = f]
  /\ Goto(t, "map")
  /\ UNCHANGED <<phys_mem, sized, bitmaps, page_dir, dir, setup_lock, setups>>

\* map_page through page_dir.
Map(t) ==
  /\ pc[t] = "map"
  /\ \/ /\ page_dir = -1
        /\ Goto(t, "segv")
        /\ UNCHANGED dir
     \/ /\ page_dir # -1
        /\ dir' = dir \cup {frame[t]}
        /\ Goto(t, "done")
  /\ UNCHANGED <<phys_mem, sized, bitmaps, phys, page_dir, setup_lock, setups, frame>>

Stopped == \/ \E t \in Callers : pc[t] = "segv"
           \/ \A t \in Callers : pc[t] \in {"done", "failed"}

Step(t) ==
  \/ Test(t) \/ Lock(t) \/ Publish(t) \/ Size(t) \/ Calloc(t) \/ DirFrame(t)
  \/ Zero(t) \/ Avail(t) \/ AllocFrame(t) \/ Map(t)

Next == \/ ~Stopped /\ (\E t \in Callers : Step(t)) /\ UNCHANGED mainfirst
        \/ Stopped /\ UNCHANGED vars

Spec == Init /\ [][Next]_vars /\ WF_vars(Next)

-----------------------------------------------------------------------------
\* set_physical_mem's second test under setup_lock makes the setup run at most
\* once, however many first calls of n_malloc race.
SetupOnce == setups <= 1

\* A call of n_malloc that is past its phys_mem test finds everything set up:
\* "Initializes physical memory and page directories if not already done."
InitBeforeUse ==
  \A t \in Callers : pc[t] \in {"avail", "frame", "map", "done"} =>
    sized /\ bitmaps /\ page_dir # -1 /\ \A u \in Callers : pc[u] # "zero"

\* When main's call returns before the others start, every first call gets a
\* page of its own, apart from the directory's frame, and keeps it mapped: no
\* call fails, crashes, or is unmapped by the setup.
EveryCallerServed ==
  mainfirst => <>[](\A t \in Callers :
         /\ pc[t] = "done" /\ frame[t] \in dir /\ frame[t] # page_dir
         /\ \A u \in Callers : u # t => frame[u] # frame[t])
=============================================================================
