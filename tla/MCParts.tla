------------------------------ MODULE MCParts ------------------------------
(***************************************************************************)
(* The sequential parts of the programs, and the small programs of         *)
(* proj1-submit, for TLC, one statement or one turn of a loop at a time.   *)
(* The concurrent models take these parts as single steps: VMem the search *)
(* of get_next_avail, the copy of put_data and the arithmetic on addresses *)
(* and bitmaps; Workers the list and the heap behind its queues; RUFS the  *)
(* bytes of a block.  VMSetup is what happens before VMem's initial state. *)
(*                                                                         *)
(* The parts do not interact.  The first state picks the one that moves,   *)
(* and the others stay in one of their initial states.                     *)
(***************************************************************************)
EXTENDS FirstFit, SmallParts

VARIABLES
  subject,   \* the part that moves
  b_signed, b_bitmap, b_set

fitvars == vars
heapvars == <<h_threads, h_size, h_val, h_pc, h_i, h_min, h_held, h_wide>>
queuevars == <<q_head, q_tail, q_next, q_data, q_used, q_running, q_pc,
  q_node, q_away>>
filevars == <<f_inode, f_data, f_marked, f_pc, f_req, f_cp, f_written, f_idx,
  f_start, f_known>>
copyvars == <<d_va, d_size, d_mapped, d_curr_va, d_bytes_remaining, d_copied,
  d_status>>
geometryvars == <<g_virt, g_phys, g_pt, g_regions, g_cur>>
setupvars == <<s_mainfirst, s_phys_mem, s_sized, s_bitmaps, s_phys,
  s_page_dir, s_dir, s_setup_lock, s_setups, s_pc, s_frame>>
bitvars == <<b_signed, b_bitmap, b_set>>
matvars == <<m_size, m_mat1, m_mat2, m_answer, m_mem, m_i, m_j, m_k, m_c>>
countervars == <<c_x, c_mutex, c_pc, c_i, c_loaded, c_created, c_joined>>
contextvars == <<u_pc, u_resumed_to_main, u_stack, u_runs>>
partvars == <<subject, fitvars, heapvars, queuevars, filevars, copyvars,
  geometryvars, setupvars, bitvars, matvars, countervars, contextvars>>

\* the bitmaps, of two bytes
BO == INSTANCE BitOps WITH
  NumBytes <- 2, Indices <- {0, 1, 7, 8, 14, 15},
  signed <- b_signed, bitmap <- b_bitmap, set <- b_set

\* Requests of n_malloc: of nothing, of parts of pages, of several pages, and
\* within a page of 4 GB.
SomeRequests == {<<0, 0>>, <<0, 1>>, <<1, 0>>, <<1, 4095>>, <<2, 0>>, <<2, 1>>,
                 <<2 ^ 20 - 1, 0>>, <<2 ^ 20 - 1, 1>>}

-----------------------------------------------------------------------------
Subjects == {"fit", "heap", "queue", "file", "copy", "geometry", "setup",
             "bits", "matrix", "counter", "context"}

\* Every initial state of the part that moves, one of each other part.
PartsInit ==
  /\ subject \in Subjects
  /\ Init /\ (subject # "fit" => old = {} /\ num_pages = 1)
  /\ HP!Init /\ RQ!Init /\ FI!Init /\ PG!Init
  /\ DC!Init /\ (subject # "copy" => d_va = 4 /\ d_size = 1 /\ d_mapped = {})
  /\ VS!Init /\ (subject # "setup" => s_mainfirst)
  /\ BO!Init /\ (subject # "bits" => b_signed)
  /\ MM!Init /\ (subject # "matrix" => m_mem = [a \in 0 .. 2 |-> IF a < 2 THEN 1 ELSE 0])
             /\ (subject # "matrix" => m_mat2 = 1)
  /\ CT!Init /\ CX!Init

FitMoves ==
  /\ subject = "fit" /\ Next
  /\ UNCHANGED <<subject, heapvars, queuevars, filevars, copyvars,
                 geometryvars, setupvars, bitvars, matvars, countervars,
                 contextvars>>

HeapMoves ==
  /\ subject = "heap" /\ HP!Next
  /\ UNCHANGED <<subject, fitvars, queuevars, filevars, copyvars,
                 geometryvars, setupvars, bitvars, matvars, countervars,
                 contextvars>>

QueueMoves ==
  /\ subject = "queue" /\ RQ!Next
  /\ UNCHANGED <<subject, fitvars, heapvars, filevars, copyvars,
                 geometryvars, setupvars, bitvars, matvars, countervars,
                 contextvars>>

FileMoves ==
  /\ subject = "file" /\ FI!Next
  /\ UNCHANGED <<subject, fitvars, heapvars, queuevars, copyvars,
                 geometryvars, setupvars, bitvars, matvars, countervars,
                 contextvars>>

CopyMoves ==
  /\ subject = "copy" /\ DC!Next
  /\ UNCHANGED <<subject, fitvars, heapvars, queuevars, filevars,
                 geometryvars, setupvars, bitvars, matvars, countervars,
                 contextvars>>

GeometryMoves ==
  /\ subject = "geometry" /\ PG!Next
  /\ UNCHANGED <<subject, fitvars, heapvars, queuevars, filevars, copyvars,
                 setupvars, bitvars, matvars, countervars, contextvars>>

SetupMoves ==
  /\ subject = "setup" /\ VS!Next
  /\ UNCHANGED <<subject, fitvars, heapvars, queuevars, filevars, copyvars,
                 geometryvars, bitvars, matvars, countervars, contextvars>>

BitsMoves ==
  /\ subject = "bits" /\ BO!Next
  /\ UNCHANGED <<subject, fitvars, heapvars, queuevars, filevars, copyvars,
                 geometryvars, setupvars, matvars, countervars, contextvars>>

MatrixMoves ==
  /\ subject = "matrix" /\ MM!Next
  /\ UNCHANGED <<subject, fitvars, heapvars, queuevars, filevars, copyvars,
                 geometryvars, setupvars, bitvars, countervars, contextvars>>

CounterMoves ==
  /\ subject = "counter" /\ CT!Next
  /\ UNCHANGED <<subject, fitvars, heapvars, queuevars, filevars, copyvars,
                 geometryvars, setupvars, bitvars, matvars, contextvars>>

ContextMoves ==
  /\ subject = "context" /\ CX!Next
  /\ UNCHANGED <<subject, fitvars, heapvars, queuevars, filevars, copyvars,
                 geometryvars, setupvars, bitvars, matvars, countervars>>

PartsNext ==
  \/ FitMoves \/ HeapMoves \/ QueueMoves \/ FileMoves \/ CopyMoves
  \/ GeometryMoves \/ SetupMoves \/ BitsMoves \/ MatrixMoves
  \/ CounterMoves \/ ContextMoves

\* A thread inside a call is not stopped for ever.
PartsSpec == PartsInit /\ [][PartsNext]_partvars /\ WF_partvars(SetupMoves)

-----------------------------------------------------------------------------
\* In the bitmaps of all three projects a bit is what was last stored in it.
BitsAreASet == subject = "bits" => BO!BitsAreASet

\* After a first n_malloc by main alone, as in the benchmarks, every caller
\* gets a page of its own and keeps it.
EveryCallerServed == subject = "setup" => VS!EveryCallerServed
=============================================================================
