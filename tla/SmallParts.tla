----------------------------- MODULE SmallParts -----------------------------
(***************************************************************************)
(* The parts that are proved about in PartsProofs and that TLC checks,     *)
(* with others, in MCParts: the list and the heap of the schedulers,       *)
(* rufs_write on the bytes of a file, the copying loop, the addresses, the *)
(* matrices and the first n_malloc calls of my_vm.c, and the programs      *)
(* threads.c and ucontext.c.                                               *)
(***************************************************************************)
EXTENDS Integers

CONSTANTS
  HeapIds, HeapValues, INT_MAX, MAX_THREADS,           \* of Heap
  QueueWorkers, TickPoints,                            \* of RunQueue
  BlockBytes, FilePtrs, FileBlocks, WriteMax, Written, \* of FileIO
  StartVpn, VpnLimit, RegionPages, Requests,           \* of PageGeometry
  PageSize, NumPages, MaxSize,                         \* of DataCopy
  MatSizes, MatValues, WordMod,                        \* of MatMult
  Callers, MainCaller, Starts, NumFrames,              \* of VMSetup
  Loop,                                                \* of Counter
  NULL

VARIABLES
  h_threads, h_size, h_val, h_pc, h_i, h_min, h_held, h_wide,
  q_head, q_tail, q_next, q_data, q_used, q_running, q_pc, q_node, q_away,
  f_inode, f_data, f_marked, f_pc, f_req, f_cp, f_written, f_idx, f_start,
  f_known,
  g_virt, g_phys, g_pt, g_regions, g_cur,
  d_va, d_size, d_mapped, d_curr_va, d_bytes_remaining, d_copied, d_status,
  m_size, m_mat1, m_mat2, m_answer, m_mem, m_i, m_j, m_k, m_c,
  s_mainfirst, s_phys_mem, s_sized, s_bitmaps, s_phys, s_page_dir, s_dir,
  s_setup_lock, s_setups, s_pc, s_frame,
  c_x, c_mutex, c_pc, c_i, c_loaded, c_created, c_joined,
  u_pc, u_resumed_to_main, u_stack, u_runs

\* the heap of the PSJF and CFS schedulers
HP == INSTANCE Heap WITH
  Ids <- HeapIds, Values <- HeapValues,
  threads <- h_threads, size <- h_size, val <- h_val, pc <- h_pc, i <- h_i,
  min <- h_min, held <- h_held, wide <- h_wide

\* the list of the round-robin scheduler
RQ == INSTANCE RunQueue WITH
  NumWorkers <- QueueWorkers, Interruptible <- TickPoints,
  head <- q_head, tail <- q_tail, next <- q_next, data <- q_data,
  used <- q_used, running <- q_running, pc <- q_pc, node <- q_node,
  away <- q_away

\* rufs_write on the bytes of a file
FI == INSTANCE FileIO WITH
  BLOCK_SIZE <- BlockBytes, NPtr <- FilePtrs, NumBlocks <- FileBlocks,
  MaxSize <- WriteMax, Values <- Written,
  inode <- f_inode, data <- f_data, marked <- f_marked, pc <- f_pc,
  req <- f_req, cp <- f_cp, written <- f_written, idx <- f_idx,
  start <- f_start, known <- f_known

\* addresses with 4 KB pages
PG == INSTANCE PageGeometry WITH
  SizeExp <- 12, NumVirt <- VpnLimit, MaxPages <- RegionPages,
  Sizes <- Requests,
  virt <- g_virt, phys <- g_phys, pt <- g_pt, regions <- g_regions,
  cur <- g_cur

\* put_data and get_data
DC == INSTANCE DataCopy WITH
  PGSIZE <- PageSize,
  va <- d_va, size <- d_size, mapped <- d_mapped, curr_va <- d_curr_va,
  bytes_remaining <- d_bytes_remaining, copied <- d_copied,
  status <- d_status

\* mat_mult
MM == INSTANCE MatMult WITH
  Sizes <- MatSizes, Values <- MatValues,
  size <- m_size, mat1 <- m_mat1, mat2 <- m_mat2, answer <- m_answer,
  mem <- m_mem, i <- m_i, j <- m_j, k <- m_k, c <- m_c

\* the first n_malloc calls
VS == INSTANCE VMSetup WITH
  Main <- MainCaller,
  mainfirst <- s_mainfirst, phys_mem <- s_phys_mem, sized <- s_sized,
  bitmaps <- s_bitmaps, phys <- s_phys, page_dir <- s_page_dir,
  dir <- s_dir, setup_lock <- s_setup_lock, setups <- s_setups, pc <- s_pc,
  frame <- s_frame

\* the two threads of threads.c
CT == INSTANCE Counter WITH
  NumAdders <- 2,
  x <- c_x, mutex <- c_mutex, pc <- c_pc, i <- c_i, loaded <- c_loaded,
  created <- c_created, joined <- c_joined

\* the two contexts of ucontext.c
CX == INSTANCE Context WITH
  pc <- u_pc, resumed_to_main <- u_resumed_to_main, stack <- u_stack,
  runs <- u_runs

-----------------------------------------------------------------------------
\* heap_pop hands PSJF and CFS the thread that comes before all others, and
\* none is lost.
PopsTheLeast == HP!PopsTheLeast

\* Every thread that waits for the processor stands once in the list of enqueue
\* and dequeue, and enqueue never stores through a NULL tail, as long as no
\* tick comes between its test that finds a tail and its store of the new one.
EveryoneInLine == RQ!EveryoneInLine

\* enqueue and dequeue under schedule() implement a first-in first-out line.
RefinesFIFO == RQ!RefinesFIFO

\* What rufs_write has written is what rufs_read returns, whatever writes
\* elsewhere have done since, also the ones that failed half way.
ReadsBack == FI!ReadsBack

\* With 4 KB pages every byte of a request translates to a frame of
\* its own, and the bitmaps mark exactly what is in use.
BackedByOwnFrame == PG!BackedByOwnFrame

\* put_data and get_data move every byte to its own place, and up to the
\* first unmapped page when they fail.
CopiesExactly == DC!CopiesExactly

\* mat_mult stores the product of the matrices modulo the word size.
ComputesProduct == MM!ComputesProduct

\* Racing first calls of n_malloc set physical memory up once.
SetupOnce == VS!SetupOnce

\* Both threads of threads.c have added all their turns when x is printed.
CountsEveryTurn == CT!CountsEveryTurn

\* The worker of ucontext.c runs once, on a stack that is freed after it.
RunsOnceOnItsStack == CX!RunsOnceOnItsStack
=============================================================================
