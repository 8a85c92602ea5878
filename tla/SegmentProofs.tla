--------------------------- MODULE SegmentProofs ----------------------------
(***************************************************************************)
(* What Segment promises, for any number of kernels and of programs.       *)
(***************************************************************************)
EXTENDS Segment, TLAPS

\* Two kernels that run are beside each other.
Alone ==
  \A j, k \in Running : j # k => k \in beside

\* A segment exists only once its kernel has come to create it.
Unborn ==
  \A k \in Kernel :
    kernel[k] \in {"off", "unlinked"} =>
      /\ name # k
      /\ \A j \in Kernel : seg[j] # k /\ mapped[j] # k
      /\ \A a \in App : at[a] # k

\* Between its shm_unlink and its shm_open a kernel finds a name only if
\* another kernel has put it there meanwhile.
NameFree ==
  \A k \in Kernel :
    kernel[k] = "unlinked" /\ name # NoSeg => {k, name} \subseteq beside

\* A kernel is on another one's segment only if they ran together.
OnOwnSegment ==
  \A j, k \in Kernel :
    (seg[j] = k \/ mapped[j] = k) /\ j # k => {j, k} \subseteq beside

\* A kernel that is alone keeps the name it made.
NameKept ==
  \A k \in Kernel \ beside :
    /\ kernel[k] \in {"created", "sized"} => name = seg[k] /\ seg[k] # NoSeg
    /\ kernel[k] \in {"off", "unlinked", "created", "sized"}
         => mapped[k] = NoSeg /\ contents[k] # "configured"
    /\ kernel[k] \in {"boot", "up"} /\ mapped[k] # NoSeg => name = mapped[k]
    /\ kernel[k] = "boot" => contents[k] # "configured"

Launched ==
  \A a \in App : app[a] = "launched" => parent[a] \in Kernel

Closed ==
  \A k \in Kernel : kernel[k] = "closed" => name # k

SegInv ==
  /\ TypeOK
  /\ Alone
  /\ Unborn
  /\ NameFree
  /\ OnOwnSegment
  /\ NameKept
  /\ Launched
  /\ Closed
  /\ NamedByItsKernel

LEMMA InitEstablishes == Init => SegInv
  BY SegmentAssumption
  DEF Init, SegInv, TypeOK, Alone, Unborn, NameFree, OnOwnSegment, NameKept,
      Launched, Closed, NamedByItsKernel, Running, Segment, KernelPC,
      Contents, AppState

LEMMA KernelStepKeeps ==
  ASSUME SegInv, NEW k \in Kernel, KernelSteps(k)
  PROVE  SegInv'
<1> USE SegmentAssumption DEF Segment, KernelPC, Contents, AppState, Running,
        At, Goto, appVars
<1>0. TypeOK /\ Alone /\ Unborn /\ NameFree /\ OnOwnSegment /\ NameKept
        /\ Launched /\ Closed /\ NamedByItsKernel
  BY DEF SegInv
<1> USE <1>0
<1>1. CASE Unlink(k)
  <2> USE <1>1 DEF Unlink, Unlinked, StartBeside
  <2>1. TypeOK'
    BY DEF TypeOK
  <2>2. Alone'
    BY DEF TypeOK, Alone
  <2>3. Unborn'
    BY DEF TypeOK, Unborn
  <2>4. NameFree'
    BY DEF TypeOK, NameFree
  <2>5. OnOwnSegment'
    BY DEF TypeOK, OnOwnSegment
  <2>6. NameKept'
    BY DEF TypeOK, NameKept
  <2>7. Closed'
    BY DEF TypeOK, Closed
  <2>8. NamedByItsKernel'
    BY DEF TypeOK, NamedByItsKernel
  <2>9. Launched'
    BY DEF Launched
  <2> QED
    BY <2>1, <2>2, <2>3, <2>4, <2>5, <2>6, <2>7, <2>8, <2>9 DEF SegInv
<1>2. CASE Create(k)
  <2> USE <1>2 DEF Create
  <2>1. TypeOK'
    BY DEF TypeOK
  <2>2. Alone'
    BY DEF TypeOK, Alone
  <2>3. Unborn'
    BY DEF TypeOK, Unborn
  <2>4. NameFree'
    BY DEF TypeOK, Alone, NameFree
  <2>5. OnOwnSegment'
    BY DEF TypeOK, NameFree, OnOwnSegment
  <2>6. NameKept'
    BY DEF TypeOK, NameKept
  <2>7. Closed'
    BY DEF TypeOK, Closed
  <2>8. NamedByItsKernel'
    BY DEF TypeOK, NamedByItsKernel
  <2>9. Launched'
    BY DEF Launched
  <2> QED
    BY <2>1, <2>2, <2>3, <2>4, <2>5, <2>6, <2>7, <2>8, <2>9 DEF SegInv
<1>3. CASE Resize(k)
  <2> USE <1>3 DEF Resize
  <2>1. TypeOK'
    BY DEF TypeOK
  <2>2. Alone'
    BY DEF TypeOK, Alone
  <2>3. Unborn'
    BY DEF TypeOK, Unborn
  <2>4. NameFree'
    BY DEF TypeOK, NameFree
  <2>5. NameKept'
    BY DEF TypeOK, NameKept
  <2>6. Closed'
    BY DEF TypeOK, Closed
  <2>7. NamedByItsKernel'
    BY DEF TypeOK, NamedByItsKernel
  <2>8. (OnOwnSegment /\ Launched)'
    BY DEF OnOwnSegment, Launched
  <2> QED
    BY <2>1, <2>2, <2>3, <2>4, <2>5, <2>6, <2>7, <2>8 DEF SegInv
<1>4. CASE Initialise(k)
  <2> USE <1>4 DEF Initialise
  <2>1. TypeOK'
    BY DEF TypeOK
  <2>2. Alone'
    BY DEF TypeOK, Alone
  <2>3. Unborn'
    BY DEF TypeOK, Unborn
  <2>4. NameFree'
    BY DEF TypeOK, NameFree
  <2>5. OnOwnSegment'
    BY DEF TypeOK, OnOwnSegment
  <2>6. NameKept'
    BY DEF TypeOK, NameKept
  <2>7. Closed'
    BY DEF TypeOK, Closed
  <2>8. NamedByItsKernel'
    BY DEF TypeOK, NamedByItsKernel
  <2>9. Launched'
    BY DEF Launched
  <2> QED
    BY <2>1, <2>2, <2>3, <2>4, <2>5, <2>6, <2>7, <2>8, <2>9 DEF SegInv
<1>5. CASE InitFails(k)
  <2> USE <1>5 DEF InitFails
  <2>1. TypeOK'
    BY DEF TypeOK
  <2>2. Alone'
    BY DEF TypeOK, Alone
  <2>3. Unborn'
    BY DEF TypeOK, Unborn
  <2>4. NameFree'
    BY DEF TypeOK, NameFree
  <2>5. NameKept'
    BY DEF TypeOK, NameKept
  <2>6. Closed'
    BY DEF TypeOK, Closed
  <2>7. NamedByItsKernel'
    BY DEF TypeOK, NamedByItsKernel
  <2>8. (OnOwnSegment /\ Launched)'
    BY DEF OnOwnSegment, Launched
  <2> QED
    BY <2>1, <2>2, <2>3, <2>4, <2>5, <2>6, <2>7, <2>8 DEF SegInv
<1>6. CASE Boot(k)
  <2> USE <1>6 DEF Boot
  <2>1. TypeOK'
    BY DEF TypeOK
  <2>2. Alone'
    BY DEF TypeOK, Alone
  <2>3. Unborn'
    BY DEF TypeOK, Unborn
  <2>4. NameFree'
    BY DEF TypeOK, NameFree
  <2>5. NameKept'
    BY DEF TypeOK, OnOwnSegment, NameKept
  <2>6. Closed'
    BY DEF TypeOK, Closed
  <2>7. NamedByItsKernel'
    BY DEF TypeOK, NamedByItsKernel
  <2>8. (OnOwnSegment /\ Launched)'
    BY DEF OnOwnSegment, Launched
  <2> QED
    BY <2>1, <2>2, <2>3, <2>4, <2>5, <2>6, <2>7, <2>8 DEF SegInv
<1>7. CASE OnShutdown(k)
  <2> USE <1>7 DEF OnShutdown
  <2>1. TypeOK'
    BY DEF TypeOK
  <2>2. Alone'
    BY DEF TypeOK, Alone
  <2>3. Unborn'
    BY DEF TypeOK, Unborn
  <2>4. NameFree'
    BY DEF TypeOK, NameFree
  <2>5. NameKept'
    BY DEF TypeOK, NameKept
  <2>6. Closed'
    BY DEF TypeOK, Closed
  <2>7. NamedByItsKernel'
    BY DEF TypeOK, NamedByItsKernel
  <2>8. (OnOwnSegment /\ Launched)'
    BY DEF OnOwnSegment, Launched
  <2> QED
    BY <2>1, <2>2, <2>3, <2>4, <2>5, <2>6, <2>7, <2>8 DEF SegInv
<1>8. CASE CloseWindow(k)
  <2> USE <1>8 DEF CloseWindow, AfterMainLoop
  <2>1. TypeOK'
    BY DEF TypeOK
  <2>2. Alone'
    BY DEF TypeOK, Alone
  <2>3. Unborn'
    BY DEF TypeOK, Unborn
  <2>4. NameFree'
    BY DEF TypeOK, NameFree
  <2>5. NameKept'
    BY DEF TypeOK, NameKept
  <2>6. Closed'
    BY DEF TypeOK, Closed
  <2>7. NamedByItsKernel'
    BY DEF TypeOK, NamedByItsKernel
  <2>8. (OnOwnSegment /\ Launched)'
    BY DEF OnOwnSegment, Launched
  <2> QED
    BY <2>1, <2>2, <2>3, <2>4, <2>5, <2>6, <2>7, <2>8 DEF SegInv
<1>9. CASE Unmap(k)
  <2> USE <1>9 DEF Unmap
  <2>1. TypeOK'
    BY DEF TypeOK
  <2>2. Alone'
    BY DEF TypeOK, Alone
  <2>3. Unborn'
    BY DEF TypeOK, Unborn
  <2>4. NameFree'
    BY DEF TypeOK, NameFree
  <2>5. OnOwnSegment'
    BY DEF TypeOK, OnOwnSegment
  <2>6. NameKept'
    BY DEF TypeOK, NameKept
  <2>7. Closed'
    BY DEF TypeOK, Closed
  <2>8. NamedByItsKernel'
    BY DEF TypeOK, NamedByItsKernel
  <2>9. Launched'
    BY DEF Launched
  <2> QED
    BY <2>1, <2>2, <2>3, <2>4, <2>5, <2>6, <2>7, <2>8, <2>9 DEF SegInv
<1>10. CASE UnlinkAtEnd(k)
  <2> USE <1>10 DEF UnlinkAtEnd
  <2>1. TypeOK'
    BY DEF TypeOK
  <2>2. Alone'
    BY DEF TypeOK, Alone
  <2>3. Unborn'
    BY DEF TypeOK, Unborn
  <2>4. NameFree'
    BY DEF TypeOK, NameFree
  <2>5. NameKept'
    BY DEF TypeOK, Alone, NameKept
  <2>6. Closed'
    BY DEF TypeOK, Closed
  <2>7. NamedByItsKernel'
    BY DEF TypeOK, NamedByItsKernel
  <2>8. (OnOwnSegment /\ Launched)'
    BY DEF OnOwnSegment, Launched
  <2> QED
    BY <2>1, <2>2, <2>3, <2>4, <2>5, <2>6, <2>7, <2>8 DEF SegInv
<1>11. CASE Exit(k)
  <2> USE <1>11 DEF Exit
  <2>1. TypeOK'
    BY DEF TypeOK
  <2>2. Alone'
    BY DEF TypeOK, Alone
  <2>3. Unborn'
    BY DEF TypeOK, Unborn
  <2>4. NameFree'
    BY DEF TypeOK, NameFree
  <2>5. NameKept'
    BY DEF TypeOK, NameKept
  <2>6. Closed'
    BY DEF TypeOK, Closed
  <2>7. NamedByItsKernel'
    BY DEF TypeOK, Closed, NamedByItsKernel
  <2>8. (OnOwnSegment /\ Launched)'
    BY DEF OnOwnSegment, Launched
  <2> QED
    BY <2>1, <2>2, <2>3, <2>4, <2>5, <2>6, <2>7, <2>8 DEF SegInv
<1>12. CASE DispatcherFaults(k)
  <2> USE <1>12 DEF DispatcherFaults, Die
  <2>1. TypeOK'
    BY DEF TypeOK
  <2>2. Alone'
    BY DEF TypeOK, Alone
  <2>3. Unborn'
    BY DEF TypeOK, Unborn
  <2>4. NameFree'
    BY DEF TypeOK, NameFree
  <2>5. OnOwnSegment'
    BY DEF TypeOK, OnOwnSegment
  <2>6. NameKept'
    BY DEF TypeOK, NameKept
  <2>7. Closed'
    BY DEF TypeOK, Closed
  <2>8. NamedByItsKernel'
    BY DEF TypeOK, NamedByItsKernel
  <2>9. Launched'
    BY DEF Launched
  <2> QED
    BY <2>1, <2>2, <2>3, <2>4, <2>5, <2>6, <2>7, <2>8, <2>9 DEF SegInv
<1>13. CASE Crash(k)
  <2> USE <1>13 DEF Crash, Die
  <2>1. TypeOK'
    BY DEF TypeOK
  <2>2. Alone'
    BY DEF TypeOK, Alone
  <2>3. Unborn'
    BY DEF TypeOK, Unborn
  <2>4. NameFree'
    BY DEF TypeOK, NameFree
  <2>5. OnOwnSegment'
    BY DEF TypeOK, OnOwnSegment
  <2>6. NameKept'
    BY DEF TypeOK, NameKept
  <2>7. Closed'
    BY DEF TypeOK, Closed
  <2>8. NamedByItsKernel'
    BY DEF TypeOK, NamedByItsKernel
  <2>9. Launched'
    BY DEF Launched
  <2> QED
    BY <2>1, <2>2, <2>3, <2>4, <2>5, <2>6, <2>7, <2>8, <2>9 DEF SegInv
<1> QED
  BY <1>1, <1>2, <1>3, <1>4, <1>5, <1>6, <1>7, <1>8,
     <1>9, <1>10, <1>11, <1>12, <1>13 DEF KernelSteps

LEMMA AppStepKeeps ==
  ASSUME SegInv, NEW a \in App, AppSteps(a)
  PROVE  SegInv'
<1> USE SegmentAssumption DEF Segment, KernelPC, Contents, AppState, Running,
        kernelVars
<1>0. TypeOK /\ Alone /\ Unborn /\ NameFree /\ OnOwnSegment /\ NameKept
        /\ Launched /\ Closed /\ NamedByItsKernel
  BY DEF SegInv
<1> USE <1>0
<1>1. ASSUME NEW k \in Kernel, Launch(k, a) PROVE SegInv'
  <2> USE <1>1 DEF Launch, At
  <2>1. TypeOK'
    BY DEF TypeOK
  <2>2. Launched'
    BY DEF TypeOK, Launched
  <2>3. (Alone /\ Unborn /\ NameFree
         /\ OnOwnSegment /\ NameKept /\ Closed /\ NamedByItsKernel)'
    BY DEF Alone, Unborn, NameFree, OnOwnSegment, NameKept, Closed,
          NamedByItsKernel
  <2> QED
    BY <2>1, <2>2, <2>3 DEF SegInv
<1>2. CASE AppOpen(a)
  <2> USE <1>2 DEF AppOpen, Opens
  <2>1. TypeOK'
    BY DEF TypeOK
  <2>2. Unborn'
    BY DEF TypeOK, Unborn
  <2>3. Launched'
    BY DEF TypeOK, Launched
  <2>4. (Alone /\ NameFree /\ OnOwnSegment
         /\ NameKept /\ Closed /\ NamedByItsKernel)'
    BY DEF Alone, NameFree, OnOwnSegment, NameKept, Closed, NamedByItsKernel
  <2> QED
    BY <2>1, <2>2, <2>3, <2>4 DEF SegInv
<1>3. CASE AppMap(a)
  <2> USE <1>3 DEF AppMap
  <2>1. TypeOK'
    BY DEF TypeOK
  <2>2. Launched'
    BY DEF TypeOK, Launched
  <2>3. (Alone /\ Unborn /\ NameFree
         /\ OnOwnSegment /\ NameKept /\ Closed /\ NamedByItsKernel)'
    BY DEF Alone, Unborn, NameFree, OnOwnSegment, NameKept, Closed,
          NamedByItsKernel
  <2> QED
    BY <2>1, <2>2, <2>3 DEF SegInv
<1>4. CASE AppFaults(a)
  <2> USE <1>4 DEF AppFaults
  <2>1. TypeOK'
    BY DEF TypeOK
  <2>2. Launched'
    BY DEF TypeOK, Launched
  <2>3. (Alone /\ Unborn /\ NameFree
         /\ OnOwnSegment /\ NameKept /\ Closed /\ NamedByItsKernel)'
    BY DEF Alone, Unborn, NameFree, OnOwnSegment, NameKept, Closed,
          NamedByItsKernel
  <2> QED
    BY <2>1, <2>2, <2>3 DEF SegInv
<1>5. CASE AppNotAttached(a)
  <2> USE <1>5 DEF AppNotAttached
  <2>1. TypeOK'
    BY DEF TypeOK
  <2>2. Unborn'
    BY DEF TypeOK, Unborn
  <2>3. Launched'
    BY DEF TypeOK, Launched
  <2>4. (Alone /\ NameFree /\ OnOwnSegment
         /\ NameKept /\ Closed /\ NamedByItsKernel)'
    BY DEF Alone, NameFree, OnOwnSegment, NameKept, Closed, NamedByItsKernel
  <2> QED
    BY <2>1, <2>2, <2>3, <2>4 DEF SegInv
<1>6. CASE AppEnds(a)
  <2> USE <1>6 DEF AppEnds
  <2>1. TypeOK'
    BY DEF TypeOK
  <2>2. Launched'
    BY DEF TypeOK, Launched
  <2>3. (Alone /\ Unborn /\ NameFree
         /\ OnOwnSegment /\ NameKept /\ Closed /\ NamedByItsKernel)'
    BY DEF Alone, Unborn, NameFree, OnOwnSegment, NameKept, Closed,
          NamedByItsKernel
  <2> QED
    BY <2>1, <2>2, <2>3 DEF SegInv
<1> QED
  BY <1>1, <1>2, <1>3, <1>4, <1>5, <1>6 DEF AppSteps

LEMMA SegInvInvariant == Spec => []SegInv
<1>1. Init => SegInv
  BY InitEstablishes
<1>2. SegInv /\ [Next]_vars => SegInv'
  <2> SUFFICES ASSUME SegInv, [Next]_vars PROVE SegInv'
    OBVIOUS
  <2>1. CASE Next
    BY <2>1, KernelStepKeeps, AppStepKeeps DEF Next
  <2>2. CASE UNCHANGED vars
    BY <2>2
    DEF vars, kernelVars, appVars, SegInv, TypeOK, Alone, Unborn, NameFree,
        OnOwnSegment, NameKept, Launched, Closed, NamedByItsKernel, Running
  <2> QED
    BY <2>1, <2>2
<1> QED
  BY <1>1, <1>2, PTL DEF Spec

\* However many kernels and programs there are, a name that is left belongs to
\* a kernel that still runs or that ended without cleaning up (memory.c:42).
THEOREM NothingElseLeft == Spec => []NamedByItsKernel
<1>1. SegInv => NamedByItsKernel
  BY DEF SegInv
<1> QED
  BY <1>1, SegInvInvariant, PTL

\* However many kernels came before and whatever is left of them, one that
\* boots alone opens a segment that nobody has open (memory.c:12).
THEOREM BootsOnFresh == Spec => FreshSegment
<1> DEFINE Fresh ==
      \A k \in Kernel \ beside :
        seg'[k] # seg[k] =>
          /\ \A j \in Kernel : seg[j] # seg'[k]
          /\ \A a \in App : at[a] # seg'[k]
<1>1. SegInv /\ [Next]_vars => [Fresh]_vars
  <2> SUFFICES ASSUME SegInv, Next, NEW k \in Kernel \ beside,
                      seg'[k] # seg[k]
               PROVE  /\ \A j \in Kernel : seg[j] # seg'[k]
                      /\ \A a \in App : at[a] # seg'[k]
    OBVIOUS
  <2>1. Create(k)
    BY DEF Next, KernelSteps, AppSteps, SegInv, TypeOK, Unlink, Unlinked, Create,
           Resize, Initialise, InitFails, Boot, OnShutdown, CloseWindow, AfterMainLoop,
           Unmap, UnlinkAtEnd, Exit, DispatcherFaults, Crash, Die, Launch,
           AppOpen, Opens, AppMap, AppNotAttached, AppFaults, AppEnds, kernelVars
  <2>2. name = NoSeg
    BY <2>1 DEF SegInv, NameFree, Create, At
  <2>3. seg'[k] = k
    BY <2>1, <2>2 DEF SegInv, TypeOK, Create
  <2> QED
    BY <2>1, <2>3 DEF SegInv, Unborn, Create, At
<1> QED
  BY <1>1, SegInvInvariant, PTL DEF Spec, FreshSegment

\* However many kernels and programs there are, a program whose shm_open succeeds
\* or finds no name, while its kernel is up and no other ran beside it, is on
\* that kernel's table (memory.c:15).
THEOREM ProgramsShareTheTable == Spec => AppsShareTheTable
<1> DEFINE Shares ==
      \A a \in App :
        LET k == parent[a]
        IN  app[a] = "launched" /\ app'[a] = "opened" /\ k \notin beside
              /\ kernel[k] = "up" /\ mapped[k] # NoSeg
            => at'[a] = mapped[k]
<1>1. SegInv /\ [Next]_vars => [Shares]_vars
  <2> SUFFICES ASSUME SegInv, Next, NEW a \in App,
                      app[a] = "launched", app'[a] = "opened",
                      parent[a] \notin beside,
                      kernel[parent[a]] = "up", mapped[parent[a]] # NoSeg
               PROVE  at'[a] = mapped[parent[a]]
    OBVIOUS
  <2>1. AppOpen(a)
    BY DEF Next, KernelSteps, AppSteps, SegInv, TypeOK, Unlink, Unlinked, Create,
           Resize, Initialise, InitFails, Boot, OnShutdown, CloseWindow, AfterMainLoop,
           Unmap, UnlinkAtEnd, Exit, DispatcherFaults, Crash, Die, Launch,
           AppOpen, Opens, AppMap, AppNotAttached, AppFaults, AppEnds, appVars
  <2>2. at'[a] = name
    BY <2>1 DEF SegInv, TypeOK, AppOpen, Opens
  <2>3. name = mapped[parent[a]]
    BY DEF SegInv, Launched, NameKept
  <2> QED
    BY <2>2, <2>3
<1> QED
  BY <1>1, SegInvInvariant, PTL DEF Spec, AppsShareTheTable

\* However many kernels and programs there are, a table that was configured is
\* never wiped by a kernel that runs after its own (memory.c:25).
THEOREM NeverWiped == Spec => ConfiguredStays
<1> DEFINE Stays ==
      \A k \in Kernel \ beside' :
        contents[k] = "configured" => contents'[k] = "configured"
<1>1. SegInv /\ [Next]_vars => [Stays]_vars
  <2> SUFFICES ASSUME SegInv, Next, NEW k \in Kernel \ beside',
                      contents[k] = "configured"
               PROVE  contents'[k] = "configured"
    OBVIOUS
  <2>1. CASE \E j \in Kernel : Initialise(j)
    <3>1. PICK j \in Kernel : Initialise(j)
      BY <2>1
    <3>2. seg[j] # k
      BY <3>1 DEF SegInv, NameKept, OnOwnSegment, Initialise, At
    <3> QED
      BY <3>1, <3>2 DEF SegInv, TypeOK, Initialise
  <2>2. CASE ~ \E j \in Kernel : Initialise(j)
    BY <2>2
    DEF Next, KernelSteps, AppSteps, SegInv, TypeOK, Unlink, Unlinked, Create, Resize,
        InitFails, Boot, OnShutdown, CloseWindow, AfterMainLoop, Unmap, UnlinkAtEnd, Exit,
        DispatcherFaults, Crash, Die, Launch, AppOpen, Opens, AppMap,
        AppNotAttached, AppFaults, AppEnds
  <2> QED
    BY <2>1, <2>2
<1> QED
  BY <1>1, SegInvInvariant, PTL DEF Spec, ConfiguredStays

=============================================================================
