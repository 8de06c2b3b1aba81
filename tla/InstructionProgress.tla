------------------------ MODULE InstructionProgress ------------------------
(***************************************************************************)
(* The processor retrying an instruction under the page-frame manager.     *)
(* An instruction needs the page it is fetched from and the page it loads  *)
(* from or stores to at the same time; every missing page is an abort that *)
(* boot1 handles (pre_do_pab, pre_do_dab) and then the instruction starts  *)
(* again.  With few frames left, loading one page may evict the other: the *)
(* question is when the instruction is bound to complete.                  *)
(***************************************************************************)
EXTENDS MM

CONSTANTS
    CodePages,   \* pages instructions are fetched from
    LoadPages,   \* pages they load from
    StorePages,  \* pages they store to
    NoInstr      \* model value: between two instructions

Instr == [code : CodePages, data : LoadPages, store : {FALSE}]
         \cup [code : CodePages, data : StorePages, store : {TRUE}]

ASSUME InstrAssumption ==
    /\ CodePages \cup LoadPages \cup StorePages \subseteq Pages
    /\ NoInstr \notin Instr

VARIABLES
    instr,   \* the instruction being tried, or NoInstr
    aborts   \* history: its aborts, counted while two frames could be evicted

cpuVars == <<vars, instr, aborts>>

CpuInit == Init /\ instr = NoInstr /\ aborts = 0

(* Frames the search may hand out.                                         *)
Evictable == {f \in Frames : ~lock[f] /\ ~(dirty[f] /\ tag[f] = MainTag)}

TwoEvictable == Cardinality(Evictable) >= 2

Many == 5  \* bound: aborts beyond this are not counted (FewAborts allows fewer)

CountAbort == aborts' = IF ~TwoEvictable THEN 0
                        ELSE IF aborts < Many THEN aborts + 1 ELSE Many

Issue == /\ instr = NoInstr /\ halt = "no"
         /\ instr' \in Instr
         /\ UNCHANGED <<vars, aborts>>

(* Prefetch abort first, then the data abort of the access itself.         *)
Fetched == pte[instr.code] # NoPte

PrefetchAbort == /\ instr # NoInstr /\ ~Fetched
                 /\ TranslationFault(instr.code)
                 /\ UNCHANGED instr /\ CountAbort

DataAbort == /\ instr # NoInstr /\ Fetched
             /\ \/ TranslationFault(instr.data)
                \/ instr.store /\ PermissionFault(instr.data, "sys")
             /\ UNCHANGED instr /\ CountAbort

RetireLoad == /\ instr # NoInstr /\ Fetched /\ ~instr.store
              /\ halt = "no" /\ pte[instr.data] # NoPte
              /\ instr' = NoInstr /\ aborts' = 0
              /\ UNCHANGED vars

RetireStore == /\ instr # NoInstr /\ Fetched /\ instr.store
               /\ \E v \in Values : Store(instr.data, v)
               /\ instr' = NoInstr /\ aborts' = 0

CpuStep == PrefetchAbort \/ DataAbort \/ RetireLoad \/ RetireStore

(* The system maps and unmaps images between two instructions.             *)
Remap == /\ instr = NoInstr
         /\ \/ \E r \in MapRequests : Mmap(r)
            \/ \E i \in Slots \ {0} : Munmap(i)
            \/ \E p \in MemPages : TrimPage(p)
         /\ UNCHANGED <<instr, aborts>>

CpuNext == Issue \/ CpuStep \/ Remap

(* The processor does not stop between an abort and the retry; nothing     *)
(* obliges the program to issue another instruction.                       *)
CpuSpec == CpuInit /\ [][CpuNext]_cpuVars /\ WF_cpuVars(CpuStep)

(* What the tree asks for: no mapping is writable (boot1/main.c:423,        *)
(* app_runtime.c:367), and there is a table for each of two sections.      *)
ReadOnlyMaps == NumMaps >= 2 /\ \A r \in Requests : ~r.writable

(* With two frames left to evict, the pages of an instruction are not      *)
(* evicted for each other again and again: it aborts for the code, the     *)
(* data, the code once more, and for the permission to store, at most.     *)
(* A frame just filled is the last one the search comes to, and an L2      *)
(* table just taken the last one get_l1_mpte comes to.                     *)
FewAborts == instr # NoInstr => aborts <= IF instr.store THEN 4 ELSE 3

(* With two frames left to evict, an instruction that may access its pages *)
(* completes: the circular search does not keep evicting the code page for *)
(* the data page and back.  (With one frame left it does, for ever.)       *)
InstructionCompletes ==
    instr # NoInstr /\ IsServed(instr.code) /\ IsServed(instr.data)
        ~> instr = NoInstr \/ ~TwoEvictable
=============================================================================
