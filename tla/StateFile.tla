------------------------------ MODULE StateFile ------------------------------
(***************************************************************************)
(* The JSON files the program rewrites as a whole: state.json              *)
(* (src/internal/state/state.go, mutators.go), the project's               *)
(* permissions.json (project_permissions.go) and auth.json                 *)
(* (src/internal/auth/auth.go).                                            *)
(*                                                                         *)
(* A mutator loads the file, changes the value and saves it: the new text  *)
(* goes to path + ".tmp", opened with O_TRUNC, which is then renamed over  *)
(* the file.  All savers of a file share that one temporary name.  auth    *)
(* takes a process-wide mutex around the three; state takes none.          *)
(*                                                                         *)
(* The directory maps two names to inodes; a saver keeps the inode it has  *)
(* opened whatever happens to the name.  A stored value is a set of items  *)
(* (allow rules, favourites, credentials by provider).                     *)
(***************************************************************************)
EXTENDS Integers, FiniteSets

CONSTANTS
  Items,    \* what a file may list
  Writers,  \* goroutines that call a mutator
  Procs,    \* running processes of the program
  ProcOf,   \* [Writers -> Procs]
  Locked,   \* the mutators hold a process-wide mutex (fileMu)
  Nobody    \* not a writer: the mutex is free

ASSUME ProcOfAssumption == ProcOf \in [Writers -> Procs]
ASSUME LockedAssumption == Locked \in BOOLEAN
ASSUME NobodyAssumption == Nobody \notin Writers
ASSUME WritersAssumption == IsFiniteSet(Writers)

VARIABLES
  path,     \* the inode of the file (0: there is none)
  tmp,      \* the inode of the temporary name (0: there is none)
  content,  \* what each inode holds
  pc,       \* where each writer is
  value,    \* the value a writer is about to save
  fd,       \* the inode a writer has opened
  fileMu,   \* holder of the process-wide mutex
  saved     \* history: the value after the last Save that returned nil

dirVars == <<path, tmp>>
vars == <<dirVars, content, pc, value, fd, fileMu, saved>>

(* Enough inodes for both names and every open descriptor.                 *)
Inodes == 1..(Cardinality(Writers) + 2)

Contents == [kind : {"empty", "whole", "garbled"}, items : SUBSET Items]
Empty == [kind |-> "empty", items |-> {}]
Garbled == [kind |-> "garbled", items |-> {}]
Whole(S) == [kind |-> "whole", items |-> S]

Init ==
  /\ path = 0
  /\ tmp = 0
  /\ content = [i \in Inodes |-> Empty]
  /\ pc = [w \in Writers |-> "idle"]
  /\ value = [w \in Writers |-> {}]
  /\ fd = [w \in Writers |-> 0]
  /\ fileMu = [q \in Procs |-> Nobody]
  /\ saved = {}

-----------------------------------------------------------------------------
(* Load: a missing file is the empty value, anything but a whole one fails *)
(* with ErrCorruptState and the mutator gives up.                          *)
Stored == IF path = 0 THEN Whole({}) ELSE content[path]
Loads == Stored.kind = "whole"
Loaded == Stored.items

NoMutex(w) == TRUE                                  \* mutant: no mutex
MutexFree(w) == Locked => fileMu[ProcOf[w]] = Nobody

AcquireMutex(w) ==
  fileMu' = IF Locked THEN [fileMu EXCEPT ![ProcOf[w]] = w] ELSE fileMu
ReleaseMutex(w) ==
  fileMu' = IF Locked THEN [fileMu EXCEPT ![ProcOf[w]] = Nobody] ELSE fileMu

(* A mutator begins: it returns at once when the file is corrupt or when   *)
(* it sees nothing to change.                                              *)
Mutate(w, S, changes) ==
  /\ pc[w] = "idle"
  /\ MutexFree(w)
  /\ \/ /\ Loads
        /\ changes
        /\ value' = [value EXCEPT ![w] = S]
        /\ pc' = [pc EXCEPT ![w] = "open"]
        /\ AcquireMutex(w)
     \/ /\ ~Loads \/ ~changes
        /\ UNCHANGED <<value, pc, fileMu>>
  /\ UNCHANGED <<dirVars, content, fd, saved>>

(* state's AddAllowRule saves what is new only, auth's Set saves always.   *)
AddAllowRuleChanges(x) == x \notin Loaded
AddItem(w, x) ==
  Mutate(w, Loaded \cup {x}, Locked \/ AddAllowRuleChanges(x))
RemoveItem(w, x) == Mutate(w, Loaded \ {x}, x \in Loaded)

-----------------------------------------------------------------------------
(* Save                                                                    *)

Returns(w) ==
  /\ pc' = [pc EXCEPT ![w] = "idle"]
  /\ value' = [value EXCEPT ![w] = {}]
  /\ fd' = [fd EXCEPT ![w] = 0]
  /\ ReleaseMutex(w)

FreeInodes == Inodes \ ({path, tmp} \cup {fd[w] : w \in Writers})
NewInode == CHOOSE i \in FreeInodes : TRUE

TmpInode == IF tmp = 0 THEN NewInode ELSE tmp

Truncated == [content EXCEPT ![TmpInode] = Empty]

(* O_CREATE and O_TRUNC: the inode another saver has open is emptied.      *)
OpenTmp(w) ==
  /\ pc[w] = "open"
  /\ \/ /\ tmp' = TmpInode
        /\ fd' = [fd EXCEPT ![w] = TmpInode]
        /\ content' = Truncated
        /\ pc' = [pc EXCEPT ![w] = "write"]
        /\ UNCHANGED <<value, fileMu>>
     \/ Returns(w) /\ UNCHANGED <<tmp, content>>    \* open failed
  /\ UNCHANGED <<path, saved>>

(* Writing S from offset 0 over what another saver has written meanwhile:  *)
(* a longer text keeps its tail.                                           *)
Overwritten(old, S) ==
  CASE old = Empty -> {Whole(S)}
    [] old.kind = "whole" /\ Cardinality(old.items) < Cardinality(S) -> {Whole(S)}
    [] OTHER -> {Whole(S), Garbled}

WriteTmp(w) ==
  /\ pc[w] = "write"
  /\ \/ \E c \in Overwritten(content[fd[w]], value[w]) :
          /\ content' = [content EXCEPT ![fd[w]] = c]
          /\ pc' = [pc EXCEPT ![w] = "rename"]
     \/ /\ content' = [content EXCEPT ![fd[w]] = Garbled]
        /\ pc' = [pc EXCEPT ![w] = "cleanup"]       \* write, sync or close
  /\ UNCHANGED <<dirVars, value, fd, fileMu, saved>>

RenameTmp(w) ==
  /\ pc[w] = "rename"
  /\ \/ /\ tmp # 0
        /\ path' = tmp
        /\ tmp' = 0
        /\ saved' = value[w]
        /\ Returns(w)
     \/ /\ pc' = [pc EXCEPT ![w] = "cleanup"]       \* gone, or rename failed
        /\ UNCHANGED <<dirVars, value, fd, fileMu, saved>>
  /\ UNCHANGED content

RemovesTmp == /\ tmp' = 0
              /\ UNCHANGED path

(* os.Remove of the temporary name, then the error is returned.            *)
Cleanup(w) ==
  /\ pc[w] = "cleanup"
  /\ RemovesTmp
  /\ Returns(w)
  /\ UNCHANGED <<content, saved>>

-----------------------------------------------------------------------------
(* A process dies, perhaps in the middle of a write.                       *)
Crash(q) ==
  LET dead == {w \in Writers : ProcOf[w] = q}
      open == {fd[w] : w \in {v \in dead : pc[v] = "write"}}
  IN
  /\ \E w \in dead : pc[w] # "idle"
  /\ \E torn \in SUBSET open :
       content' = [i \in Inodes |-> IF i \in torn THEN Garbled ELSE content[i]]
  /\ pc' = [w \in Writers |-> IF w \in dead THEN "idle" ELSE pc[w]]
  /\ value' = [w \in Writers |-> IF w \in dead THEN {} ELSE value[w]]
  /\ fd' = [w \in Writers |-> IF w \in dead THEN 0 ELSE fd[w]]
  /\ fileMu' = [fileMu EXCEPT ![q] = Nobody]
  /\ UNCHANGED <<dirVars, saved>>

SaveStep(w) == OpenTmp(w) \/ WriteTmp(w) \/ RenameTmp(w) \/ Cleanup(w)

Next ==
  \/ \E w \in Writers, x \in Items : AddItem(w, x) \/ RemoveItem(w, x)
  \/ \E w \in Writers : SaveStep(w)
  \/ \E q \in Procs : Crash(q)

Spec == Init /\ [][Next]_vars

-----------------------------------------------------------------------------
(* The types of the state; a writer between its open and its rename holds  *)
(* a descriptor, and one outside Set and Remove holds no mutex.            *)
TypeOK ==
  /\ path \in Inodes \cup {0}
  /\ tmp \in Inodes \cup {0}
  /\ content \in [Inodes -> Contents]
  /\ pc \in [Writers -> {"idle", "open", "write", "rename", "cleanup"}]
  /\ value \in [Writers -> SUBSET Items]
  /\ fd \in [Writers -> Inodes \cup {0}]
  /\ fileMu \in [Procs -> Writers \cup {Nobody}]
  /\ saved \subseteq Items
  /\ \A w \in Writers :
       /\ pc[w] \in {"write", "rename", "cleanup"} => fd[w] # 0
       /\ pc[w] = "idle" => fileMu[ProcOf[w]] # w

(* "readers always see either the previous complete file or the new        *)
(* complete file - never a partial write" (the package comment of state).  *)
FileIsWhole == path # 0 => content[path].kind = "whole"

(* The file holds exactly the value of the last save that succeeded:       *)
(* whatever fails or crashes in between, nothing of it is lost and nothing *)
(* of an unsuccessful save shows.                                          *)
FileHoldsLastSave == FileIsWhole /\ Loaded = saved

=============================================================================
