------------------------------- MODULE Config -------------------------------
(***************************************************************************)
(* Loading the configuration, and the writers that change one setting of   *)
(* it (src/internal/config/loader.go, config.go, writer.go).               *)
(*                                                                         *)
(* A load finds the sources (user files, the named profile and those it    *)
(* extends, project files), merges them over the defaults one by one, then *)
(* the environment and the flags, and records for every leaf the sources   *)
(* that set it.  A writer changes the file the record of the last load     *)
(* names.  Which profile is named, the interpolation of variables, the     *)
(* decoding into structs and the validation are left out.                  *)
(***************************************************************************)
EXTENDS ConfigMerge, FiniteSets

CONSTANTS
  Below,      \* files below the profiles, lowest first; the first is the
              \* user configuration
  Profiles,   \* profiles a file may be there for
  Above,      \* files above them: walk-up from the root, then the project's
  Overlays,   \* the environment and the flags
  Named,      \* the profile in effect
  Default,    \* the profile that may be missing
  None,
  MaxDepth,   \* maxProfileDepth
  Defaults,   \* the tree of defaultConfig
  TreesOf,    \* per source, the trees it may hold
  BasesOf,    \* per profile, what its file may extend
  Writers     \* the writers: a path and the paths consulted for the file

Files == ToSet(Below) \cup Profiles \cup ToSet(Above)
Sources == Files \cup ToSet(Overlays)
NoFile == Absent

VARIABLES
  disk,      \* per source, its tree, or NoFile
  extends,   \* per profile, the `extends` key of its file
  phase,     \* where the load is, or the error it ended with
  current,   \* resolveProfileChain's current
  chain,     \* its chain, the named profile first
  sources,   \* the sources to merge, lowest first
  done,      \* how many have been merged
  merged, prov,
  written    \* the writers that have written

loadVars == <<phase, current, chain, sources, done, merged, prov>>
vars == <<disk, extends, loadVars, written>>

TypeOK ==
  /\ DOMAIN disk = Sources
  /\ extends \in [Profiles -> Profiles \cup {None}]
  /\ phase \in {"idle", "chain", "merging", "loaded", "cyclic", "depth",
                "missing", "mismatch", "stale"}
  /\ current \in Profiles /\ chain \in Seq(Profiles) /\ Len(chain) <= MaxDepth
  /\ sources \in Seq(Sources) /\ done \in 0 .. Len(sources)
  /\ \A p \in DOMAIN prov : prov[p] \in Seq(Sources \cup {"<defaults>"})
  /\ written \subseteq Writers

(* Every choice of a tree for each source.                                 *)
Disks ==
  FoldSet(LAMBDA s, ds : {[r \in DOMAIN d \cup {s} |-> IF r = s THEN t ELSE d[r]] :
                            d \in ds, t \in TreesOf[s]},
          {[r \in {} |-> NoFile]}, Sources)

Init ==
  /\ disk \in Disks
  /\ extends \in {e \in [Profiles -> Profiles \cup {None}] :
                    \A p \in Profiles :
                      e[p] \in IF disk[p] = NoFile THEN {None} ELSE BasesOf[p]}
  /\ phase = "idle" /\ current = Named
  /\ chain = <<>> /\ sources = <<>> /\ done = 0
  /\ merged = Defaults /\ prov = <<>> /\ written = {}

Existing(files) == SelectSeq(files, LAMBDA f : disk[f] # NoFile)

(* The first process, and one started after settings were written.         *)
StartLoad ==
  /\ phase \in {"idle", "stale"}
  /\ phase' = "chain" /\ current' = Named /\ chain' = <<>>
  /\ sources' = <<>> /\ done' = 0
  /\ merged' = Defaults
  /\ prov' = [p \in TableLeaves(Defaults, <<>>) |-> <<"<defaults>">>]
  /\ UNCHANGED <<disk, extends, written>>

(* Mutant: the chain is merged in the order it was walked.                 *)
SourcesWalked(profiles) ==
  Existing(Below) \o profiles \o Existing(Above) \o Existing(Overlays)

(* enumerateSources, once the chain is known: the base profile first.      *)
SourcesWith(profiles) ==
  Existing(Below) \o Reverse(profiles) \o Existing(Above) \o Existing(Overlays)

ChainEnds(profiles) ==
  /\ phase' = "merging" /\ sources' = SourcesWith(profiles)
  /\ UNCHANGED current

ChainFails(error) == phase' = error /\ UNCHANGED <<current, sources, chain>>

(* One turn of the loop of resolveProfileChain.                            *)
FollowExtends ==
  /\ phase = "chain"
  /\ IF current \in ToSet(chain) THEN ChainFails("cyclic")
     ELSE IF Len(chain) >= MaxDepth THEN ChainFails("depth")
     ELSE IF disk[current] = NoFile
     THEN IF current = Default THEN ChainEnds(chain) /\ UNCHANGED chain
                               ELSE ChainFails("missing")
     ELSE /\ chain' = Append(chain, current)
          /\ IF extends[current] = None
             THEN ChainEnds(chain')
             ELSE current' = extends[current] /\ UNCHANGED <<phase, sources>>
  /\ UNCHANGED <<disk, extends, done, merged, prov, written>>

(* deepMergeInto: provenance grows at every path the source has touched.   *)
MergeSource ==
  /\ phase = "merging" /\ done < Len(sources)
  /\ LET source == sources[done + 1]
         result == Merge(merged, disk[source])
         Before(p) == IF p \in DOMAIN prov THEN prov[p] ELSE <<>>
     IN IF ~result.ok
        THEN phase' = "mismatch" /\ UNCHANGED <<done, merged, prov>>
        ELSE /\ merged' = result.node
             /\ prov' = [p \in DOMAIN prov \cup result.paths |->
                           IF p \in result.paths THEN Append(Before(p), source)
                                                 ELSE prov[p]]
             /\ done' = done + 1
             /\ UNCHANGED phase
  /\ UNCHANGED <<disk, extends, current, chain, sources, written>>

FinishLoad ==
  /\ phase = "merging" /\ done = Len(sources)
  /\ phase' = "loaded"
  /\ UNCHANGED <<disk, extends, current, chain, sources, done, merged, prov,
                 written>>

(* Mutant: the first file that set the path instead of the last.           *)
FirstRealSource(path) ==
  LET real == SelectSeq(IF path \in DOMAIN prov THEN prov[path] ELSE <<>>,
                        LAMBDA s : s \in Files)
  IN IF real = <<>> THEN None ELSE Head(real)

(* lastRealSource.                                                         *)
LastRealSource(path) ==
  LET real == SelectSeq(IF path \in DOMAIN prov THEN prov[path] ELSE <<>>,
                        LAMBDA s : s \in Files)
  IN IF real = <<>> THEN None ELSE Last(real)

(* The writers' target: the first path that names a file, or the user's.   *)
WriteTarget(w) ==
  LET named == SelectSeq(w.consulted, LAMBDA p : LastRealSource(p) # None)
  IN IF named = <<>> THEN Head(Below) ELSE LastRealSource(Head(named))

(* WriteThemeSelection, WriteProviderAPIKey, WritePluginSources: the       *)
(* record is the one of the process's load, however often it has written.  *)
Write(w) ==
  /\ phase \in {"loaded", "stale"} /\ w \notin written
  /\ LET file == WriteTarget(w)
     IN disk' = [disk EXCEPT ![file] = SetLeaf(@, w.path, Leaf(w.type, "written"))]
  /\ written' = written \cup {w} /\ phase' = "stale"
  /\ UNCHANGED <<extends, current, chain, sources, done, merged, prov>>

Next ==
  \/ StartLoad \/ FollowExtends \/ MergeSource \/ FinishLoad
  \/ \E w \in Writers : Write(w)

Spec == Init /\ [][Next]_vars

(***************************************************************************)
(* Properties.                                                             *)
(***************************************************************************)
(* The record `hygge config explain` prints and the writers go by: the     *)
(* last source recorded for a leaf is the one whose value it has, through  *)
(* any sequence of overrides, removals and reappearances.                  *)
ProvenanceNamesTheWriter ==
  phase = "merging" =>
    \A p \in Leaves(merged, <<>>) :
      /\ p \in DOMAIN prov
      /\ At(IF Last(prov[p]) = "<defaults>" THEN Defaults
                                            ELSE disk[Last(prov[p])], p)
           = At(merged, p)

RECURSIVE Extends(_, _)
Extends(p, q) ==
  extends[p] # None /\ (extends[p] = q \/ Extends(extends[p], q))

(* The documented precedence, stated of pairs: flags over environment over *)
(* project files over profiles over user files, a profile over those it    *)
(* extends.                                                                *)
Rank(s) == CASE s \in ToSet(Below) -> 1
             [] s \in Profiles -> 2
             [] s \in ToSet(Above) -> 3
             [] OTHER -> 4
Order(s) == CHOOSE i \in 0 .. Cardinality(Sources) :
              \/ s \in Profiles /\ i = 0
              \/ \E seq \in {Below, Above, Overlays} :
                   i \in DOMAIN seq /\ seq[i] = s
Beats(s, r) ==
  \/ Rank(s) > Rank(r)
  \/ Rank(s) = Rank(r) /\ Order(s) > Order(r)
  \/ {s, r} \subseteq Profiles /\ Extends(s, r)

(* The merge, key by key and source by source, gives what the precedence   *)
(* says: a path has the leaf of the highest source that sets it or unsets  *)
(* it, or nothing above the defaults decides it.  (An unset of a path with *)
(* no table yet leaves the sentinel there.)                                *)
HighestSourceWins ==
  phase = "loaded" /\ written = {} =>
    \A p \in {q \in UNION {Leaves(disk[s], <<>>) : s \in ToSet(sources)}
                       \cup Leaves(Defaults, <<>>) :
                 \A s \in ToSet(sources) :
                   At(disk[s], q).t \notin {"table", "keyed"}} :
      LET deciding == {s \in ToSet(sources) : Touches(disk[s], p)}
          top == CHOOSE s \in deciding : \A r \in deciding \ {s} : Beats(s, r)
      IN IF deciding = {}
         THEN At(merged, p) = At(Defaults, p)
         ELSE IF UnsetBy(disk[top], p)
         THEN At(merged, p) \in {Absent, Unset}
         ELSE At(merged, p) = At(disk[top], p)

(* A setting the user saves is the one the next load has, unless the       *)
(* environment or a flag sets it, or a source unsets the whole table: the  *)
(* record names the highest file, and no file above it can hide it.        *)
WriteTakesEffect ==
  phase = "loaded" =>
    \A w \in written :
      LET hiding == {s \in ToSet(sources) :
                       \/ s \notin Files /\ Touches(disk[s], w.path)
                       \/ UnsetBy(disk[s], Front(w.path))}
      IN hiding = {} => At(merged, w.path).v = "written"
=============================================================================
