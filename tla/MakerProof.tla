----------------------------- MODULE MakerProof -----------------------------
(***************************************************************************)
(* For any files and images and any number of edits, runs and kills: the   *)
(* cache holds what the files held (CacheFresh), a store that is skipped   *)
(* would have changed nothing (SkipIsSound), an undisturbed run makes the  *)
(* site of the files as they are (SiteIsSource), and one that gets through *)
(* puts right what others left cut short, as far as it could write it      *)
(* (RunRepairs).                                                           *)
(***************************************************************************)
EXTENDS Maker, FiniteSetTheorems, TLAPS

\* No time is later than the latest edit.
Timely(entries) == \A f \in Files : entries[f] # NoEntry => entries[f].mtime <= time
AllTimely ==
  /\ \A f \in Files : src[f] <= time /\ listed[f] <= time
  /\ Timely(cacheFile.entries) /\ Timely(pre) /\ Timely(state)

\* pre is the cache file until it is stored, if that could be read; state differs
\* from it only in files that were parsed, which are counted.
PreIsFile ==
  pc \in {"init", "parse", "destroy", "save", "store"} /\ ~ignore /\ "load" \notin amiss
    => pre = cacheFile.entries
StateInPre == changed = 0 => \A f \in Files : state[f] # NoEntry => state[f] = pre[f]

\* What a run knows of the files while nobody edits them.
Running ==
  /\ pc # "off" => result = "none"
  /\ pc # "off" /\ ~edited => listed = src
Hand ==
  \A r \in inHand : /\ pc = "parse" /\ r.file \in todo
                    /\ listed[r.file] = src[r.file] => r.content = src[r.file]
Todo ==
  /\ \A f \in todo : listed[f] # 0
  /\ pc \in {"destroy", "save", "store", "write", "wipe", "render"} => todo = {}
Handled ==
  pc # "off" /\ ~failed =>
    \A f \in Files \ todo :
      IF listed[f] = 0 THEN parsed[f] = NoEntry
      ELSE parsed[f] # NoEntry /\ (~edited => parsed[f].content = src[f])

MInv ==
  /\ TypeOK /\ AllTimely /\ CacheFresh /\ PreIsFile /\ StateInPre
  /\ Running /\ Hand /\ Todo /\ Handled /\ SiteIsSource

----------------------------------------------------------------------------
LEMMA NoEntriesType == NoEntries \in Entries
BY DEF NoEntries, Entries

LEMMA NoEntriesEmpty == \A f \in Files : NoEntries[f] = NoEntry
BY DEF NoEntries

\* A site with no cache and no run yet (maker.hpp:205-209) satisfies MInv.
THEOREM InitMInv == Init => MInv
<1> SUFFICES ASSUME Init PROVE MInv
  OBVIOUS
<1>1. \A f \in Files : NoEntries[f] = NoEntry
  BY NoEntriesEmpty
<1>2. TypeOK
  <2>1. src \in [Files -> Nat] /\ listed \in [Files -> Nat]
    BY DEF Init
  <2>2. cacheFile \in [kind : {"none", "whole", "torn"}, entries : Entries]
    BY NoEntriesType DEF Init
  <2>3. history \in [kind : {"none", "whole", "torn"}, images : SUBSET Images]
    BY DEF Init
  <2> QED
    BY <2>1, <2>2, <2>3, NoEntriesType DEF Init, TypeOK
<1>3. AllTimely
  BY <1>1 DEF Init, AllTimely, Timely
<1>4. CacheFresh
  BY <1>1 DEF Init, CacheFresh, IsFresh
<1>5. PreIsFile /\ StateInPre /\ Running /\ Hand /\ Todo /\ Handled /\ SiteIsSource
  BY DEF Init, PreIsFile, StateInPre, Running, Hand, Todo, Handled, SiteIsSource
<1> QED
  BY <1>2, <1>3, <1>4, <1>5 DEF MInv

----------------------------------------------------------------------------
LEMMA PutEntry ==
  ASSUME NEW entries \in Entries, NEW f \in Files, NEW e \in Entry \cup {NoEntry}
  PROVE  /\ entries[f] \in Entry \cup {NoEntry}
         /\ [entries EXCEPT ![f] = e] \in Entries
BY DEF Entries

\* Every step of the authors, of a run and of who kills it preserves it.
THEOREM StepMInv == MInv /\ [Next]_vars => MInv'
<1> SUFFICES ASSUME MInv, [Next]_vars PROVE MInv'
  OBVIOUS
<1> USE DEF MInv, files, disk, memory, observed
<1>1. CASE UNCHANGED vars
  BY <1>1
  DEF vars, TypeOK, AllTimely, Timely, CacheFresh, IsFresh, PreIsFile, StateInPre,
      Running, Hand, Todo, Handled, SiteIsSource
<1>2. ASSUME NEW f \in Files, NEW broken \in BOOLEAN, Edit(f, broken) PROVE MInv'
  <2>1. TypeOK'
    BY <1>2 DEF Edit, TypeOK
  <2>2. AllTimely'
    BY <1>2 DEF Edit, TypeOK, AllTimely, Timely, Entry, Entries
  <2>3. CacheFresh'
    BY <1>2 DEF Edit, TypeOK, CacheFresh, IsFresh, AllTimely, Timely, Entry, Entries
  <2>4. (PreIsFile /\ StateInPre)'
    BY <1>2 DEF Edit, TypeOK, PreIsFile, StateInPre
  <2>5. (Running /\ SiteIsSource)'
    BY <1>2 DEF Edit, TypeOK, Running, SiteIsSource
  <2>6. (Hand /\ Todo)'
    BY <1>2 DEF Edit, TypeOK, Hand, Todo, AllTimely, Timely
  <2>7. Handled'
    BY <1>2 DEF Edit, TypeOK, Handled, Running, Todo, Hand, CacheFresh, IsFresh
  <2> QED
    BY <2>1, <2>2, <2>3, <2>4, <2>5, <2>6, <2>7
<1>3. ASSUME NEW f \in Files, Delete(f) PROVE MInv'
  <2>1. TypeOK'
    BY <1>3 DEF Delete, TypeOK
  <2>2. AllTimely'
    BY <1>3 DEF Delete, TypeOK, AllTimely, Timely, Entry, Entries
  <2>3. CacheFresh'
    BY <1>3 DEF Delete, TypeOK, CacheFresh, IsFresh, AllTimely, Timely, Entry, Entries
  <2>4. (PreIsFile /\ StateInPre)'
    BY <1>3 DEF Delete, TypeOK, PreIsFile, StateInPre
  <2>5. (Running /\ SiteIsSource)'
    BY <1>3 DEF Delete, TypeOK, Running, SiteIsSource
  <2>6. (Hand /\ Todo)'
    BY <1>3 DEF Delete, TypeOK, Hand, Todo, AllTimely, Timely
  <2>7. Handled'
    BY <1>3 DEF Delete, TypeOK, Handled, Running, Todo, Hand, CacheFresh, IsFresh
  <2> QED
    BY <2>1, <2>2, <2>3, <2>4, <2>5, <2>6, <2>7
<1>4. ASSUME NEW ign \in BOOLEAN, Start(ign) PROVE MInv'
  <2>1. TypeOK'
    <3>1. pre' \in Entries /\ pc' \in {"off", "init"}
      BY <1>4, NoEntriesType DEF Start, TypeOK
    <3>2. todo' \in SUBSET Files /\ runs' \in Nat
      BY <1>4 DEF Start, TypeOK
    <3>3. amiss' \in SUBSET Mishaps
      BY <1>4 DEF Start, Mishaps
    <3> QED
      BY <1>4, <3>1, <3>2, <3>3, NoEntriesType DEF Start, TypeOK
  <2>2. AllTimely'
    BY <1>4, NoEntriesEmpty DEF Start, TypeOK, AllTimely, Timely
  <2>3. CacheFresh'
    BY <1>4, NoEntriesEmpty DEF Start, TypeOK, CacheFresh, IsFresh
  <2>4. (PreIsFile /\ StateInPre)'
    BY <1>4, NoEntriesEmpty DEF Start, TypeOK, PreIsFile, StateInPre
  <2>5. (Running /\ SiteIsSource)'
    BY <1>4 DEF Start, TypeOK, Running, SiteIsSource
  <2>6. (Hand /\ Todo)'
    BY <1>4 DEF Start, TypeOK, Hand, Todo, AllTimely, Timely
  <2>7. Handled'
    BY <1>4, NoEntriesEmpty
    DEF Start, TypeOK, Handled, Running, Todo, Hand, CacheFresh, IsFresh
  <2> QED
    BY <2>1, <2>2, <2>3, <2>4, <2>5, <2>6, <2>7
<1>5. CASE StartDies
  BY <1>5
  DEF StartDies, TypeOK, AllTimely, Timely, CacheFresh, IsFresh, PreIsFile,
      StateInPre, Running, Hand, Todo, Handled, SiteIsSource
<1>6. CASE InitPlugins \/ SmmsLeftOut
  <2>1. TypeOK'
    BY <1>6 DEF InitPlugins, SmmsLeftOut, Mishaps, TypeOK
  <2>2. (AllTimely /\ CacheFresh)'
    BY <1>6 DEF InitPlugins, SmmsLeftOut, TypeOK, AllTimely, Timely, CacheFresh, IsFresh
  <2>3. (PreIsFile /\ StateInPre /\ Running /\ SiteIsSource)'
    BY <1>6 DEF InitPlugins, SmmsLeftOut, TypeOK, PreIsFile, StateInPre, Running, SiteIsSource
  <2>4. (Hand /\ Todo)'
    BY <1>6 DEF InitPlugins, SmmsLeftOut, TypeOK, Hand, Todo
  <2>5. Handled'
    BY <1>6 DEF InitPlugins, SmmsLeftOut, TypeOK, Handled, Running, Todo, Hand, CacheFresh, IsFresh
  <2> QED
    BY <2>1, <2>2, <2>3, <2>4, <2>5
<1>7. CASE Kill
  <2>1. TypeOK'
    BY <1>7, NoEntriesType DEF Kill, Exit, TypeOK
  <2>2. AllTimely'
    BY <1>7, NoEntriesEmpty DEF Kill, Exit, TypeOK, AllTimely, Timely
  <2>3. CacheFresh'
    BY <1>7, NoEntriesEmpty DEF Kill, Exit, TypeOK, CacheFresh, IsFresh
  <2>4. (PreIsFile /\ StateInPre)'
    BY <1>7, NoEntriesEmpty DEF Kill, Exit, TypeOK, PreIsFile, StateInPre
  <2>5. (Running /\ SiteIsSource)'
    BY <1>7 DEF Kill, Exit, TypeOK, Running, SiteIsSource
  <2>6. (Hand /\ Todo)'
    BY <1>7 DEF Kill, Exit, TypeOK, Hand, Todo, AllTimely, Timely
  <2>7. Handled'
    BY <1>7 DEF Kill, Exit, TypeOK, Handled, Running, Todo, Hand, CacheFresh, IsFresh
  <2> QED
    BY <2>1, <2>2, <2>3, <2>4, <2>5, <2>6, <2>7
<1>8. ASSUME NEW f \in Files, UseCached(f) PROVE MInv'
  <2>1. TypeOK'
    BY <1>8, PutEntry DEF UseCached, Handles, Matches, TypeOK
  <2>2. AllTimely'
    BY <1>8 DEF UseCached, Handles, Matches, TypeOK, AllTimely, Timely
  <2>3. CacheFresh'
    BY <1>8 DEF UseCached, Handles, Matches, TypeOK, CacheFresh, IsFresh
  <2>4. (PreIsFile /\ StateInPre)'
    BY <1>8 DEF UseCached, Handles, Matches, TypeOK, PreIsFile, StateInPre
  <2>5. (Running /\ SiteIsSource)'
    BY <1>8 DEF UseCached, Handles, Matches, TypeOK, Running, SiteIsSource
  <2>6. (Hand /\ Todo)'
    BY <1>8 DEF UseCached, Handles, Matches, TypeOK, Hand, Todo, AllTimely, Timely
  <2>7. Handled'
    BY <1>8
    DEF UseCached, Handles, Matches, TypeOK, Handled, Running, Todo, Hand,
        CacheFresh, IsFresh, Entries
  <2> QED
    BY <2>1, <2>2, <2>3, <2>4, <2>5, <2>6, <2>7
<1>9. ASSUME NEW f \in Files, Parse(f) PROVE MInv'
  <2>1. TypeOK'
    BY <1>9 DEF Parse, Handles, CanParse, TypeOK
  <2>2. AllTimely'
    BY <1>9 DEF Parse, Handles, CanParse, TypeOK, AllTimely, Timely
  <2>3. CacheFresh'
    BY <1>9 DEF Parse, Handles, CanParse, TypeOK, CacheFresh, IsFresh
  <2>4. (PreIsFile /\ StateInPre)'
    BY <1>9 DEF Parse, Handles, CanParse, TypeOK, PreIsFile, StateInPre
  <2>5. (Running /\ SiteIsSource)'
    BY <1>9 DEF Parse, Handles, CanParse, TypeOK, Running, SiteIsSource
  <2>6. (Hand /\ Todo)'
    BY <1>9 DEF Parse, Handles, CanParse, TypeOK, Hand, Todo, AllTimely, Timely
  <2>7. Handled'
    BY <1>9
    DEF Parse, Handles, CanParse, TypeOK, Handled, Running, Todo, Hand, CacheFresh,
        IsFresh
  <2> QED
    BY <2>1, <2>2, <2>3, <2>4, <2>5, <2>6, <2>7
<1>10. ASSUME NEW f \in Files, ParseFails(f) PROVE MInv'
  BY <1>10
  DEF ParseFails, Handles, TypeOK, AllTimely, Timely, CacheFresh, IsFresh,
      PreIsFile, StateInPre, Running, Hand, Todo, Handled, SiteIsSource
<1>11. ASSUME NEW r \in inHand, NEW taken \in SUBSET Images, RunAndCache(r, taken) PROVE MInv'
  <2> DEFINE f == r.file
             entry == CachedPost(r, taken)
  <2>1. f \in Files /\ f \in todo /\ entry \in Entry
    BY <1>11 DEF RunAndCache, TypeOK, Entry, CachedPost, Hand
  <2>2. entry.mtime = listed[f] /\ entry.content = r.content
    BY DEF CachedPost
  <2>3. entry # NoEntry
    BY <2>1, EntryAssumption
  <2> HIDE DEF f, entry
  <2>4. state' = [state EXCEPT ![f] = entry] /\ parsed' = [parsed EXCEPT ![f] = entry]
    BY <1>11 DEF RunAndCache, f, entry
  <2>5. todo' = todo \ {f}
    BY <1>11 DEF RunAndCache, f
  <2>6. TypeOK'
    <3>1. state' \in Entries /\ parsed' \in Entries
      BY <2>1, <2>4, PutEntry DEF TypeOK
    <3> QED
      BY <1>11, <2>5, <3>1 DEF RunAndCache, TypeOK
  <2>7. AllTimely'
    BY <1>11, <2>1, <2>2, <2>4 DEF RunAndCache, TypeOK, Entries, AllTimely, Timely
  <2>8. CacheFresh'
    BY <1>11, <2>1, <2>2, <2>4
    DEF RunAndCache, TypeOK, Entries, CacheFresh, IsFresh, Hand, f
  <2>9. (PreIsFile /\ StateInPre)'
    BY <1>11 DEF RunAndCache, TypeOK, PreIsFile, StateInPre
  <2>10. (Running /\ SiteIsSource)'
    BY <1>11 DEF RunAndCache, TypeOK, Running, SiteIsSource
  <2>11. (Hand /\ Todo)'
    BY <1>11, <2>5 DEF RunAndCache, TypeOK, Hand, Todo
  <2>12. Handled'
    <3>1. ~edited => r.content = src[f]
      BY <1>11 DEF RunAndCache, Running, Hand, f
    <3> QED
      BY <1>11, <2>1, <2>2, <2>3, <2>4, <2>5, <3>1
      DEF RunAndCache, TypeOK, Entries, Handled, Running, Todo
  <2> QED
    BY <2>6, <2>7, <2>8, <2>9, <2>10, <2>11, <2>12
<1>12. CASE Parsed
  BY <1>12
  DEF Parsed, TypeOK, AllTimely, Timely, CacheFresh, IsFresh, PreIsFile, StateInPre,
      Running, Hand, Todo, Handled, SiteIsSource
<1>13. CASE Destroy
  <2>1. TypeOK'
    <3>1. amiss' \in SUBSET Mishaps
      BY <1>13 DEF Destroy, Mishaps, TypeOK
    <3>2. history' \in [kind : {"none", "whole", "torn"}, images : SUBSET Images]
      BY <1>13 DEF Destroy, TypeOK
    <3> QED
      BY <1>13, <3>1, <3>2 DEF Destroy, TypeOK
  <2>2. (AllTimely /\ CacheFresh)'
    BY <1>13 DEF Destroy, TypeOK, AllTimely, Timely, CacheFresh, IsFresh
  <2>3. (PreIsFile /\ StateInPre /\ Running /\ SiteIsSource)'
    BY <1>13 DEF Destroy, TypeOK, PreIsFile, StateInPre, Running, SiteIsSource
  <2>4. (Hand /\ Todo)'
    BY <1>13 DEF Destroy, TypeOK, Hand, Todo
  <2>5. Handled'
    BY <1>13 DEF Destroy, TypeOK, Handled, Running, Todo, Hand, CacheFresh, IsFresh
  <2> QED
    BY <2>1, <2>2, <2>3, <2>4, <2>5
<1>14. CASE Save
  <2>1. TypeOK'
    <3>1. amiss' \in SUBSET Mishaps
      BY <1>14 DEF Save, Mishaps, TypeOK
    <3>2. history' \in [kind : {"none", "whole", "torn"}, images : SUBSET Images]
      BY <1>14 DEF Save, TypeOK
    <3> QED
      BY <1>14, <3>1, <3>2 DEF Save, TypeOK
  <2>2. (AllTimely /\ CacheFresh)'
    BY <1>14 DEF Save, TypeOK, AllTimely, Timely, CacheFresh, IsFresh
  <2>3. (PreIsFile /\ StateInPre /\ Running /\ SiteIsSource)'
    BY <1>14 DEF Save, TypeOK, PreIsFile, StateInPre, Running, SiteIsSource
  <2>4. (Hand /\ Todo)'
    BY <1>14 DEF Save, TypeOK, Hand, Todo
  <2>5. Handled'
    BY <1>14 DEF Save, TypeOK, Handled, Running, Todo, Hand, CacheFresh, IsFresh
  <2> QED
    BY <2>1, <2>2, <2>3, <2>4, <2>5
<1>15. CASE SkipStore
  BY <1>15
  DEF SkipStore, TypeOK, AllTimely, Timely, CacheFresh, IsFresh, PreIsFile,
      StateInPre, Running, Hand, Todo, Handled, SiteIsSource
<1>16. CASE Store
  <2>1. TypeOK'
    BY <1>16 DEF Store, TypeOK, Entries
  <2>2. AllTimely'
    BY <1>16 DEF Store, TypeOK, AllTimely, Timely
  <2>3. CacheFresh'
    BY <1>16 DEF Store, TypeOK, CacheFresh, IsFresh
  <2>4. (PreIsFile /\ StateInPre)'
    BY <1>16 DEF Store, TypeOK, PreIsFile, StateInPre
  <2>5. (Running /\ SiteIsSource)'
    BY <1>16 DEF Store, TypeOK, Running, SiteIsSource
  <2>6. (Hand /\ Todo)'
    BY <1>16 DEF Store, TypeOK, Hand, Todo, AllTimely, Timely
  <2>7. Handled'
    BY <1>16 DEF Store, TypeOK, Handled, Running, Todo, Hand, CacheFresh, IsFresh
  <2> QED
    BY <2>1, <2>2, <2>3, <2>4, <2>5, <2>6, <2>7
<1>17. CASE Write \/ StoreFails
  <2>1. TypeOK'
    <3>1. amiss' \in SUBSET Mishaps
      BY <1>17 DEF Write, StoreFails, Mishaps, TypeOK
    <3>2. cacheFile' \in [kind : {"none", "whole", "torn"}, entries : Entries]
      BY <1>17 DEF Write, StoreFails, TypeOK
    <3> QED
      BY <1>17, <3>1, <3>2 DEF Write, StoreFails, TypeOK
  <2>2. AllTimely'
    BY <1>17 DEF Write, StoreFails, TypeOK, AllTimely, Timely
  <2>3. CacheFresh'
    BY <1>17 DEF Write, StoreFails, TypeOK, CacheFresh, IsFresh
  <2>4. (PreIsFile /\ StateInPre /\ Running /\ SiteIsSource)'
    BY <1>17 DEF Write, StoreFails, TypeOK, PreIsFile, StateInPre, Running, SiteIsSource
  <2>5. (Hand /\ Todo)'
    BY <1>17 DEF Write, StoreFails, TypeOK, Hand, Todo
  <2>6. Handled'
    BY <1>17 DEF Write, StoreFails, TypeOK, Handled, Running, Todo, Hand, CacheFresh, IsFresh
  <2> QED
    BY <2>1, <2>2, <2>3, <2>4, <2>5, <2>6
<1>18. CASE Wipe
  <2>1. TypeOK'
    BY <1>18, NoEntriesType DEF Wipe, TypeOK
  <2>2. AllTimely'
    BY <1>18 DEF Wipe, TypeOK, AllTimely, Timely
  <2>3. CacheFresh'
    BY <1>18 DEF Wipe, TypeOK, CacheFresh, IsFresh
  <2>4. (PreIsFile /\ StateInPre)'
    BY <1>18 DEF Wipe, TypeOK, PreIsFile, StateInPre
  <2>5. (Running /\ SiteIsSource)'
    BY <1>18 DEF Wipe, TypeOK, Running, SiteIsSource
  <2>6. (Hand /\ Todo)'
    BY <1>18 DEF Wipe, TypeOK, Hand, Todo, AllTimely, Timely
  <2>7. Handled'
    BY <1>18 DEF Wipe, TypeOK, Handled, Running, Todo, Hand, CacheFresh, IsFresh
  <2> QED
    BY <2>1, <2>2, <2>3, <2>4, <2>5, <2>6, <2>7
<1>19. CASE Render
  <2>1. TypeOK'
    BY <1>19, NoEntriesType DEF Render, Exit, TypeOK
  <2>2. AllTimely'
    BY <1>19, NoEntriesEmpty DEF Render, Exit, TypeOK, AllTimely, Timely
  <2>3. CacheFresh'
    BY <1>19, NoEntriesEmpty DEF Render, Exit, TypeOK, CacheFresh, IsFresh
  <2>4. (PreIsFile /\ StateInPre)'
    BY <1>19, NoEntriesEmpty DEF Render, Exit, TypeOK, PreIsFile, StateInPre
  <2>5. (Running /\ SiteIsSource)'
    BY <1>19 DEF Render, Exit, TypeOK, Running, SiteIsSource, Handled, Todo
  <2>6. (Hand /\ Todo)'
    BY <1>19 DEF Render, Exit, TypeOK, Hand, Todo, AllTimely, Timely
  <2>7. Handled'
    BY <1>19 DEF Render, Exit, TypeOK, Handled, Running, Todo, Hand, CacheFresh, IsFresh
  <2> QED
    BY <2>1, <2>2, <2>3, <2>4, <2>5, <2>6, <2>7
<1> QED
  BY <1>1, <1>2, <1>3, <1>4, <1>5, <1>6, <1>7, <1>8, <1>9, <1>10, <1>11, <1>12, <1>13, <1>14, <1>15, <1>16, <1>17, <1>18, <1>19
  DEF Next

----------------------------------------------------------------------------
\* A state with as many entries as pre and no parsed file among them is pre:
\* the size that store() compares (maker.hpp:261) is enough.
THEOREM SameSizeSameCache == MInv => SkipIsSound
<1> SUFFICES ASSUME MInv, pc = "store", Unchanged, ~ignore, "load" \notin amiss
             PROVE  cacheFile.entries = state
  BY DEF SkipIsSound
<1> DEFINE Kept(entries) == {f \in Files : entries[f] # NoEntry}
<1>1. pre = cacheFile.entries /\ \A f \in Files : state[f] # NoEntry => state[f] = pre[f]
  BY DEF MInv, PreIsFile, StateInPre, Unchanged
<1>2. IsFiniteSet(Files)
  BY FilesAssumption, FS_Union DEF Files
<1>3. IsFiniteSet(Kept(pre))
  BY <1>2, FS_Subset
<1>4. Kept(state) \subseteq Kept(pre) /\ Cardinality(Kept(state)) = Cardinality(Kept(pre))
  BY <1>1 DEF Unchanged, Size
<1>5. Kept(state) = Kept(pre)
  BY <1>3, <1>4, FS_Subset
<1>6. \A f \in Files : state[f] = pre[f]
  BY <1>1, <1>5
<1>7. state \in Entries /\ pre \in Entries
  BY DEF MInv, TypeOK
<1> QED
  BY <1>1, <1>6, <1>7 DEF Entries

\* smms.hpp, maker.hpp: the types of the run's state and of what is on disk,
\* for any files, images and bounds.
THEOREM MakerTypeOK == Spec => []TypeOK
<1>1. MInv => TypeOK
  BY DEF MInv
<1> QED
  BY <1>1, InitMInv, StepMInv, PTL DEF Spec

\* maker.hpp:297-307: however edits, runs and kills follow each other, an entry
\* that still has its file's time has its content.
THEOREM MakerCacheFresh == Spec => []CacheFresh
<1>1. MInv => CacheFresh
  BY DEF MInv
<1> QED
  BY <1>1, InitMInv, StepMInv, PTL DEF Spec

\* maker.hpp:261-263: the cache file is left alone only when it holds what would
\* be written, by a run that could read it.
THEOREM MakerSkipIsSound == Spec => []SkipIsSound
BY SameSizeSameCache, InitMInv, StepMInv, PTL DEF Spec

\* maker.hpp:620-630: a run in which all goes well makes the site of the files as
\* they are, whatever the cache has been through.
THEOREM MakerSiteIsSource == Spec => []SiteIsSource
<1>1. MInv => SiteIsSource
  BY DEF MInv
<1> QED
  BY <1>1, InitMInv, StepMInv, PTL DEF Spec
----------------------------------------------------------------------------
(* RunRepairs, on top of MInv. *)

\* What a run has put right by the time it renders the site.  A run that finds
\* no file does not go on, so that one without failures has something to store.
HasFiles == pc # "off" => \E f \in Files : listed[f] # 0
Saved ==
  pc \in {"store", "write", "wipe", "render"} /\ ~failed /\ amiss \cap {"plugin", "history"} = {}
    => history.kind = "whole"
Stored ==
  pc \in {"wipe", "render"} /\ ~failed /\ "cache" \notin amiss =>
    /\ cacheFile.entries = state
    /\ ignore => cacheFile.kind = "whole"
Repaired ==
  /\ parsed = state
  /\ HasFiles /\ Saved /\ Stored
  /\ result = "made" /\ ~failed =>
       /\ amiss \cap {"plugin", "history"} = {} => history.kind = "whole"
       /\ "cache" \notin amiss => cacheFile.entries = dist
  /\ ignore \/ "load" \in amiss => pre = NoEntries

\* An undisturbed run that has not read the cache never skips the store: it has
\* parsed every file, and there is one.
LEMMA SkipOnlyFromCache == MInv /\ Repaired /\ SkipStore /\ ~failed => ~ignore /\ "load" \notin amiss
<1> SUFFICES ASSUME MInv, Repaired, SkipStore, ~failed, ignore \/ "load" \in amiss PROVE FALSE
  OBVIOUS
<1>1. PICK f \in Files : listed[f] # 0
  BY DEF Repaired, HasFiles, SkipStore
<1>2. state[f] # NoEntry
  BY <1>1 DEF MInv, Todo, Handled, SkipStore, Repaired
<1>3. state[f] = pre[f] /\ pre = NoEntries
  BY <1>2 DEF MInv, StateInPre, SkipStore, Unchanged, Repaired
<1> QED
  BY <1>2, <1>3, NoEntriesEmpty

THEOREM StepRepaired == MInv /\ Repaired /\ [Next]_vars => Repaired'
<1> SUFFICES ASSUME MInv, Repaired, [Next]_vars PROVE Repaired'
  OBVIOUS
<1> USE DEF Repaired, HasFiles, Saved, Stored, files, disk, memory, observed
<1>1. CASE UNCHANGED vars
  BY <1>1 DEF vars
<1>2. CASE \E f \in Files, broken \in BOOLEAN : Edit(f, broken)
  BY <1>2 DEF Edit
<1>3. CASE \E f \in Files : Delete(f)
  BY <1>3 DEF Delete
<1>4. CASE \E ign \in BOOLEAN : Start(ign)
  BY <1>4 DEF Start
<1>5. CASE StartDies \/ InitPlugins \/ SmmsLeftOut \/ Parsed
  BY <1>5 DEF StartDies, InitPlugins, SmmsLeftOut, Parsed, MInv, Running
<1>6. CASE Kill
  BY <1>6 DEF Kill, Exit
<1>7. CASE \E f \in Files : UseCached(f)
  BY <1>7 DEF UseCached, Handles
<1>8. CASE \E f \in Files : Parse(f) \/ ParseFails(f)
  BY <1>8 DEF Parse, ParseFails, Handles, MInv, Running
<1>9. CASE \E r \in inHand, taken \in SUBSET Images : RunAndCache(r, taken)
  BY <1>9 DEF RunAndCache
<1>10. CASE Destroy \/ Save
  BY <1>10 DEF Destroy, Save, MInv, Running
<1>11. CASE SkipStore
  <2>1. ~failed => cacheFile.entries = state /\ ~ignore
    BY <1>11, SkipOnlyFromCache, SameSizeSameCache DEF SkipIsSound, SkipStore
  <2> QED
    BY <1>11, <2>1 DEF SkipStore
<1>12. CASE Store \/ Write \/ StoreFails
  BY <1>12 DEF Store, Write, StoreFails, MInv, Running
<1>13. CASE Wipe
  BY <1>13 DEF Wipe, MInv, Running
<1>14. CASE Render
  BY <1>14 DEF Render, Exit
<1> QED
  BY <1>1, <1>2, <1>3, <1>4, <1>5, <1>6, <1>7, <1>8, <1>9, <1>10, <1>11, <1>12, <1>13, <1>14
  DEF Next

\* maker.hpp:251, smms.hpp:361: a run that gets through and parses every file
\* leaves a whole history and a cache that is what the site shows, whatever
\* earlier runs left cut short, each unless that run could not write it.
THEOREM MakerRunRepairs == Spec => []RunRepairs
<1>1. Init => Repaired
  BY NoEntriesEmpty DEF Init, Repaired, HasFiles, Saved, Stored
<1>2. Repaired => RunRepairs
  BY DEF Repaired, Stored, RunRepairs
<1> QED
  BY <1>1, <1>2, InitMInv, StepMInv, StepRepaired, PTL DEF Spec
=============================================================================
