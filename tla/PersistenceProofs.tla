-------------------------- MODULE PersistenceProofs --------------------------
(***************************************************************************)
(* The state file survives, for any number of sessions.  The strengthening *)
(* says what a save holds at each of its steps: from the sync on the       *)
(* temporary file is whole and durable, and what is being saved is neither *)
(* older than the last success nor newer than this session.                *)
(***************************************************************************)
EXTENDS Persistence, TLAPS

Contents == {Torn, NoFile, Default} \cup Snapshots
Positions == {"rest", "write", "fill", "sync", "rename", "copy", "cleanup"}

(* The types of the files, the channel and the writer, but for the flags.  *)
DiskTypeOK ==
  /\ state_file \in Contents /\ tmp_file \in Contents
  /\ stored \in SUBSET Contents
  /\ session \in Snapshots
  /\ inbox \subseteq {session}
  /\ saving \in [pc : Positions, state : Int]
  /\ acked \in Int

(* SavedStateSurvives with what a save in progress holds.                  *)
DiskInv ==
  /\ DiskTypeOK
  /\ SavedStateSurvives
  /\ acked <= session
  /\ saving.pc # "rest" => saving.state \in Contents \ {Torn, NoFile}
                             /\ acked <= saving.state /\ saving.state <= session
  /\ saving.pc \in {"sync", "rename", "copy", "cleanup"} => tmp_file = saving.state
  /\ saving.pc \in {"rename", "copy", "cleanup"} => synced
  /\ saving.pc \in {"copy", "cleanup"} => crossing
  /\ saving.pc = "cleanup" => state_file = saving.state
  /\ state_file <= session
  /\ \A c \in stored : c <= session

(* A fresh installation has no state file.                                 *)
LEMMA DiskInitially == DiskInit => DiskInv
BY SessionsAssumption
   DEF DiskInit, DiskInv, DiskTypeOK, SavedStateSurvives, Contents, Positions, Snapshots,
       Idle, Torn, NoFile, Default

(* Every step of the writer, and the end of a session anywhere in a save,  *)
(* keeps the file whole and no older than the last success.                *)
LEMMA DiskPreserved == DiskInv /\ [DiskNext]_diskVars => DiskInv'
<1> SUFFICES ASSUME DiskInv, [DiskNext]_diskVars PROVE DiskInv'
  OBVIOUS
<1> USE SessionsAssumption DEF DiskInv, DiskTypeOK, SavedStateSurvives, Contents,
        Positions, Snapshots, Idle, Torn, NoFile, Default
<1>1. CASE SendSnapshot
  BY <1>1 DEF SendSnapshot
<1>2. CASE Receive
  BY <1>2 DEF Receive, Begin
<1>3. CASE Flush
  BY <1>3 DEF Flush, Load, Begin
<1>4. CASE Save
  <2>0. UNCHANGED <<crossing, session, inbox, sent>>
    BY <1>4 DEF Save
  <2>1. CASE CutTmp
    BY <2>0, <2>1 DEF CutTmp, Goto
  <2>2. CASE FillTmp
    BY <2>0, <2>2 DEF FillTmp, Goto
  <2>3. CASE SyncAll
    BY <2>0, <2>3 DEF SyncAll, Goto
  <2>4. CASE Rename
    <3>1. synced /\ tmp_file = saving.state /\ saving.state \in Contents \ {Torn, NoFile}
      BY <2>4 DEF Rename
    <3>2. stored' = stored \cup {saving.state}
      BY <2>4, <3>1 DEF Rename
    <3>3. /\ state_file' = saving.state /\ tmp_file' = NoFile
          /\ acked' = saving.state /\ saving' = [pc |-> "rest", state |-> 0]
      BY <2>4, <3>1 DEF Rename
    <3>4. saving.state <= session /\ saving.state \in Int
      BY <2>4 DEF Rename
    <3>5. Torn \notin stored'
      BY <2>4, <3>1, <3>2 DEF Rename
    <3>6. DiskTypeOK'
      <4>1. stored' \in SUBSET Contents
        BY <3>1, <3>2
      <4>2. saving' \in [pc : Positions, state : Int]
        BY <3>3
      <4>3. state_file' \in Contents /\ tmp_file' \in Contents /\ acked' \in Int
        BY <3>1, <3>3, <3>4
      <4>4. session' \in Snapshots /\ inbox' \subseteq {session'}
        BY <2>0
      <4> QED BY <4>1, <4>2, <4>3, <4>4
    <3>7. SavedStateSurvives'
      BY <3>1, <3>3, <3>4, <3>5
    <3> QED BY <2>0, <3>2, <3>3, <3>4, <3>6, <3>7
  <2>5. CASE CutFile
    BY <2>0, <2>5 DEF CutFile, Goto
  <2>6. CASE FillFile
    BY <2>0, <2>6 DEF FillFile, Goto
  <2>7. CASE RemoveTmp
    BY <2>0, <2>7 DEF RemoveTmp
  <2>8. CASE SaveFails
    BY <2>0, <2>8 DEF SaveFails
  <2> QED BY <1>4, <2>1, <2>2, <2>3, <2>4, <2>5, <2>6, <2>7, <2>8 DEF Save
<1>5. CASE ProcessEnds
  BY <1>5 DEF ProcessEnds, NextSession
<1>6. CASE Outage
  <2>1. state_file' \in stored /\ stored' = {state_file'} /\ session' = session + 1
    BY <1>6 DEF Outage, NextSession
  <2> QED BY <1>6, <2>1 DEF Outage, NextSession
<1>7. CASE UNCHANGED diskVars
  BY <1>7 DEF diskVars
<1> QED BY <1>1, <1>2, <1>3, <1>4, <1>5, <1>6, <1>7 DEF DiskNext

(* In every session and after every stop the state file is whole, unless   *)
(* saves are copied across devices, and never older than the last success. *)
THEOREM StateFileSurvives == DiskSpec => []SavedStateSurvives
<1>1. DiskInv => SavedStateSurvives
  BY DEF DiskInv
<1> QED BY <1>1, DiskInitially, DiskPreserved, PTL DEF DiskSpec
=============================================================================
