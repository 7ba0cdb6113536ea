----------------------------- MODULE Persistence -----------------------------
(***************************************************************************)
(* The disk writer of persistence.rs over sessions of the bot that end by  *)
(* a shutdown, a kill or an outage of the machine.  A snapshot is the      *)
(* number of the session that sent it: the start-up test of main.rs sends  *)
(* one per session.  Contents are ordered: no file, the default state, the *)
(* snapshots.                                                              *)
(***************************************************************************)
EXTENDS Integers

CONSTANT MaxSessions  \* bound: sessions of the bot

ASSUME SessionsAssumption == MaxSessions \in Nat \ {0}

Torn == -2     \* a file that was cut or only partly written
NoFile == -1
Default == 0
Snapshots == 1..MaxSessions

VARIABLES
  crossing,    \* a rename to state_file fails with EXDEV
  state_file,  \* content of state_file_path as the system shows it
  tmp_file,    \* content of tmp_path
  synced,      \* sync_all succeeded since tmp_file was written
  stored,      \* the contents state_file may have after an outage
  session,     \* number of this session
  inbox,       \* the channel: a set of at most one snapshot
  sent,        \* the snapshot of this session was sent
  saving,      \* the writer: position in save_state and state to save
  acked        \* history: what the last successful save left in the file

diskVars == <<crossing, state_file, tmp_file, synced, stored, session, inbox,
              sent, saving, acked>>
Idle == [pc |-> "rest", state |-> Default]
DiskInit ==
  /\ crossing \in BOOLEAN
  /\ state_file = NoFile /\ tmp_file = NoFile /\ synced = FALSE
  /\ stored = {NoFile} /\ acked = NoFile
  /\ session = 1 /\ inbox = {} /\ sent = FALSE /\ saving = Idle

----------------------------------------------------------------------------
(* run_integration_test sends its snapshot; the channel has room for it.   *)
SendSnapshot ==
  /\ ~sent
  /\ inbox' = {session} /\ sent' = TRUE
  /\ UNCHANGED <<crossing, state_file, tmp_file, synced, stored, session, saving, acked>>

(* The two branches of the loop.  A flush saves what load_state reads: the *)
(* default if there is no file, nothing if it cannot be read or parsed.    *)
Begin(v) == saving' = [pc |-> "write", state |-> v]
Receive ==
  /\ saving.pc = "rest"
  /\ \E v \in inbox : Begin(v)
  /\ inbox' = {}
  /\ UNCHANGED <<crossing, state_file, tmp_file, synced, stored, session, sent, acked>>

Load == IF state_file = Torn THEN {}
        ELSE IF state_file = NoFile THEN {Default} ELSE {state_file}
Flush ==
  /\ saving.pc = "rest"
  /\ \E v \in Load : Begin(v)
  /\ UNCHANGED <<crossing, state_file, tmp_file, synced, stored, session, inbox, sent, acked>>

----------------------------------------------------------------------------
(* save_state.  fs::write cuts the temporary file and then fills it.  Any  *)
(* operation may fail, which ends the save and leaves the files as they    *)
(* are.                                                                    *)
Goto(pc) == saving' = [saving EXCEPT !.pc = pc]
CutTmp ==
  /\ saving.pc = "write"
  /\ tmp_file' = Torn /\ synced' = FALSE
  /\ Goto("fill")
  /\ UNCHANGED <<state_file, stored, acked>>
FillTmp ==
  /\ saving.pc = "fill"
  /\ tmp_file' = saving.state
  /\ Goto("sync")
  /\ UNCHANGED <<state_file, synced, stored, acked>>

Unsynced ==
  /\ saving.pc = "sync"
  /\ Goto("rename")
  /\ UNCHANGED <<state_file, tmp_file, synced, stored, acked>>
SyncAll ==
  /\ saving.pc = "sync"
  /\ synced' = TRUE
  /\ Goto("rename")
  /\ UNCHANGED <<state_file, tmp_file, stored, acked>>

(* The directory is not synced: an outage may bring back the old file, and *)
(* a new one without its data unless those were synced.                    *)
Rename ==
  /\ saving.pc = "rename" /\ ~crossing
  /\ state_file' = tmp_file /\ tmp_file' = NoFile
  /\ stored' = stored \cup {tmp_file} \cup (IF synced THEN {} ELSE {Torn})
  /\ acked' = saving.state /\ saving' = Idle
  /\ UNCHANGED synced

(* The fallback for EXDEV cuts the file itself, fills it without syncing,  *)
(* and removes the temporary file.                                         *)
CutFile ==
  /\ saving.pc = "rename" /\ crossing
  /\ state_file' = Torn /\ stored' = stored \cup {Torn}
  /\ Goto("copy")
  /\ UNCHANGED <<tmp_file, synced, acked>>
FillFile ==
  /\ saving.pc = "copy"
  /\ state_file' = tmp_file /\ stored' = stored \cup {tmp_file}
  /\ Goto("cleanup")
  /\ UNCHANGED <<tmp_file, synced, acked>>
RemoveTmp ==
  /\ saving.pc = "cleanup"
  /\ tmp_file' = NoFile
  /\ acked' = saving.state /\ saving' = Idle
  /\ UNCHANGED <<state_file, synced, stored>>

SaveFails ==
  /\ saving.pc # "rest"
  /\ saving' = Idle
  /\ UNCHANGED <<state_file, tmp_file, synced, stored, acked>>

Save ==
  /\ \/ CutTmp \/ FillTmp \/ SyncAll \/ Rename
     \/ CutFile \/ FillFile \/ RemoveTmp \/ SaveFails
  /\ UNCHANGED <<crossing, session, inbox, sent>>

----------------------------------------------------------------------------
(* Shutdown aborts the writer without draining its channel; a kill stops   *)
(* it anywhere; an outage also loses what was not stored (external).       *)
NextSession ==
  /\ session < MaxSessions
  /\ session' = session + 1
  /\ inbox' = {} /\ sent' = FALSE /\ saving' = Idle
  /\ UNCHANGED crossing
ProcessEnds == NextSession /\ UNCHANGED <<state_file, tmp_file, synced, stored, acked>>
Outage ==
  /\ NextSession
  /\ state_file' \in stored /\ stored' = {state_file'}
  /\ acked' = IF state_file' = Torn THEN acked ELSE state_file'
  /\ tmp_file' \in {NoFile, Torn, tmp_file}
  /\ synced' = FALSE

DiskNext == SendSnapshot \/ Receive \/ Flush \/ Save \/ ProcessEnds \/ Outage
DiskSpec == DiskInit /\ [][DiskNext]_diskVars

----------------------------------------------------------------------------
(* Whenever the bot or the machine stops, in a save or between two, the    *)
(* state file is whole, and would be after an outage, unless saving had to *)
(* copy across devices; and what can be read from it is never older than   *)
(* the last save that succeeded.  A flush in particular never puts the     *)
(* default state over a snapshot, not even when the file is torn.          *)
SavedStateSurvives ==
  /\ Torn \in {state_file} \cup stored => crossing
  /\ state_file # Torn => state_file >= acked
=============================================================================
