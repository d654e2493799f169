--------------------------- MODULE ProgramRegistry ---------------------------
(***************************************************************************)
(* The registry contract of programs on the main domain                    *)
(* (contracts/program-registry).  A program id is reserved first, by the   *)
(* wallet that will build the program; the configuration is saved under it *)
(* once, when the program is up, and may be replaced afterwards by the     *)
(* owner the program was saved for.                                        *)
(***************************************************************************)
EXTENDS Integers, StorageMap

CONSTANT MaxId           \* bound on the ids reserved

VARIABLES last_id, programs_owners, programs, programs_backup

registryVars == <<last_id, programs_owners, programs, programs_backup>>

RegistryInit ==
  /\ last_id = 0
  /\ programs_owners = << >>
  /\ programs = << >>
  /\ programs_backup = << >>

\* Variant: every reservation is of the same id.
reserve_id_again(addr) ==
  /\ last_id < MaxId
  /\ last_id' = IF last_id = 0 THEN 1 ELSE last_id
  /\ programs_owners' = Saved(programs_owners, last_id', addr)
  /\ UNCHANGED <<programs, programs_backup>>

\* Anyone may reserve the next id, for any address.
reserve_id(addr) ==
  /\ last_id < MaxId
  /\ last_id' = last_id + 1
  /\ programs_owners' = Saved(programs_owners, last_id', addr)
  /\ UNCHANGED <<programs, programs_backup>>

mayBeSaved(sender, id) ==
  /\ id \in DOMAIN programs_owners
  /\ programs_owners[id] = sender
  /\ id \notin DOMAIN programs

\* The reserver saves the program, and hands the id over to the program's owner.
save_program(sender, id, owner, config) ==
  /\ mayBeSaved(sender, id)
  /\ programs' = Saved(programs, id, config)
  /\ programs_owners' = [programs_owners EXCEPT ![id] = owner]
  /\ UNCHANGED <<last_id, programs_backup>>

mayBeUpdated(sender, id) ==
  /\ id \in DOMAIN programs_owners
  /\ programs_owners[id] = sender
  /\ id \in DOMAIN programs

\* The configuration that is replaced is kept, one deep.
update_program(sender, id, config) ==
  /\ mayBeUpdated(sender, id)
  /\ programs_backup' = Saved(programs_backup, id, programs[id])
  /\ programs' = [programs EXCEPT ![id] = config]
  /\ UNCHANGED <<last_id, programs_owners>>
=============================================================================
