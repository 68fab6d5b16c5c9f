-------------------------- MODULE DeviceRegistry --------------------------
(***************************************************************************)
(* The device registry as the rest of the system may think of it: a table  *)
(* whose devices are created once, changed while they exist and deleted    *)
(* for good, each atomically, and a log that announces changes after they  *)
(* were made.  The log promises neither that every change is announced nor *)
(* once only nor in order, and a deletion may be announced under any name  *)
(* the device ever had.                                                    *)
(***************************************************************************)
EXTENDS Sequences, Naturals

CONSTANTS Request, DeviceId, Row, InitialDevices, NoRow, EventType

VARIABLES
  table,     \* each id's row, or NoRow
  change,    \* the change each request made, or NoChange
  announced  \* the announcements so far

vars == <<table, change, announced>>

NoChange == [op |-> "none", id |-> NoRow, row |-> NoRow]
Changed(r) == change[r].op # "none"

(* An id belongs to one device forever.                                    *)
NeverUsed(i) ==
  /\ InitialDevices[i] = NoRow
  /\ \A r \in Request : Changed(r) => change[r].id # i

(* The names a device has had so far.                                      *)
NameOf(i, name) ==
  \/ InitialDevices[i] # NoRow /\ name = InitialDevices[i].name
  \/ \E r \in Request : /\ Changed(r) /\ change[r].id = i /\ change[r].row # NoRow
                        /\ name = change[r].row.name

Init ==
  /\ table = InitialDevices
  /\ change = [r \in Request |-> NoChange]
  /\ announced = <<>>

Make(r, op, i, row) ==
  /\ ~Changed(r)
  /\ change' = [change EXCEPT ![r] = [op |-> op, id |-> i, row |-> row]]
  /\ table' = [table EXCEPT ![i] = row]
  /\ UNCHANGED announced

Create(r, i, row) == NeverUsed(i) /\ Make(r, "create", i, row)
Update(r, i, row) == table[i] # NoRow /\ Make(r, "update", i, row)
Delete(r, i) == table[i] # NoRow /\ Make(r, "delete", i, NoRow)

Announce(r, name) ==
  /\ Changed(r)
  /\ IF change[r].op = "delete" THEN NameOf(change[r].id, name)
                                ELSE name = change[r].row.name
  /\ announced' = Append(announced, [type |-> EventType[change[r].op],
                                     deviceId |-> change[r].id, name |-> name])
  /\ UNCHANGED <<table, change>>

Next == \E r \in Request :
  \/ \E i \in DeviceId, row \in Row : Create(r, i, row) \/ Update(r, i, row)
  \/ \E i \in DeviceId : Delete(r, i)
  \/ \E row \in Row : Announce(r, row.name)

Spec == Init /\ [][Next]_vars
=============================================================================
