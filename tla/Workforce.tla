----------------------------- MODULE Workforce ------------------------------
(***************************************************************************)
(* What the workforce services know: who worked when and how much, and     *)
(* the devices attendance is taken with.                                   *)
(***************************************************************************)
EXTENDS Integers, FiniteSets, SequencesExt, FiniteSetsExt

-----------------------------------------------------------------------------
(***************************************************************************)
(* Attendance to workload (office/services/work_session.py, workforce.py). *)
(* Attendance events are handed in as a list in any order of time,         *)
(* employees as a list in which one may occur twice.                       *)
(* Scores are hundredths; sums of hours are kept exact.                    *)
(***************************************************************************)

CONSTANTS Employees, Departments, Pressure,    \* deadline pressure, in hundredths
          Instants,                            \* 1..n, HoursPerInstant apart
          HoursPerInstant, MaxAttendance, MaxRoster, NotOpen

ASSUME WorkforceAssumption ==
  /\ IsFiniteSet(Instants) /\ Instants = 1..Cardinality(Instants) /\ NotOpen \notin Instants
  /\ HoursPerInstant \in Nat /\ IsFiniteSet(Departments)
  /\ \A e \in Employees : Pressure[e] \in 0..100

VARIABLES attendance,   \* the events handed in
          roster        \* the employees handed in, with their departments

workforceVars == <<attendance, roster>>

AttendanceEvents == [employee : Employees, type : {"check_in", "check_out"}, at : Instants]

\* WorkSessionEngine.build_sessions(): a second check-in is ignored, a check-out without
\* a session or at its very start ends none. The sort by time is stable, so the events are
\* walked instant by instant.
FirstCheckIn(walk, event) == IF walk.open = NotOpen THEN [walk EXCEPT !.open = event.at] ELSE walk
CheckOut(walk, event) ==
  IF walk.open = NotOpen \/ event.at <= walk.open THEN [walk EXCEPT !.open = NotOpen]
  ELSE [open |-> NotOpen,
        closed |-> Append(walk.closed, [from |-> walk.open, to |-> event.at])]

Happens(walk, event) ==
  IF event.type = "check_in" THEN FirstCheckIn(walk, event) ELSE CheckOut(walk, event)

\* All events at once, in the order they were handed in.
AsGiven(list, employee, walk, t) ==
  IF t # 1 THEN walk
  ELSE FoldLeft(LAMBDA w, event : IF event.employee = employee THEN Happens(w, event) ELSE w,
                walk, list)
\* The events of an employee at one instant happen as they were handed in.
AtInstant(list, employee, walk, t) ==
  FoldLeft(LAMBDA w, event : IF event.employee = employee /\ event.at = t
                             THEN Happens(w, event) ELSE w, walk, list)

Walk(list, employee) ==
  FoldLeft(LAMBDA walk, t : AtInstant(list, employee, walk, t),
           [open |-> NotOpen, closed |-> <<>>], [t \in Instants |-> t])

Hours(session) == (session.to - session.from) * HoursPerInstant
Overtime(session) == IF Hours(session) > 8 THEN Hours(session) - 8 ELSE 0
TotalHours(sessions) == FoldLeft(LAMBDA sum, s : sum + Hours(s), 0, sessions)
OvertimeHours(sessions) == FoldLeft(LAMBDA sum, s : sum + Overtime(s), 0, sessions)

\* _workload_score(), in hundredths; without meetings.
WorkloadScore(hours, overtime, pressure) ==
  LET points == Min({4375 * hours, 52500}) + Min({6250 * overtime, 25000}) + 200 * pressure
  IN Min({(points + 500) \div 1000, 100})

ScoreOf(list, employee) ==
  LET sessions == Walk(list, employee).closed
  IN WorkloadScore(TotalHours(sessions), OvertimeHours(sessions), Pressure[employee])

\* _risk_level() of a department.
LowThreshold(average) ==
  IF average >= 40 THEN "high" ELSE IF average >= 20 THEN "medium" ELSE "low"
RiskLevel(average) ==
  IF average >= 70 THEN "high" ELSE IF average >= 40 THEN "medium" ELSE "low"

----------------------------------------------------------------------------
\* analyze_organization(): of an employee listed twice the later entry counts, the
\* count by department has both.
Listed == {entry.employee : entry \in Range(roster)}
DepartmentOf(employee) ==
  roster[Max({k \in DOMAIN roster : roster[k].employee = employee})].department
EmployeesByDepartment(department) ==
  Cardinality({k \in DOMAIN roster : roster[k].department = department})
Members(department) == {e \in Listed : DepartmentOf(e) = department}

AverageScore(department) ==
  LET members == Members(department)
      sum == MapThenSumSet(LAMBDA e : ScoreOf(attendance, e), members)
  IN IF members = {} THEN 0 ELSE (2 * sum + Cardinality(members)) \div (2 * Cardinality(members))

RiskDepartments ==
  {d \in Departments : EmployeesByDepartment(d) > 0 /\ RiskLevel(AverageScore(d)) = "high"}
RiskEmployees == {e \in Listed : ScoreOf(attendance, e) >= 70}

----------------------------------------------------------------------------
WorkforceInit == attendance = <<>> /\ roster = <<>>

Attend(event) ==
  /\ Len(attendance) < MaxAttendance
  /\ attendance' = Append(attendance, event)
  /\ UNCHANGED roster

List(employee, department) ==
  /\ Len(roster) < MaxRoster
  /\ roster' = Append(roster, [employee |-> employee, department |-> department])
  /\ UNCHANGED attendance

WorkforceNext ==
  \/ \E event \in AttendanceEvents : Attend(event)
  \/ \E employee \in Employees, department \in Departments : List(employee, department)

----------------------------------------------------------------------------
WorkforceTypeOK ==
  /\ Range(attendance) \subseteq AttendanceEvents
  /\ Range(roster) \subseteq [employee : Employees, department : Departments]

\* The sessions of one employee never overlap, whatever order the events were handed
\* in, and each begins at a check-in and ends at a check-out of that employee.
SessionsAreDisjoint ==
  \A e \in Employees :
    LET walk == Walk(attendance, e)
        Seen(type, t) == [employee |-> e, type |-> type, at |-> t] \in Range(attendance)
    IN /\ \A k \in DOMAIN walk.closed :
            /\ walk.closed[k].from < walk.closed[k].to
            /\ Seen("check_in", walk.closed[k].from) /\ Seen("check_out", walk.closed[k].to)
            /\ k > 1 => walk.closed[k - 1].to <= walk.closed[k].from
       /\ walk.open # NotOpen => /\ Seen("check_in", walk.open)
                                 /\ \A k \in DOMAIN walk.closed : walk.closed[k].to <= walk.open

\* A session that is closed stands: an event later than all of the employee's others
\* changes none of the sessions before it.
ClosedSessionsStand ==
  [\A e \in Employees :
     LET before == {t \in Instants : \E k \in DOMAIN attendance :
                      attendance[k].employee = e /\ attendance[k].at = t}
     IN attendance' # attendance /\ (\A t \in before : Last(attendance').at > t)
          => IsPrefix(Walk(attendance, e).closed, Walk(attendance', e).closed)]_workforceVars

\* Every employee counts in one department, so the sizes of the departments add up
\* even when one is listed twice, and a department at high risk has a member who is:
\* the average of the rounded scores, rounded again, never alerts without a reason.
AlertsHaveReasons ==
  /\ MapThenSumSet(LAMBDA d : Cardinality(Members(d)), Departments) = Cardinality(Listed)
  /\ \A d \in RiskDepartments : Members(d) \cap RiskEmployees # {}

-----------------------------------------------------------------------------
(***************************************************************************)
(* The attendance devices a machine may have (services/                    *)
(* attendance_discovery.py) and the activation of one (adapters/           *)
(* manager.py).  A device seen on a serial port and by Windows is one      *)
(* candidate; which keywords classify a device is left to the inputs.      *)
(***************************************************************************)

CONSTANTS Names, Ports, NoName, MaxDevices

VARIABLES serialPorts, windowsDevices,    \* what the environment reports, in order
          adapterState                    \* the adapter of a hardware device

deviceVars == <<serialPorts, windowsDevices, adapterState>>

\* An unnamed device is known by its hardware identifiers or description.
Candidates(transport) ==
  [transport : {transport}, name : Names \cup {NoName}, key : Ports]

\* _deduplicate(): named devices are one when the name is, whatever the manufacturer.
SameDevice(c, d) == c.name = d.name /\ (c.name # NoName \/ c.key = d.key)

PreferSerial(unique, k, candidate) ==
  IF unique[k].transport = "windows_device" /\ candidate.transport = "serial"
       /\ candidate.name # NoName
  THEN [unique EXCEPT ![k] = candidate] ELSE unique

TakeCandidate(unique, candidate) ==
  IF \E k \in DOMAIN unique : SameDevice(unique[k], candidate)
  THEN LET k == CHOOSE i \in DOMAIN unique : SameDevice(unique[i], candidate)
       IN PreferSerial(unique, k, candidate)
  ELSE Append(unique, candidate)

\* classify(): serial ports first.
Observed(serial, windows) == serial \o windows
Classify(serial, windows) == FoldLeft(TakeCandidate, <<>>, Observed(serial, windows))

DeviceInit == serialPorts = <<>> /\ windowsDevices = <<>> /\ adapterState = "registered"

PlugSerial(device) ==
  /\ Len(serialPorts) < MaxDevices
  /\ serialPorts' = Append(serialPorts, device)
  /\ UNCHANGED <<windowsDevices, adapterState>>

SeeWindowsDevice(device) ==
  /\ Len(windowsDevices) < MaxDevices
  /\ windowsDevices' = Append(windowsDevices, device)
  /\ UNCHANGED <<serialPorts, adapterState>>

\* HardwareAdapterManager.activate() of any device: one the adapter rejects changes nothing,
\* one that is connected and unhealthy is disconnected again. What a connect() that raises
\* leaves behind is the adapter's: nothing in the manager undoes it.
AdapterStates == {"registered", "connected", "disconnected"}
Outcomes == [rejected |-> {adapterState}, raised |-> {adapterState, "connected", "disconnected"},
             healthy |-> {"connected"}, unhealthy |-> {"disconnected"}]
ActivateAdapter ==
  /\ \E outcome \in DOMAIN Outcomes : adapterState' \in Outcomes[outcome]
  /\ UNCHANGED <<serialPorts, windowsDevices>>

DeactivateAdapter ==
  /\ adapterState' = "disconnected"
  /\ UNCHANGED <<serialPorts, windowsDevices>>

DeviceNext ==
  \/ \E device \in Candidates("serial") : PlugSerial(device)
  \/ \E device \in Candidates("windows_device") : SeeWindowsDevice(device)
  \/ ActivateAdapter
  \/ DeactivateAdapter

----------------------------------------------------------------------------
DeviceTypeOK ==
  /\ Range(serialPorts) \subseteq Candidates("serial")
  /\ Range(windowsDevices) \subseteq Candidates("windows_device")
  /\ adapterState \in AdapterStates

\* Every device seen is among the candidates exactly once, and one that has a serial
\* port is shown with it, in whatever order the two mechanisms report.
EveryDeviceOnce ==
  LET found == Classify(serialPorts, windowsDevices) IN
  /\ \A c \in Range(serialPorts) \cup Range(windowsDevices) :
       \E k \in DOMAIN found : /\ SameDevice(found[k], c)
                               /\ \A i \in DOMAIN found : SameDevice(found[i], c) => i = k
  /\ \A c \in Range(serialPorts) :
       \E k \in DOMAIN found : SameDevice(found[k], c) /\ found[k].transport = "serial"

\* A candidate with a serial port keeps that port when more devices appear.
PortsAreKept ==
  [LET before == Classify(serialPorts, windowsDevices)
       after == Classify(serialPorts', windowsDevices')
   IN \A k \in DOMAIN before : before[k].transport = "serial"
                               => before[k] \in Range(after)]_deviceVars
=============================================================================
