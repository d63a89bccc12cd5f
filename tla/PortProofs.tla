----------------------------- MODULE PortProofs -----------------------------
(* Theorems about Port, for any ports, conditions, devices and number of    *)
(* descriptors. The types hold for every application; the rest for one that *)
(* keeps the preconditions, that is with Careless = {}.                     *)
EXTENDS Port, TLAPS

(* Settings.                                                                *)

LEMMA BlankType == Blank \in Settings
<1>1. \E f \in Frames : TRUE
  BY PortAssumption DEF ConnectionConditions
<1> QED
  BY <1>1 DEF Blank, Settings

LEMMA setupType ==
  ASSUME NEW t \in Settings, NEW c \in ConnectionConditions
  PROVE  setup(t, c) \in Settings
<1> DEFINE odd == OddBit(t, c.parity)
           parity == c.parity # "NONE"
           rts == c.flow = "RTS_CTS"
           xon == c.flow = "XON_XOFF"
<1>1. /\ c.frame \in Frames /\ odd \in BOOLEAN /\ parity \in BOOLEAN
      /\ rts \in BOOLEAN /\ xon \in BOOLEAN
  BY DEF ConnectionConditions, OddBit, Settings
<1>2. setup(t, c) = [t EXCEPT !.frame = c.frame, !.raw = TRUE, !.parenb = parity,
                              !.parodd = odd, !.crtscts = rts, !.ixon = xon, !.startstop = xon]
  BY DEF setup
<1> HIDE DEF odd, parity, rts, xon
<1> QED
  BY <1>1, <1>2 DEF Settings

\* What a device is set up for is what it then works as.
LEMMA setupWorks ==
  ASSUME NEW t \in Settings, NEW c \in ConnectionConditions
  PROVE  setup(t, c).raw /\ Means(setup(t, c)) = c
<1> DEFINE u == setup(t, c)
<1>1. /\ u.raw /\ u.frame = c.frame
      /\ u.parenb = (c.parity # "NONE")
      /\ u.parodd = OddBit(t, c.parity)
      /\ u.crtscts = (c.flow = "RTS_CTS")
      /\ u.ixon = (c.flow = "XON_XOFF") /\ u.startstop = (c.flow = "XON_XOFF")
  BY DEF setup, Settings
<1> HIDE DEF u
<1>2. (IF ~u.parenb THEN "NONE" ELSE IF u.parodd THEN "ODD" ELSE "EVEN") = c.parity
  BY <1>1 DEF OddBit, ConnectionConditions, Parities
<1>3. (IF u.crtscts THEN "RTS_CTS"
       ELSE IF u.ixon THEN (IF u.startstop THEN "XON_XOFF" ELSE "broken") ELSE "NONE") = c.flow
  BY <1>1 DEF ConnectionConditions, FlowControls
<1>4. Means(u) = [frame |-> c.frame, parity |-> c.parity, flow |-> c.flow]
  BY <1>1, <1>2, <1>3 DEF Means
<1>5. c = [frame |-> c.frame, parity |-> c.parity, flow |-> c.flow]
  BY DEF ConnectionConditions
<1> QED
  BY <1>1, <1>4, <1>5 DEF u

LEMMA ReleasedFacts ==
  ASSUME NEW t \in Settings
  PROVE  Released(t) \in Settings /\ Released(Released(t)) = Released(t)
BY DEF Released, Settings

-----------------------------------------------------------------------------
(* Members.                                                                 *)

LEMMA FreshFacts ==
  ASSUME NEW c \in Conditions
  PROVE  /\ Fresh(c) \in Members
         /\ Fresh(c).step = "idle" /\ Fresh(c).m_fd = VoidFd
         /\ Fresh(c).asking = {} /\ Fresh(c).m_status = {} /\ Fresh(c).m_property = c
BY BlankType DEF Fresh, Members, Steps, Sequels, cleared

LEMMA AbsentFacts ==
  /\ Absent \in Members
  /\ Absent.step = "none" /\ Absent.m_fd = VoidFd
  /\ Absent.asking = {} /\ Absent.m_status = {}
<1> DEFINE c == CHOOSE c \in Conditions : TRUE
<1>1. c \in Conditions
  BY PortAssumption
<1> HIDE DEF c
<1>2. Absent = [Fresh(c) EXCEPT !.step = "none"]
  BY DEF Absent, c
<1> QED
  BY <1>1, <1>2, FreshFacts DEF Members, Steps

-----------------------------------------------------------------------------
(* What the steps do to the members that the invariants look at.            *)

Becomes(p, step, asking, fd, status, save) ==
    /\ port' \in [Ports -> Members]
    /\ \A q \in Ports \ {p} : port'[q] = port[q]
    /\ port'[p].step = step /\ port'[p].asking = asking /\ port'[p].m_fd = fd
    /\ port'[p].m_status = status /\ port'[p].m_save = save

LEMMA Update ==
  ASSUME TypeOK, NEW p \in Ports, NEW m \in Members, port' = [port EXCEPT ![p] = m]
  PROVE  Becomes(p, m.step, m.asking, m.m_fd, m.m_status, m.m_save)
BY DEF TypeOK, Becomes

LEMMA ConstructEffect ==
  ASSUME TypeOK, NEW p \in Ports, Construct(p)
  PROVE  Becomes(p, "idle", {}, VoidFd, {}, port'[p].m_save)
<1>1. PICK c \in Conditions : port' = [port EXCEPT ![p] = Fresh(c)]
  BY DEF Construct
<1> QED
  BY <1>1, FreshFacts DEF TypeOK, Becomes

LEMMA ChangeEffect ==
  ASSUME TypeOK, NEW p \in Ports, Change(p)
  PROVE  Becomes(p, "idle", port[p].asking, port[p].m_fd, port[p].m_status, port[p].m_save)
<1>1. PICK c \in Conditions : port' = [port EXCEPT ![p].m_property = c]
  BY DEF Change
<1> DEFINE m == [port[p] EXCEPT !.m_property = c]
<1>2. port[p] \in Members /\ port' = [port EXCEPT ![p] = m]
  BY <1>1 DEF TypeOK
<1>3. m \in Members
  BY <1>2 DEF Members
<1>4. Becomes(p, m.step, m.asking, m.m_fd, m.m_status, m.m_save)
  BY <1>2, <1>3, Update
<1> QED
  BY <1>2, <1>4 DEF Members, Change, Idle

LEMMA disconnectEffect ==
  ASSUME TypeOK, NEW p \in Ports, NEW sequel \in Sequels, disconnect(p, sequel)
  PROVE  Becomes(p, "restoring", port[p].asking, port[p].m_fd, {}, port[p].m_save)
<1> DEFINE m == [port[p] EXCEPT !.step = "restoring", !.then = sequel, !.m_status = {}]
<1>1. port[p] \in Members
  BY DEF TypeOK
<1>2. m \in Members
  BY <1>1 DEF Members, Steps
<1>3. port' = [port EXCEPT ![p] = m]
  BY <1>1 DEF disconnect, cleared
<1>4. Becomes(p, m.step, m.asking, m.m_fd, m.m_status, m.m_save)
  BY <1>2, <1>3, Update
<1> QED
  BY <1>1, <1>4 DEF Members

LEMMA restoreTermiosEffect ==
  ASSUME TypeOK, NEW p \in Ports, restoreTermios(p)
  PROVE  Becomes(p, "closing", port[p].asking, port[p].m_fd, port[p].m_status,
                 Released(port[p].m_save))
<1> DEFINE save == Released(port[p].m_save)
           m == [port[p] EXCEPT !.step = "closing", !.m_save = save]
<1>1. port[p] \in Members /\ save \in Settings
  BY ReleasedFacts DEF TypeOK, Members
<1>2. port' = [port EXCEPT ![p] = m]
  BY DEF restoreTermios
<1> HIDE DEF save
<1>3. m \in Members
  BY <1>1 DEF Members, Steps
<1>4. Becomes(p, m.step, m.asking, m.m_fd, m.m_status, m.m_save)
  BY <1>2, <1>3, Update
<1> QED
  BY <1>1, <1>4 DEF Members, save

LEMMA CloseEffect ==
  ASSUME TypeOK, NEW p \in Ports, Close(p)
  PROVE  \/ Becomes(p, "none", {}, VoidFd, {}, Absent.m_save)
         \/ /\ port[p].then # "destroy"
            /\ \E step \in {"idle", "opening"} :
                Becomes(p, step, port[p].asking, VoidFd, port[p].m_status, port[p].m_save)
<1>1. port' = [port EXCEPT ![p] = Closed(port[p])]
  BY DEF Close
<1>2. CASE port[p].then = "destroy"
  BY <1>1, <1>2, AbsentFacts DEF Closed, TypeOK, Becomes
<1>3. CASE port[p].then # "destroy"
  <2>1. After(port[p].then) \in {"idle", "opening"}
    BY <1>3 DEF TypeOK, Members, Sequels, After
  <2> DEFINE m == [port[p] EXCEPT !.step = After(port[p].then), !.m_fd = VoidFd]
  <2>2. port[p] \in Members /\ port' = [port EXCEPT ![p] = m]
    BY <1>1, <1>3 DEF Closed, TypeOK
  <2>3. m \in Members
    BY <2>1, <2>2 DEF Members, Steps
  <2>4. Becomes(p, m.step, m.asking, m.m_fd, m.m_status, m.m_save)
    BY <2>2, <2>3, Update
  <2> QED
    BY <1>3, <2>1, <2>2, <2>4 DEF Members
<1> QED
  BY <1>2, <1>3

LEMMA VanishEffect ==
  ASSUME TypeOK, NEW p \in Ports, port' = [port EXCEPT ![p] = Absent]
  PROVE  Becomes(p, "none", {}, VoidFd, {}, Absent.m_save)
BY AbsentFacts DEF TypeOK, Becomes

LEMMA OpeningEffect ==
  ASSUME TypeOK, NEW p \in Ports, port' = [port EXCEPT ![p].step = "opening"]
  PROVE  Becomes(p, "opening", port[p].asking, port[p].m_fd, port[p].m_status, port[p].m_save)
<1> DEFINE m == [port[p] EXCEPT !.step = "opening"]
<1>1. port[p] \in Members
  BY DEF TypeOK
<1>2. m \in Members
  BY <1>1 DEF Members, Steps
<1>3. Becomes(p, m.step, m.asking, m.m_fd, m.m_status, m.m_save)
  BY <1>2, Update
<1> QED
  BY <1>1, <1>3 DEF Members

LEMMA OpenEffect ==
  ASSUME TypeOK, NEW p \in Ports, Open(p)
  PROVE  \E fd \in {VoidFd} \cup Lowest(Free) :
            /\ fd \in {VoidFd} \cup Free
            /\ descriptors' = descriptors \cup ({fd} \ {VoidFd})
            /\ \/ /\ fd < 3 /\ failed' = [failed EXCEPT ![p] = TRUE]
                  /\ Becomes(p, "idle", port[p].asking, fd,
                             set_reset(port[p].m_status, {"failure"}, {"opened"}),
                             port[p].m_save)
               \/ /\ fd > 2 /\ failed' = failed
                  /\ Becomes(p, "setup", port[p].asking, fd, port[p].m_status, port[p].m_save)
<1> DEFINE bits == set_reset(port[p].m_status, {"failure"}, {"opened"})
<1>1. PICK fd \in {VoidFd} \cup Lowest(Free) :
        /\ descriptors' = descriptors \cup ({fd} \ {VoidFd})
        /\ IF fd < 3
           THEN /\ port' = [port EXCEPT ![p].m_fd = fd, ![p].step = "idle",
                                        ![p].m_status = bits]
                /\ failed' = [failed EXCEPT ![p] = TRUE]
           ELSE /\ port' = [port EXCEPT ![p].m_fd = fd, ![p].step = "setup"]
                /\ UNCHANGED failed
  BY DEF Open
<1>2. port[p] \in Members /\ bits \in SUBSET StatusBits
  BY DEF TypeOK, Members, set_reset, set, reset, StatusBits
<1> HIDE DEF bits
<1>3. fd \in {VoidFd} \cup Free /\ fd \in {VoidFd} \cup 0..MaxFd /\ fd \in Int
  BY PortAssumption DEF Lowest, Free, VoidFd
<1>4. CASE fd < 3
  <2> DEFINE m == [port[p] EXCEPT !.m_fd = fd, !.step = "idle", !.m_status = bits]
  <2>1. m \in Members /\ port' = [port EXCEPT ![p] = m]
    BY <1>1, <1>2, <1>3, <1>4 DEF Members, Steps
  <2>2. Becomes(p, m.step, m.asking, m.m_fd, m.m_status, m.m_save)
    BY <2>1, Update
  <2>3. Becomes(p, "idle", port[p].asking, fd, bits, port[p].m_save)
    BY <1>2, <2>2 DEF Members
  <2> QED
    BY <1>1, <1>3, <1>4, <2>3 DEF bits
<1>5. CASE ~(fd < 3)
  <2> DEFINE m == [port[p] EXCEPT !.m_fd = fd, !.step = "setup"]
  <2>1. m \in Members /\ port' = [port EXCEPT ![p] = m]
    BY <1>1, <1>2, <1>3, <1>5 DEF Members, Steps
  <2>2. Becomes(p, m.step, m.asking, m.m_fd, m.m_status, m.m_save)
    BY <2>1, Update
  <2>3. Becomes(p, "setup", port[p].asking, fd, port[p].m_status, port[p].m_save)
    BY <1>2, <2>2 DEF Members
  <2>4. fd > 2
    BY <1>3, <1>5
  <2> QED
    BY <1>1, <1>3, <1>5, <2>3, <2>4
<1> QED
  BY <1>4, <1>5

LEMMA SetUpEffect ==
  ASSUME TypeOK, NEW p \in Ports, SetUp(p)
  PROVE  /\ Becomes(p, "idle", port[p].asking, port[p].m_fd,
                    set(reset_error(port[p].m_status), {"opened"}), port'[p].m_save)
         /\ device' \in Settings
         /\ Careless = {} => /\ port'[p].m_save = device
                            /\ device'.raw /\ Means(device') = port[p].m_property
<1>1. port[p].m_termios \in Settings /\ port[p].m_property \in ConnectionConditions
  BY PortAssumption DEF TypeOK, Members
<1> DEFINE new == setup(port[p].m_termios, port[p].m_property)
<1>2. new \in Settings /\ new.raw /\ Means(new) = port[p].m_property
  BY <1>1, setupType, setupWorks
<1>3. PICK save \in Got(port[p].m_save, device) :
        port' = [port EXCEPT ![p].step = "idle", ![p].m_termios = new, ![p].m_save = save,
                             ![p].m_status = set(reset_error(port[p].m_status), {"opened"})]
  BY DEF SetUp, Saved
<1>4. device' \in Put(device, new)
  BY DEF SetUp
<1> HIDE DEF new
<1>5. set(reset_error(port[p].m_status), {"opened"}) \in SUBSET StatusBits
  BY DEF TypeOK, Members, set, reset_error, reset, StatusBits
<1>6. port[p] \in Members /\ device \in Settings /\ save \in Settings
  BY <1>3 DEF TypeOK, Members, Got
<1> DEFINE bits == set(reset_error(port[p].m_status), {"opened"})
           m == [port[p] EXCEPT !.step = "idle", !.m_termios = new, !.m_save = save,
                                !.m_status = bits]
<1>7. port' = [port EXCEPT ![p] = m]
  BY <1>3
<1> HIDE DEF bits
<1>8. m \in Members
  BY <1>2, <1>5, <1>6 DEF Members, Steps, bits
<1>9. Becomes(p, m.step, m.asking, m.m_fd, m.m_status, m.m_save)
  BY <1>7, <1>8, Update
<1>10. Becomes(p, "idle", port[p].asking, port[p].m_fd, bits, save)
  BY <1>6, <1>9 DEF Members
<1>11. Becomes(p, "idle", port[p].asking, port[p].m_fd, bits, port'[p].m_save)
       /\ port'[p].m_save = save
  BY <1>10 DEF Becomes
<1>12. device' \in Settings
  BY <1>2, <1>4, <1>6 DEF Put
<1>13. Careless = {} => save = device /\ device' = new
  BY <1>3, <1>4 DEF Put, Got, Careful
<1> QED
  BY <1>2, <1>11, <1>12, <1>13 DEF bits

LEMMA AskEffect ==
  ASSUME TypeOK, NEW p \in Ports, NEW d \in Directions, Ask(p, d)
  PROVE  Becomes(p, port[p].step, port[p].asking \cup {d}, port[p].m_fd, port[p].m_status,
                 port[p].m_save)
<1> DEFINE m == [port[p] EXCEPT !.asking = port[p].asking \cup {d}]
<1>1. port[p] \in Members /\ port' = [port EXCEPT ![p] = m]
  BY DEF TypeOK, Ask
<1>2. m \in Members
  BY <1>1 DEF Members
<1>3. Becomes(p, m.step, m.asking, m.m_fd, m.m_status, m.m_save)
  BY <1>1, <1>2, Update
<1> QED
  BY <1>1, <1>3 DEF Members

LEMMA AnswerEffect ==
  ASSUME TypeOK, NEW p \in Ports, NEW d \in Directions, Answer(p, d)
  PROVE  \E outcome \in Outcomes :
            /\ d = "in_out" => outcome # "ready"
            /\ Becomes(p, port[p].step, port[p].asking \ {d}, port[p].m_fd,
                       Answered(port[p].m_status, d, outcome), port[p].m_save)
            /\ ready' = [ready EXCEPT ![p][d] = (outcome = "ready")]
            /\ failed' = [failed EXCEPT ![p] = failed[p] \/ outcome = "error"]
<1>1. PICK outcome \in IF d = "in_out" THEN {"timeout", "error"} ELSE Outcomes :
        /\ port' = [port EXCEPT ![p].asking = port[p].asking \ {d},
                                ![p].m_status = Answered(port[p].m_status, d, outcome)]
        /\ ready' = [ready EXCEPT ![p][d] = (outcome = "ready")]
        /\ failed' = [failed EXCEPT ![p] = failed[p] \/ outcome = "error"]
  BY DEF Answer
<1>2. outcome \in Outcomes /\ (d = "in_out" => outcome # "ready")
  BY <1>1 DEF Outcomes
<1>3. Answered(port[p].m_status, d, outcome) \in SUBSET StatusBits
  BY <1>2 DEF TypeOK, Members, Answered, ReadyBit, Outcomes, Directions, StatusBits, set_reset,
              set, reset
<1> DEFINE status == Answered(port[p].m_status, d, outcome)
           m == [port[p] EXCEPT !.asking = port[p].asking \ {d}, !.m_status = status]
<1>4. port[p] \in Members /\ port' = [port EXCEPT ![p] = m]
  BY <1>1 DEF TypeOK
<1> HIDE DEF status
<1>5. m \in Members
  BY <1>3, <1>4 DEF Members, status
<1>6. Becomes(p, m.step, m.asking, m.m_fd, m.m_status, m.m_save)
  BY <1>4, <1>5, Update
<1>7. Becomes(p, port[p].step, port[p].asking \ {d}, port[p].m_fd, status, port[p].m_save)
  BY <1>4, <1>6 DEF Members
<1> QED
  BY <1>1, <1>2, <1>7 DEF status

LEMMA ResetErrorEffect ==
  ASSUME TypeOK, NEW p \in Ports, ResetError(p)
  PROVE  Becomes(p, "idle", port[p].asking, port[p].m_fd, reset_error(port[p].m_status),
                 port[p].m_save)
<1> DEFINE m == [port[p] EXCEPT !.m_status = reset_error(port[p].m_status)]
<1>1. port[p] \in Members /\ port[p].step = "idle" /\ port' = [port EXCEPT ![p] = m]
  BY DEF TypeOK, ResetError, Idle
<1>2. m \in Members
  BY <1>1 DEF Members, reset_error, reset
<1>3. Becomes(p, m.step, m.asking, m.m_fd, m.m_status, m.m_save)
  BY <1>1, <1>2, Update
<1> QED
  BY <1>1, <1>3 DEF Members

-----------------------------------------------------------------------------
(* Types. A descriptor is given back once, since every port that gives one  *)
(* back has it, and no other port has the same.                             *)

Held ==
    /\ \A p \in Ports : port[p].step \in {"setup", "restoring", "closing"} => HasFd(p)
    /\ \A p \in Ports : "opened" \in port[p].m_status => port[p].step = "idle" /\ HasFd(p)
    /\ \A p, q \in Ports : p # q /\ HasFd(p) => port[p].m_fd # port[q].m_fd

Typed == TypeOK /\ Held

LEMMA OpenedBit ==
  ASSUME TypeOK, NEW p \in Ports
  PROVE  is_set(port[p].m_status, {"opened"}) <=> "opened" \in port[p].m_status
BY DEF is_set

\* A step of one port that opens and closes nothing.
LEMMA SameFd ==
  ASSUME Typed, NEW p \in Ports, NEW step, NEW asking, NEW status, NEW save,
         Becomes(p, step, asking, port[p].m_fd, status, save),
         descriptors' = descriptors,
         step \in {"setup", "restoring", "closing"} => HasFd(p),
         "opened" \in status => step = "idle" /\ HasFd(p)
  PROVE  /\ Held'
         /\ port' \in [Ports -> Members]
         /\ \A q \in Ports : port'[q].m_fd \in {VoidFd} \cup descriptors'
<1>1. /\ port' \in [Ports -> Members]
      /\ port'[p].step = step /\ port'[p].m_fd = port[p].m_fd /\ port'[p].m_status = status
      /\ \A q \in Ports \ {p} : port'[q] = port[q]
  BY DEF Becomes
<1>2. \A q \in Ports : port'[q].m_fd = port[q].m_fd
  BY <1>1
<1>3. \A q \in Ports : port'[q].m_fd \in {VoidFd} \cup descriptors'
  BY <1>2 DEF Typed, TypeOK
<1>4. Held'
  BY <1>1, <1>2 DEF Typed, Held, HasFd
<1> QED
  BY <1>1, <1>3, <1>4

\* A step after which a port has no descriptor.
LEMMA NoFd ==
  ASSUME Typed, NEW p \in Ports, NEW step, NEW asking, NEW status, NEW save,
         Becomes(p, step, asking, VoidFd, status, save),
         \/ descriptors' = descriptors
         \/ HasFd(p) /\ descriptors' = descriptors \ {port[p].m_fd},
         step \notin {"setup", "restoring", "closing"}, "opened" \notin status
  PROVE  /\ Held'
         /\ port' \in [Ports -> Members]
         /\ \A q \in Ports : port'[q].m_fd \in {VoidFd} \cup descriptors'
<1>1. \A q \in Ports : port'[q].m_fd \in {VoidFd} \cup descriptors'
  BY DEF Typed, TypeOK, Held, Becomes
<1>2. /\ port'[p].step = step /\ port'[p].m_fd = -1 /\ port'[p].m_status = status
      /\ \A q \in Ports \ {p} : port'[q] = port[q]
      /\ port' \in [Ports -> Members]
  BY DEF Becomes, VoidFd
<1>3. Held'
  BY <1>2 DEF Typed, Held, HasFd
<1> QED
  BY <1>1, <1>2, <1>3

LEMMA disconnectTyped ==
  ASSUME Typed, NEW p \in Ports, NEW sequel \in Sequels, HasFd(p), disconnect(p, sequel)
  PROVE  Typed'
<1>1. Becomes(p, "restoring", port[p].asking, port[p].m_fd, {}, port[p].m_save)
  BY disconnectEffect DEF Typed
<1>2. descriptors' = descriptors
  BY DEF disconnect
<1>3. "opened" \notin {}
  OBVIOUS
<1>4. /\ Held' /\ port' \in [Ports -> Members]
      /\ \A q \in Ports : port'[q].m_fd \in {VoidFd} \cup descriptors'
  BY <1>1, <1>2, <1>3, SameFd
<1>5. ready' \in [Ports -> [Directions -> BOOLEAN]] /\ failed' \in [Ports -> BOOLEAN]
  BY DEF Typed, TypeOK, disconnect, NotReady
<1> QED
  BY <1>4, <1>5 DEF Typed, TypeOK, disconnect, origin

LEMMA InitTyped == Init => Typed
<1> SUFFICES ASSUME Init PROVE Typed
  OBVIOUS
<1>1. \A p \in Ports : port[p] = Absent
  BY DEF Init
<1>2. port \in [Ports -> Members]
  BY AbsentFacts DEF Init
<1>3. descriptors \subseteq 0..MaxFd /\ inherited \subseteq 0..MaxFd
  BY PortAssumption DEF Init, StandardFds
<1>4. asked \in [Ports -> Conditions]
  BY AbsentFacts DEF Init, Members
<1>5. TypeOK
  BY <1>1, <1>2, <1>3, <1>4, AbsentFacts, PortAssumption DEF Init, TypeOK, NotReady
<1> QED
  BY <1>1, <1>5, AbsentFacts DEF Typed, Held, HasFd, VoidFd

LEMMA CallTyped ==
  ASSUME Typed, NEW p \in Ports, Call(p)
  PROVE  Typed'
<1> USE DEF Typed
<1>1. CASE Construct(p)
  <2>1. Becomes(p, "idle", {}, VoidFd, {}, port'[p].m_save)
    BY <1>1, ConstructEffect
  <2>2. Held' /\ port' \in [Ports -> Members]
        /\ \A q \in Ports : port'[q].m_fd \in {VoidFd} \cup descriptors'
    BY <1>1, <2>1, NoFd DEF Construct
  <2> QED
    BY <1>1, <2>2 DEF Construct, TypeOK, NotReady, origin
<1>2. CASE Change(p)
  <2>1. Becomes(p, "idle", port[p].asking, port[p].m_fd, port[p].m_status, port[p].m_save)
    BY <1>2, ChangeEffect
  <2>2. ("opened" \in port[p].m_status => HasFd(p)) /\ descriptors' = descriptors
    BY <1>2 DEF Change, Held
  <2>3. Held' /\ port' \in [Ports -> Members]
        /\ \A q \in Ports : port'[q].m_fd \in {VoidFd} \cup descriptors'
    <3>1. "idle" \notin {"setup", "restoring", "closing"}
      OBVIOUS
    <3> QED
      BY <2>1, <2>2, <3>1, SameFd
  <2> QED
    BY <1>2, <2>3 DEF Change, TypeOK, histories, origin
<1>3. CASE Destroy(p)
  <2>1. CASE HasFd(p)
    BY <1>3, <2>1, disconnectTyped DEF Destroy, Sequels
  <2>2. CASE ~HasFd(p)
    <3>1. port' = [port EXCEPT ![p] = Absent]
          /\ UNCHANGED <<device, descriptors, histories, origin>>
      BY <1>3, <2>2 DEF Destroy
    <3>2. Becomes(p, "none", {}, VoidFd, {}, Absent.m_save)
      BY <3>1, VanishEffect
    <3>3. Held' /\ port' \in [Ports -> Members]
          /\ \A q \in Ports : port'[q].m_fd \in {VoidFd} \cup descriptors'
      BY <3>1, <3>2, NoFd
    <3> QED
      BY <3>1, <3>3 DEF TypeOK, histories, origin
  <2> QED
    BY <2>1, <2>2
<1>4. CASE Connect(p)
  <2>1. CASE is_set(port[p].m_status, {"opened"})
    <3>1. HasFd(p)
      BY <2>1, OpenedBit DEF Held
    <3> QED
      BY <1>4, <2>1, <3>1, disconnectTyped DEF Connect, Sequels
  <2>2. CASE ~is_set(port[p].m_status, {"opened"})
    <3>1. port' = [port EXCEPT ![p].step = "opening"]
          /\ UNCHANGED <<device, descriptors, histories, origin>>
      BY <1>4, <2>2 DEF Connect
    <3>2. Becomes(p, "opening", port[p].asking, port[p].m_fd, port[p].m_status, port[p].m_save)
      BY <3>1, OpeningEffect
    <3>3. "opened" \notin port[p].m_status /\ descriptors' = descriptors
      BY <2>2, <3>1, OpenedBit
    <3>4. Held' /\ port' \in [Ports -> Members]
          /\ \A q \in Ports : port'[q].m_fd \in {VoidFd} \cup descriptors'
      <4>1. "opening" \notin {"setup", "restoring", "closing"}
        OBVIOUS
      <4> QED
        BY <3>2, <3>3, <4>1, SameFd
    <3> QED
      BY <3>1, <3>4 DEF TypeOK, histories, origin
  <2> QED
    BY <2>1, <2>2
<1>5. CASE Open(p)
  <2>1. PICK fd \in {VoidFd} \cup Lowest(Free) :
            /\ fd \in {VoidFd} \cup Free
            /\ descriptors' = descriptors \cup ({fd} \ {VoidFd})
            /\ \/ /\ fd < 3 /\ failed' = [failed EXCEPT ![p] = TRUE]
                  /\ Becomes(p, "idle", port[p].asking, fd,
                             set_reset(port[p].m_status, {"failure"}, {"opened"}),
                             port[p].m_save)
               \/ /\ fd > 2 /\ failed' = failed
                  /\ Becomes(p, "setup", port[p].asking, fd, port[p].m_status, port[p].m_save)
    BY <1>5, OpenEffect
  <2>2. "opened" \notin set_reset(port[p].m_status, {"failure"}, {"opened"})
    BY DEF set_reset, reset
  <2>3. "opened" \notin port[p].m_status
    BY <1>5 DEF Held, Open
  <2>4. /\ port' \in [Ports -> Members] /\ port'[p].m_fd = fd
        /\ \A q \in Ports \ {p} : port'[q] = port[q]
        /\ "opened" \notin port'[p].m_status
        /\ port'[p].step = "idle" \/ (port'[p].step = "setup" /\ fd > 2)
    BY <2>1, <2>2, <2>3 DEF Becomes
  <2>5. \A q \in Ports : q # p /\ port[q].m_fd = fd => fd = VoidFd
    BY <2>1 DEF TypeOK, Free
  <2>6. Held'
    BY <2>4, <2>5 DEF Held, HasFd, VoidFd
  <2>7. /\ descriptors' \subseteq 0..MaxFd
        /\ \A q \in Ports : port'[q].m_fd \in {VoidFd} \cup descriptors'
    BY <2>1, <2>4 DEF TypeOK, Free
  <2>8. failed' \in [Ports -> BOOLEAN]
    BY <2>1 DEF TypeOK
  <2> QED
    BY <1>5, <2>4, <2>6, <2>7, <2>8 DEF Open, TypeOK, origin
<1>6. CASE SetUp(p)
  <2>1. /\ Becomes(p, "idle", port[p].asking, port[p].m_fd,
                    set(reset_error(port[p].m_status), {"opened"}), port'[p].m_save)
        /\ device' \in Settings
    BY <1>6, SetUpEffect
  <2>2. HasFd(p) /\ descriptors' = descriptors
    BY <1>6 DEF SetUp, Held
  <2>3. Held' /\ port' \in [Ports -> Members]
        /\ \A q \in Ports : port'[q].m_fd \in {VoidFd} \cup descriptors'
    BY <2>1, <2>2, SameFd
  <2>4. /\ asked' \in [Ports -> Conditions]
        /\ ready' \in [Ports -> [Directions -> BOOLEAN]] /\ failed' \in [Ports -> BOOLEAN]
    BY <1>6 DEF SetUp, TypeOK, Members, NotReady
  <2> QED
    BY <1>6, <2>1, <2>3, <2>4 DEF SetUp, TypeOK, origin
<1>7. CASE Disconnect(p)
  BY <1>7, disconnectTyped DEF Disconnect, Sequels
<1>8. CASE restoreTermios(p)
  <2>1. HasFd(p) /\ port[p].m_save \in Settings /\ "opened" \notin port[p].m_status
    BY <1>8 DEF restoreTermios, Held, TypeOK, Members
  <2>2. Held' /\ port' \in [Ports -> Members]
        /\ \A q \in Ports : port'[q].m_fd \in {VoidFd} \cup descriptors'
    BY <1>8, <2>1, restoreTermiosEffect, SameFd DEF restoreTermios
  <2>3. device' \in Settings
    BY <1>8, <2>1, ReleasedFacts DEF restoreTermios, Put, TypeOK
  <2> QED
    BY <1>8, <2>2, <2>3 DEF restoreTermios, TypeOK, histories, origin
<1>9. CASE Close(p)
  <2>1. HasFd(p) /\ "opened" \notin port[p].m_status
        /\ descriptors' = descriptors \ {port[p].m_fd}
    BY <1>9 DEF Close, Held
  <2>2. Held' /\ port' \in [Ports -> Members]
        /\ \A q \in Ports : port'[q].m_fd \in {VoidFd} \cup descriptors'
    <3>1. CASE Becomes(p, "none", {}, VoidFd, {}, Absent.m_save)
      BY <2>1, <3>1, NoFd
    <3>2. ASSUME NEW step \in {"idle", "opening"},
                 Becomes(p, step, port[p].asking, VoidFd, port[p].m_status, port[p].m_save)
          PROVE  Held' /\ port' \in [Ports -> Members]
                 /\ \A q \in Ports : port'[q].m_fd \in {VoidFd} \cup descriptors'
      BY <2>1, <3>2, NoFd
    <3> QED
      BY <1>9, <3>1, <3>2, CloseEffect
  <2> QED
    BY <1>9, <2>1, <2>2 DEF Close, TypeOK, histories, origin
<1>10. CASE ResetError(p)
  <2>1. "opened" \in reset_error(port[p].m_status) => "opened" \in port[p].m_status
    BY DEF reset_error, reset
  <2>2. Becomes(p, "idle", port[p].asking, port[p].m_fd, reset_error(port[p].m_status),
                port[p].m_save)
    BY <1>10, ResetErrorEffect
  <2>3. Held' /\ port' \in [Ports -> Members]
        /\ \A q \in Ports : port'[q].m_fd \in {VoidFd} \cup descriptors'
    <3>1. /\ "opened" \in port[p].m_status => HasFd(p)
          /\ descriptors' = descriptors /\ "idle" \notin {"setup", "restoring", "closing"}
      BY <1>10 DEF ResetError, Held
    <3> QED
      BY <2>1, <2>2, <3>1, SameFd
  <2> QED
    BY <1>10, <2>3 DEF ResetError, TypeOK, origin
<1>11. ASSUME NEW d \in Directions, Ask(p, d) PROVE Typed'
  <2>1. Becomes(p, port[p].step, port[p].asking \cup {d}, port[p].m_fd, port[p].m_status,
                port[p].m_save)
    BY <1>11, AskEffect
  <2>2. Held' /\ port' \in [Ports -> Members]
        /\ \A q \in Ports : port'[q].m_fd \in {VoidFd} \cup descriptors'
    <3>1. /\ "opened" \in port[p].m_status => port[p].step = "idle" /\ HasFd(p)
          /\ port[p].step \in {"setup", "restoring", "closing"} => HasFd(p)
          /\ descriptors' = descriptors
      BY <1>11 DEF Ask, Held
    <3> QED
      BY <2>1, <3>1, SameFd
  <2> QED
    BY <1>11, <2>2 DEF Ask, TypeOK, histories, origin
<1>12. ASSUME NEW d \in Directions, Answer(p, d) PROVE Typed'
  <2>1. PICK outcome \in Outcomes :
            /\ Becomes(p, port[p].step, port[p].asking \ {d}, port[p].m_fd,
                       Answered(port[p].m_status, d, outcome), port[p].m_save)
            /\ ready' = [ready EXCEPT ![p][d] = (outcome = "ready")]
            /\ failed' = [failed EXCEPT ![p] = failed[p] \/ outcome = "error"]
    BY <1>12, AnswerEffect
  <2>2. "opened" \in Answered(port[p].m_status, d, outcome) => "opened" \in port[p].m_status
    BY DEF Answered, ReadyBit, Outcomes, Directions, set_reset, set, reset
  <2>3. descriptors' = descriptors
    BY <1>12 DEF Answer
  <2>4. Held' /\ port' \in [Ports -> Members]
        /\ \A q \in Ports : port'[q].m_fd \in {VoidFd} \cup descriptors'
    <3>1. /\ "opened" \in port[p].m_status => port[p].step = "idle" /\ HasFd(p)
          /\ port[p].step \in {"setup", "restoring", "closing"} => HasFd(p)
      BY DEF Held
    <3> QED
      BY <2>1, <2>2, <2>3, <3>1, SameFd
  <2>5. ready' \in [Ports -> [Directions -> BOOLEAN]] /\ failed' \in [Ports -> BOOLEAN]
    BY <2>1 DEF TypeOK
  <2> QED
    BY <1>12, <2>4, <2>5 DEF Answer, TypeOK, origin
<1> QED
  BY <1>1, <1>2, <1>3, <1>4, <1>5, <1>6, <1>7, <1>8, <1>9, <1>10, <1>11, <1>12 DEF Call

LEMMA CrashTyped ==
  ASSUME Typed, Crash
  PROVE  Typed'
<1>1. \A p \in Ports : port'[p] = Absent
  BY DEF Crash
<1>2. port' \in [Ports -> Members]
  BY AbsentFacts DEF Crash
<1>3. descriptors' \subseteq 0..MaxFd /\ inherited' \subseteq 0..MaxFd
  BY PortAssumption DEF Crash, StandardFds
<1>4. TypeOK'
  BY <1>1, <1>2, <1>3, AbsentFacts DEF Crash, Typed, TypeOK, NotReady
<1> QED
  BY <1>1, <1>4, AbsentFacts DEF Typed, Held, HasFd, VoidFd

LEMMA NextTyped == Typed /\ [Next]_vars => Typed'
<1> SUFFICES ASSUME Typed, [Next]_vars PROVE Typed'
  OBVIOUS
<1>1. CASE UNCHANGED vars
  BY <1>1 DEF vars, Typed, TypeOK, Held, HasFd
<1>2. CASE Next
  BY <1>2, CallTyped, CrashTyped DEF Next
<1> QED
  BY <1>1, <1>2

(* Whatever the application does, every descriptor a port works with is     *)
(* open, so that none is used or closed after it was given back.            *)
THEOREM TypeCorrect == Spec => []TypeOK
<1>1. Typed => TypeOK
  BY DEF Typed
<1> QED
  BY <1>1, InitTyped, NextTyped, PTL DEF Spec
-----------------------------------------------------------------------------
(* A careful application.                                                   *)

\* One port at a time has the device.
Single == \A p, q \in Ports : p # q => Detached(p) \/ Detached(q)

\* The standard descriptors are open, so that a port never gets one of them,
\* and a port that is about to open has given its last one back.
Known ==
    /\ inherited = StandardFds /\ StandardFds \subseteq descriptors
    /\ \A p \in Ports : port[p].step \in {"none", "opening"} => port[p].m_fd = VoidFd
    /\ \A p \in Ports : Idle(p) /\ HasFd(p) => "opened" \in port[p].m_status
    /\ \A p \in Ports : HasFd(p) \/ port[p].m_fd = VoidFd
    /\ \A fd \in descriptors \ inherited : \E p \in Ports : port[p].m_fd = fd

\* Who has the device: a port that has set it up and not restored it.
Holds(p) == port[p].step = "restoring" \/ (Idle(p) /\ HasFd(p))
Originals == {first, Released(first)}

\* A port that holds the device has saved what was found, and without one the
\* device has it.
Restores ==
    /\ \A p \in Ports : Holds(p) => port[p].m_save \in Originals
    /\ (\A p \in Ports : ~Holds(p)) => device \in Originals

\* isReady is only in progress on a connected port, one direction each.
Asking ==
    \A p \in Ports : port[p].asking # {} =>
        Idle(p) /\ HasFd(p) /\ port[p].asking \subseteq {"in", "out"}

\* Without a connection no direction was found ready; and at every point of a
\* call the bits show the answers.
Answers ==
    /\ \A p \in Ports, d \in {"in", "out"} : ready[p][d] => Idle(p) /\ HasFd(p)
    /\ \A p \in Ports : port[p].step # "none" =>
        /\ "ready_read" \in port[p].m_status <=> ready[p]["in"]
        /\ "ready_write" \in port[p].m_status <=> ready[p]["out"]
        /\ "failure" \in port[p].m_status <=> failed[p]

IInv == Typed /\ Single /\ Known /\ Restores /\ WorksAsAsked /\ Asking /\ Answers

LEMMA InitIInv == Careless = {} /\ Init => IInv
<1> SUFFICES ASSUME Careless = {}, Init PROVE IInv
  OBVIOUS
<1>1. \A p \in Ports : port[p] = Absent
  BY DEF Init
<1>2. \A p \in Ports : ~Idle(p) /\ ~HasFd(p) /\ Detached(p) /\ ~Holds(p)
  BY <1>1, AbsentFacts DEF Idle, HasFd, Detached, Holds, VoidFd
<1>3. Single /\ Restores /\ WorksAsAsked
  BY <1>2 DEF Init, Single, Restores, WorksAsAsked, Originals
<1>4. inherited = StandardFds /\ descriptors = StandardFds
  BY DEF Init, Careful
<1>5. Known
  BY <1>1, <1>2, <1>4, AbsentFacts DEF Known
<1>6. Asking /\ Answers
  BY <1>1, AbsentFacts DEF Init, Asking, Answers, NotReady, Directions
<1> QED
  BY <1>3, <1>5, <1>6, InitTyped DEF IInv

\* A step that leaves the connection of a port as it is.
LEMMA Stays ==
  ASSUME IInv, NEW p \in Ports, NEW asking, NEW status,
         Becomes(p, port[p].step, asking, port[p].m_fd, status, port[p].m_save),
         UNCHANGED <<device, descriptors, asked, origin>>,
         "opened" \in status <=> "opened" \in port[p].m_status
  PROVE  Single' /\ Known' /\ Restores' /\ WorksAsAsked'
<1>1. /\ port'[p].step = port[p].step /\ port'[p].m_fd = port[p].m_fd
      /\ port'[p].m_save = port[p].m_save
      /\ "opened" \in port'[p].m_status <=> "opened" \in port[p].m_status
      /\ \A q \in Ports \ {p} : port'[q] = port[q]
  BY DEF Becomes
<1>2. \A q \in Ports : /\ port'[q].step = port[q].step /\ port'[q].m_fd = port[q].m_fd
                       /\ port'[q].m_save = port[q].m_save
                       /\ "opened" \in port'[q].m_status <=> "opened" \in port[q].m_status
  BY <1>1
<1>3. Single'
  BY <1>2 DEF IInv, Single, Detached
<1>4. Known'
  BY <1>2 DEF IInv, Known, Idle, HasFd, origin
<1>5. Restores'
  BY <1>2 DEF IInv, Restores, Holds, Idle, HasFd, Originals, origin
<1>6. WorksAsAsked'
  BY <1>2 DEF IInv, WorksAsAsked, Idle, HasFd
<1> QED
  BY <1>3, <1>4, <1>5, <1>6

\* While one port is not detached the others are, and none of them holds the
\* device.
LEMMA OthersDetached ==
  ASSUME IInv, NEW p \in Ports, ~Detached(p)
  PROVE  \A q \in Ports \ {p} : Detached(q) /\ ~HasFd(q) /\ ~Holds(q)
BY DEF IInv, Single, Detached, HasFd, Holds, Idle, VoidFd

\* A step of one port keeps Answers when it does for that port.
LEMMA AnswersKept ==
  ASSUME IInv, NEW p \in Ports,
         \A q \in Ports \ {p} : port'[q] = port[q] /\ ready'[q] = ready[q] /\ failed'[q] = failed[q],
         ready'[p]["in"] \/ ready'[p]["out"] => Idle(p)' /\ HasFd(p)',
         port'[p].step # "none" =>
            /\ "ready_read" \in port'[p].m_status <=> ready'[p]["in"]
            /\ "ready_write" \in port'[p].m_status <=> ready'[p]["out"]
            /\ "failure" \in port'[p].m_status <=> failed'[p]
  PROVE  Answers'
<1> USE DEF Idle, HasFd
<1>1. Answers
  BY DEF IInv
<1>2. \A q \in Ports, d \in {"in", "out"} : ready'[q][d] => Idle(q)' /\ HasFd(q)'
  <2>1. ASSUME NEW d \in {"in", "out"}, ready'[p][d] PROVE Idle(p)' /\ HasFd(p)'
    BY <2>1
  <2>2. ASSUME NEW q \in Ports \ {p}, NEW d \in {"in", "out"}, ready'[q][d]
        PROVE  Idle(q)' /\ HasFd(q)'
    BY <1>1, <2>2 DEF Answers
  <2> QED
    BY <2>1, <2>2
<1>3. \A q \in Ports \ {p} : port'[q].step # "none" =>
            /\ "ready_read" \in port'[q].m_status <=> ready'[q]["in"]
            /\ "ready_write" \in port'[q].m_status <=> ready'[q]["out"]
            /\ "failure" \in port'[q].m_status <=> failed'[q]
  BY <1>1 DEF Answers
<1> QED
  BY <1>2, <1>3 DEF Answers

LEMMA disconnectKeeps ==
  ASSUME IInv, NEW p \in Ports, NEW sequel \in Sequels,
         Idle(p), HasFd(p), port[p].asking = {}, disconnect(p, sequel)
  PROVE  Single' /\ Known' /\ Restores' /\ WorksAsAsked' /\ Asking' /\ Answers'
<1>1. Becomes(p, "restoring", {}, port[p].m_fd, {}, port[p].m_save)
  BY disconnectEffect DEF IInv, Typed
<1>2. /\ port'[p].step = "restoring" /\ port'[p].asking = {} /\ port'[p].m_fd = port[p].m_fd
      /\ port'[p].m_status = {} /\ port'[p].m_save = port[p].m_save
      /\ \A q \in Ports \ {p} : port'[q] = port[q]
  BY <1>1 DEF Becomes
<1>3. UNCHANGED <<device, descriptors, asked, first, inherited>>
  BY DEF disconnect, origin
<1>4. \A q \in Ports \ {p} : Detached(q) /\ ~HasFd(q) /\ ~Holds(q)
  BY OthersDetached DEF Detached, HasFd, VoidFd
<1>5. Single'
  BY <1>2, <1>4 DEF Single, Detached
<1>6. Known'
  BY <1>2, <1>3 DEF IInv, Known, Idle, HasFd
<1>7. Restores'
  BY <1>2, <1>3, <1>4 DEF IInv, Restores, Holds, Idle, HasFd, Originals
<1>8. WorksAsAsked'
  BY <1>2, <1>4 DEF WorksAsAsked, Idle, HasFd
<1>9. Asking'
  BY <1>2 DEF IInv, Asking, Idle, HasFd
<1>10. Answers'
  <2>1. /\ ready' = [ready EXCEPT ![p] = NotReady] /\ failed' = [failed EXCEPT ![p] = FALSE]
        /\ ready \in [Ports -> [Directions -> BOOLEAN]] /\ failed \in [Ports -> BOOLEAN]
    BY DEF disconnect, IInv, Typed, TypeOK
  <2>2. ~ready'[p]["in"] /\ ~ready'[p]["out"] /\ ~failed'[p]
    BY <2>1 DEF NotReady, Directions
  <2>3. \A q \in Ports \ {p} : ready'[q] = ready[q] /\ failed'[q] = failed[q]
    BY <2>1
  <2> QED
    BY <1>2, <2>2, <2>3, AnswersKept
<1> QED
  BY <1>5, <1>6, <1>7, <1>8, <1>9, <1>10

\* A step that leaves a port without descriptor, as it found or left it.
LEMMA EndsDetached ==
  ASSUME IInv, NEW p \in Ports, NEW step \in {"none", "idle"}, NEW status, NEW save,
         port[p].m_fd = VoidFd, "opened" \notin status,
         Becomes(p, step, {}, VoidFd, status, save),
         UNCHANGED <<device, descriptors, asked, origin>>
  PROVE  Single' /\ Known' /\ Restores' /\ WorksAsAsked' /\ Asking'
<1>1. /\ port'[p].step = step /\ port'[p].asking = {} /\ port'[p].m_fd = VoidFd
      /\ \A q \in Ports \ {p} : port'[q] = port[q]
  BY DEF Becomes
<1>2. ~HasFd(p) /\ ~HasFd(p)' /\ Detached(p)'
  BY <1>1 DEF HasFd, Detached, VoidFd
<1>3. ~Holds(p) /\ ~Holds(p)'
  <2>1. port[p].step # "restoring"
    BY <1>2 DEF IInv, Typed, Held
  <2> QED
    BY <1>1, <1>2, <2>1 DEF Holds
<1>4. Single'
  BY <1>1, <1>2 DEF IInv, Single, Detached
<1>5. Known'
  BY <1>1, <1>2 DEF IInv, Known, Idle, HasFd, origin
<1>6. Restores'
  BY <1>1, <1>3 DEF IInv, Restores, Holds, Idle, HasFd, Originals, origin
<1>7. WorksAsAsked'
  BY <1>1, <1>2 DEF IInv, WorksAsAsked, Idle, HasFd
<1>8. Asking'
  BY <1>1 DEF IInv, Asking, Idle, HasFd
<1> QED
  BY <1>4, <1>5, <1>6, <1>7, <1>8

\* All that is left to show of a step, beside the types.
Safe == Single /\ Known /\ Restores /\ WorksAsAsked /\ Asking /\ Answers

LEMMA ConstructKeeps ==
  ASSUME IInv, NEW p \in Ports, Construct(p)
  PROVE  Safe'
<1>1. Becomes(p, "idle", {}, VoidFd, {}, port'[p].m_save)
  BY ConstructEffect DEF IInv, Typed
<1>2. port[p].m_fd = VoidFd /\ UNCHANGED <<device, descriptors, asked, origin>>
  BY DEF Construct, IInv, Known
<1>3. "opened" \notin {}
  OBVIOUS
<1>4. Single' /\ Known' /\ Restores' /\ WorksAsAsked' /\ Asking'
  BY <1>1, <1>2, <1>3, EndsDetached
<1>5. /\ port'[p].m_status = {} /\ \A q \in Ports \ {p} : port'[q] = port[q]
      /\ ready' = [ready EXCEPT ![p] = NotReady] /\ failed' = [failed EXCEPT ![p] = FALSE]
      /\ ready \in [Ports -> [Directions -> BOOLEAN]] /\ failed \in [Ports -> BOOLEAN]
  BY <1>1 DEF Construct, IInv, Typed, TypeOK, Becomes
<1>6. Answers'
  <2>1. ~ready'[p]["in"] /\ ~ready'[p]["out"] /\ ~failed'[p]
    BY <1>5 DEF NotReady, Directions
  <2>2. \A q \in Ports \ {p} : ready'[q] = ready[q] /\ failed'[q] = failed[q]
    BY <1>5
  <2> QED
    BY <1>5, <2>1, <2>2, AnswersKept
<1> QED
  BY <1>4, <1>6 DEF Safe

LEMMA ChangeKeeps ==
  ASSUME IInv, NEW p \in Ports, Change(p)
  PROVE  Safe'
<1>1. Becomes(p, port[p].step, port[p].asking, port[p].m_fd, port[p].m_status, port[p].m_save)
  BY ChangeEffect DEF IInv, Typed, Change, Idle
<1>2. UNCHANGED <<device, descriptors, histories, origin>>
  BY DEF Change
<1>3. Single' /\ Known' /\ Restores' /\ WorksAsAsked'
  BY <1>1, <1>2, Stays DEF histories
<1>4. \A q \in Ports : /\ port'[q].step = port[q].step /\ port'[q].m_fd = port[q].m_fd
                       /\ port'[q].asking = port[q].asking /\ port'[q].m_status = port[q].m_status
  BY <1>1 DEF Becomes
<1>5. Asking' /\ Answers'
  BY <1>2, <1>4 DEF IInv, Asking, Answers, Idle, HasFd, histories
<1> QED
  BY <1>3, <1>5 DEF Safe

LEMMA DestroyKeeps ==
  ASSUME Careless = {}, IInv, NEW p \in Ports, Destroy(p)
  PROVE  Safe'
<1>1. Idle(p) /\ port[p].asking = {}
  BY DEF Destroy, Unasked, Careful
<1>2. CASE HasFd(p)
  BY <1>1, <1>2, disconnectKeeps DEF Destroy, Sequels, Safe
<1>3. CASE ~HasFd(p)
  <2>1. port' = [port EXCEPT ![p] = Absent] /\ UNCHANGED <<device, descriptors, histories, origin>>
    BY <1>3 DEF Destroy
  <2>2. Becomes(p, "none", {}, VoidFd, {}, Absent.m_save)
    BY <2>1, VanishEffect DEF IInv, Typed
  <2>3. port[p].m_fd = VoidFd /\ "opened" \notin {}
    BY <1>3 DEF IInv, Known
  <2>4. Single' /\ Known' /\ Restores' /\ WorksAsAsked' /\ Asking'
    BY <2>1, <2>2, <2>3, EndsDetached DEF histories
  <2>5. Answers'
    <3>1. /\ port'[p].step = "none" /\ UNCHANGED <<ready, failed>>
          /\ \A q \in Ports \ {p} : port'[q] = port[q]
      BY <2>1, <2>2 DEF histories, Becomes
    <3>2. ~ready[p]["in"] /\ ~ready[p]["out"]
      BY <1>3 DEF IInv, Answers
    <3> QED
      BY <3>1, <3>2, AnswersKept
  <2> QED
    BY <2>4, <2>5 DEF Safe
<1> QED
  BY <1>2, <1>3

LEMMA ConnectKeeps ==
  ASSUME Careless = {}, IInv, NEW p \in Ports, Connect(p)
  PROVE  Safe'
<1>1. Idle(p) /\ port[p].asking = {} /\ \A q \in Ports \ {p} : Detached(q)
  BY DEF Connect, Unasked, Exclusive, Careful
<1>2. CASE is_set(port[p].m_status, {"opened"})
  <2>1. HasFd(p)
    BY <1>2, OpenedBit DEF IInv, Typed, Held
  <2> QED
    BY <1>1, <1>2, <2>1, disconnectKeeps DEF Connect, Sequels, Safe
<1>3. CASE ~is_set(port[p].m_status, {"opened"})
  <2>1. port' = [port EXCEPT ![p].step = "opening"]
        /\ UNCHANGED <<device, descriptors, histories, origin>>
    BY <1>3 DEF Connect
  <2>2. Becomes(p, "opening", {}, port[p].m_fd, port[p].m_status, port[p].m_save)
    BY <1>1, <2>1, OpeningEffect DEF IInv, Typed
  <2>3. "opened" \notin port[p].m_status
    BY <1>3, OpenedBit DEF IInv, Typed
  <2>4. ~HasFd(p) /\ port[p].m_fd = VoidFd
    BY <1>1, <2>3 DEF IInv, Known
  <2>5. /\ port'[p].step = "opening" /\ port'[p].asking = {} /\ port'[p].m_fd = VoidFd
        /\ port'[p].m_status = port[p].m_status
        /\ \A q \in Ports \ {p} : port'[q] = port[q]
    BY <2>2, <2>4 DEF Becomes
  <2>6. Single'
    BY <1>1, <2>5 DEF Single, Detached
  <2>7. Known'
    BY <2>1, <2>4, <2>5 DEF IInv, Known, Idle, HasFd, origin
  <2>8. Restores'
    BY <1>1, <2>1, <2>4, <2>5 DEF IInv, Restores, Holds, Idle, HasFd, Originals, origin
  <2>9. WorksAsAsked' /\ Asking'
    BY <2>1, <2>5 DEF IInv, WorksAsAsked, Asking, Idle, HasFd, histories
  <2>10. Answers'
    <3>1. ~ready[p]["in"] /\ ~ready[p]["out"]
      BY <2>4 DEF IInv, Answers
    <3>2. /\ "ready_read" \in port[p].m_status <=> ready[p]["in"]
          /\ "ready_write" \in port[p].m_status <=> ready[p]["out"]
          /\ "failure" \in port[p].m_status <=> failed[p]
      BY <1>1 DEF IInv, Answers, Idle
    <3> QED
      BY <2>1, <2>5, <3>1, <3>2, AnswersKept DEF histories
  <2> QED
    BY <2>6, <2>7, <2>8, <2>9, <2>10 DEF Safe
<1> QED
  BY <1>2, <1>3

LEMMA OpenKeeps ==
  ASSUME IInv, NEW p \in Ports, Open(p)
  PROVE  Safe'
<1>1. PICK fd \in {VoidFd} \cup Lowest(Free) :
          /\ fd \in {VoidFd} \cup Free
          /\ descriptors' = descriptors \cup ({fd} \ {VoidFd})
          /\ \/ /\ fd < 3 /\ failed' = [failed EXCEPT ![p] = TRUE]
                /\ Becomes(p, "idle", port[p].asking, fd,
                           set_reset(port[p].m_status, {"failure"}, {"opened"}),
                           port[p].m_save)
             \/ /\ fd > 2 /\ failed' = failed
                /\ Becomes(p, "setup", port[p].asking, fd, port[p].m_status, port[p].m_save)
  BY OpenEffect DEF IInv, Typed
<1>2. /\ port[p].step = "opening" /\ port[p].m_fd = VoidFd /\ ~HasFd(p)
      /\ UNCHANGED <<device, asked, ready, first, inherited>>
  BY DEF Open, IInv, Known, HasFd, VoidFd, origin
<1>3. port[p].asking = {} /\ \A q \in Ports \ {p} : Detached(q) /\ ~HasFd(q) /\ ~Holds(q)
  BY <1>2, OthersDetached DEF IInv, Asking, Idle, Detached
<1>4. ~ready[p]["in"] /\ ~ready[p]["out"]
  BY <1>2 DEF IInv, Answers, Idle
<1>5. /\ "ready_read" \in port[p].m_status <=> ready[p]["in"]
      /\ "ready_write" \in port[p].m_status <=> ready[p]["out"]
      /\ "failure" \in port[p].m_status <=> failed[p]
  BY <1>2 DEF IInv, Answers
<1>6. /\ \A q \in Ports \ {p} : port'[q] = port[q] /\ failed'[q] = failed[q]
      /\ port'[p].asking = {} /\ port'[p].m_fd = fd
  BY <1>1, <1>3 DEF Becomes, IInv, Typed, TypeOK
<1>7. CASE fd < 3
  <2>1. fd = VoidFd
    <3>1. fd \in Free => fd \notin {0, 1, 2} /\ fd \in Nat
      BY PortAssumption DEF Free, IInv, Known, StandardFds
    <3> QED
      BY <1>1, <1>7, <3>1
  <2>2. /\ port'[p].step = "idle" /\ failed'[p] /\ descriptors' = descriptors
        /\ port'[p].m_status = set_reset(port[p].m_status, {"failure"}, {"opened"})
    <3>1. ~(fd > 2) /\ descriptors' = descriptors
      BY <1>1, <2>1 DEF VoidFd
    <3>2. failed' = [failed EXCEPT ![p] = TRUE] /\ failed \in [Ports -> BOOLEAN]
      BY <1>1, <3>1 DEF IInv, Typed, TypeOK
    <3> QED
      BY <1>1, <3>1, <3>2 DEF Becomes
  <2>3. ~HasFd(p)' /\ Detached(p)'
    BY <1>6, <2>1, <2>2 DEF HasFd, Detached, VoidFd
  <2>4. Single'
    BY <1>3, <1>6, <2>3 DEF Single, Detached
  <2>5. Known'
    BY <1>2, <1>6, <2>1, <2>2, <2>3 DEF IInv, Known, Idle, HasFd
  <2>6. Restores'
    BY <1>2, <1>3, <1>6, <2>2, <2>3 DEF IInv, Restores, Holds, Idle, HasFd, Originals
  <2>7. WorksAsAsked' /\ Asking'
    BY <1>2, <1>6, <2>3 DEF IInv, WorksAsAsked, Asking, Idle, HasFd
  <2>8. Answers'
    <3>1. /\ "failure" \in port'[p].m_status
          /\ "ready_read" \in port'[p].m_status <=> "ready_read" \in port[p].m_status
          /\ "ready_write" \in port'[p].m_status <=> "ready_write" \in port[p].m_status
      BY <2>2 DEF set_reset, set, reset
    <3> QED
      BY <1>2, <1>4, <1>6, <1>5, <2>2, <3>1, AnswersKept
  <2> QED
    BY <2>4, <2>5, <2>6, <2>7, <2>8 DEF Safe
<1>8. CASE ~(fd < 3)
  <2>1. /\ port'[p].step = "setup" /\ port'[p].m_status = port[p].m_status /\ failed' = failed
        /\ fd > 2 /\ descriptors' = descriptors \cup {fd}
    BY <1>1, <1>8 DEF Becomes, VoidFd
  <2>2. Single'
    BY <1>3, <1>6 DEF Single, Detached
  <2>3. Known'
    <3>1. \A n \in descriptors : n # port[p].m_fd
      BY <1>2, PortAssumption DEF IInv, Typed, TypeOK, VoidFd
    <3>2. \A n \in descriptors' \ inherited' : \E q \in Ports : port'[q].m_fd = n
      BY <1>2, <1>6, <2>1, <3>1 DEF IInv, Known
    <3>3. HasFd(p)' /\ ~Idle(p)'
      BY <1>6, <2>1 DEF HasFd, Idle
    <3> QED
      BY <1>2, <1>6, <2>1, <3>2, <3>3 DEF IInv, Known, Idle, HasFd
  <2>4. Restores'
    BY <1>2, <1>3, <1>6, <2>1 DEF IInv, Restores, Holds, Idle, HasFd, Originals
  <2>5. WorksAsAsked' /\ Asking'
    BY <1>2, <1>6, <2>1 DEF IInv, WorksAsAsked, Asking, Idle, HasFd
  <2>6. Answers'
    BY <1>2, <1>4, <1>6, <1>5, <2>1, AnswersKept
  <2> QED
    BY <2>2, <2>3, <2>4, <2>5, <2>6 DEF Safe
<1> QED
  BY <1>7, <1>8

LEMMA SetUpKeeps ==
  ASSUME Careless = {}, IInv, NEW p \in Ports, SetUp(p)
  PROVE  Safe'
<1>1. /\ Becomes(p, "idle", port[p].asking, port[p].m_fd,
                  set(reset_error(port[p].m_status), {"opened"}), port'[p].m_save)
      /\ port'[p].m_save = device
      /\ device'.raw /\ Means(device') = port[p].m_property
  BY SetUpEffect DEF IInv, Typed
<1>2. /\ port[p].step = "setup" /\ HasFd(p) /\ UNCHANGED <<descriptors, first, inherited>>
      /\ asked' = [asked EXCEPT ![p] = port[p].m_property] /\ asked \in [Ports -> Conditions]
  BY DEF SetUp, IInv, Typed, TypeOK, Held, origin
<1>3. port[p].asking = {} /\ \A q \in Ports \ {p} : Detached(q) /\ ~HasFd(q) /\ ~Holds(q)
  BY <1>2, OthersDetached DEF IInv, Asking, Idle, Detached
<1>4. /\ port'[p].step = "idle" /\ port'[p].asking = {} /\ port'[p].m_fd = port[p].m_fd
      /\ port'[p].m_save = device
      /\ port'[p].m_status = set(reset_error(port[p].m_status), {"opened"})
      /\ \A q \in Ports \ {p} : port'[q] = port[q]
  BY <1>1, <1>3 DEF Becomes
<1>5. /\ "opened" \in port'[p].m_status /\ "failure" \notin port'[p].m_status
      /\ "ready_read" \in port'[p].m_status <=> "ready_read" \in port[p].m_status
      /\ "ready_write" \in port'[p].m_status <=> "ready_write" \in port[p].m_status
  BY <1>4 DEF set, reset_error, reset
<1>6. Single'
  BY <1>3, <1>4 DEF Single, Detached
<1>7. Known'
  BY <1>2, <1>4, <1>5 DEF IInv, Known, Idle, HasFd
<1>8. Restores'
  <2>1. ~Holds(p) /\ device \in Originals
    BY <1>2, <1>3 DEF IInv, Restores, Holds, Idle
  <2>2. Holds(p)' /\ Originals' = Originals
    BY <1>2, <1>4 DEF Holds, Idle, HasFd, Originals
  <2>3. \A q \in Ports \ {p} : ~Holds(q)'
    BY <1>3, <1>4 DEF Holds, Idle, HasFd
  <2> QED
    BY <1>4, <2>1, <2>2, <2>3 DEF Restores
<1>9. WorksAsAsked'
  <2>1. asked'[p] = port[p].m_property
    BY <1>2
  <2>2. \A q \in Ports \ {p} : ~HasFd(q)'
    BY <1>3, <1>4 DEF HasFd
  <2> QED
    BY <1>1, <2>1, <2>2 DEF WorksAsAsked
<1>10. Asking'
  BY <1>4 DEF IInv, Asking, Idle, HasFd
<1>11. Answers'
  <2>1. /\ ready' = [ready EXCEPT ![p] = NotReady] /\ failed' = [failed EXCEPT ![p] = FALSE]
        /\ ready \in [Ports -> [Directions -> BOOLEAN]] /\ failed \in [Ports -> BOOLEAN]
    BY DEF SetUp, IInv, Typed, TypeOK
  <2>2. ~ready'[p]["in"] /\ ~ready'[p]["out"] /\ ~failed'[p]
    BY <2>1 DEF NotReady, Directions
  <2>3. \A q \in Ports \ {p} : ready'[q] = ready[q] /\ failed'[q] = failed[q]
    BY <2>1
  <2>4. "ready_read" \notin port[p].m_status /\ "ready_write" \notin port[p].m_status
    BY <1>2 DEF IInv, Answers, Idle
  <2> QED
    BY <1>4, <1>5, <2>2, <2>3, <2>4, AnswersKept
<1> QED
  BY <1>6, <1>7, <1>8, <1>9, <1>10, <1>11 DEF Safe

LEMMA restoreTermiosKeeps ==
  ASSUME Careless = {}, IInv, NEW p \in Ports, restoreTermios(p)
  PROVE  Safe'
<1>1. Becomes(p, "closing", port[p].asking, port[p].m_fd, port[p].m_status,
              Released(port[p].m_save))
  BY restoreTermiosEffect DEF IInv, Typed
<1>2. /\ port[p].step = "restoring" /\ UNCHANGED <<descriptors, histories, first, inherited>>
      /\ device' = Released(port[p].m_save)
  BY DEF restoreTermios, origin, Put, Careful
<1>3. port[p].asking = {} /\ \A q \in Ports \ {p} : Detached(q) /\ ~HasFd(q) /\ ~Holds(q)
  BY <1>2, OthersDetached DEF IInv, Asking, Idle, Detached
<1>4. /\ port'[p].step = "closing" /\ port'[p].asking = {} /\ port'[p].m_fd = port[p].m_fd
      /\ port'[p].m_status = port[p].m_status
      /\ \A q \in Ports \ {p} : port'[q] = port[q]
  BY <1>1, <1>3 DEF Becomes
<1>5. Single'
  BY <1>3, <1>4 DEF Single, Detached
<1>6. Known'
  BY <1>2, <1>4 DEF IInv, Known, Idle, HasFd
<1>7. Restores'
  <2>1. port[p].m_save \in Originals
    BY <1>2 DEF IInv, Restores, Holds
  <2>2. first \in Settings
    BY DEF IInv, Typed, TypeOK
  <2>3. device' \in Originals'
    BY <1>2, <2>1, <2>2, ReleasedFacts DEF Originals
  <2>4. \A q \in Ports : ~Holds(q)'
    BY <1>3, <1>4 DEF Holds, Idle, HasFd
  <2> QED
    BY <2>3, <2>4 DEF Restores
<1>8. WorksAsAsked'
  BY <1>3, <1>4 DEF WorksAsAsked, Idle, HasFd
<1>9. Asking' /\ Answers'
  BY <1>2, <1>4 DEF IInv, Asking, Answers, Idle, HasFd, histories
<1> QED
  BY <1>5, <1>6, <1>7, <1>8, <1>9 DEF Safe

LEMMA CloseKeeps ==
  ASSUME IInv, NEW p \in Ports, Close(p)
  PROVE  Safe'
<1>1. /\ port[p].step = "closing" /\ HasFd(p) /\ UNCHANGED <<device, histories, first, inherited>>
      /\ descriptors' = descriptors \ {port[p].m_fd}
  BY DEF Close, IInv, Typed, Held, origin
<1>2. port[p].asking = {} /\ \A q \in Ports \ {p} : Detached(q) /\ ~HasFd(q) /\ ~Holds(q)
  BY <1>1, OthersDetached DEF IInv, Asking, Idle, Detached
<1>3. /\ port'[p].step \in {"none", "idle", "opening"}
      /\ port'[p].asking = {} /\ port'[p].m_fd = VoidFd
      /\ port'[p].step = "none" \/ port'[p].m_status = port[p].m_status
      /\ \A q \in Ports \ {p} : port'[q] = port[q]
  BY <1>2, CloseEffect DEF IInv, Typed, Becomes
<1>4. ~HasFd(p)' /\ ~Holds(p)' /\ ~Holds(p)
  BY <1>1, <1>3 DEF HasFd, Holds, Idle, VoidFd
<1>5. Single'
  BY <1>2, <1>3 DEF Single, Detached
<1>6. Known'
  <2>1. StandardFds \subseteq descriptors'
    BY <1>1 DEF IInv, Known, HasFd, StandardFds
  <2>2. \A n \in descriptors' \ inherited' : \E q \in Ports : port'[q].m_fd = n
    BY <1>1, <1>3 DEF IInv, Known
  <2> QED
    BY <1>1, <1>3, <1>4, <2>1, <2>2 DEF IInv, Known, Idle, HasFd
<1>7. Restores'
  BY <1>1, <1>2, <1>3, <1>4 DEF IInv, Restores, Holds, Idle, HasFd, Originals
<1>8. WorksAsAsked' /\ Asking'
  BY <1>1, <1>3, <1>4 DEF IInv, WorksAsAsked, Asking, Idle, HasFd, histories
<1>9. Answers'
  BY <1>1, <1>3 DEF IInv, Answers, Idle, HasFd, histories
<1> QED
  BY <1>5, <1>6, <1>7, <1>8, <1>9 DEF Safe

LEMMA ResetErrorKeeps ==
  ASSUME IInv, NEW p \in Ports, ResetError(p)
  PROVE  Safe'
<1>1. Becomes(p, port[p].step, port[p].asking, port[p].m_fd, reset_error(port[p].m_status),
              port[p].m_save)
  BY ResetErrorEffect DEF IInv, Typed, ResetError, Idle
<1>2. /\ UNCHANGED <<device, descriptors, asked, origin, ready>>
      /\ failed' = [failed EXCEPT ![p] = FALSE] /\ failed \in [Ports -> BOOLEAN]
  BY DEF ResetError, IInv, Typed, TypeOK
<1>3. /\ "failure" \notin reset_error(port[p].m_status)
      /\ \A bit \in {"opened", "ready_read", "ready_write"} :
            bit \in reset_error(port[p].m_status) <=> bit \in port[p].m_status
  BY DEF reset_error, reset
<1>4. Single' /\ Known' /\ Restores' /\ WorksAsAsked'
  BY <1>1, <1>2, <1>3, Stays
<1>5. /\ port'[p].step = port[p].step /\ port'[p].m_fd = port[p].m_fd
      /\ port'[p].asking = port[p].asking /\ port'[p].m_status = reset_error(port[p].m_status)
      /\ \A q \in Ports \ {p} : port'[q] = port[q] /\ failed'[q] = failed[q]
      /\ ~failed'[p]
  BY <1>1, <1>2 DEF Becomes
<1>6. Asking' /\ Answers'
  BY <1>2, <1>3, <1>5 DEF IInv, Asking, Answers, Idle, HasFd
<1> QED
  BY <1>4, <1>6 DEF Safe

LEMMA AskKeeps ==
  ASSUME Careless = {}, IInv, NEW p \in Ports, NEW d \in Directions, Ask(p, d)
  PROVE  Safe'
<1>1. Becomes(p, port[p].step, port[p].asking \cup {d}, port[p].m_fd, port[p].m_status,
              port[p].m_save)
  BY AskEffect DEF IInv, Typed
<1>2. /\ UNCHANGED <<device, descriptors, histories, origin>>
      /\ Idle(p) /\ HasFd(p) /\ d \in {"in", "out"}
  BY DEF Ask, MayAsk, Careful, Directions, IInv, Known
<1>3. Single' /\ Known' /\ Restores' /\ WorksAsAsked'
  BY <1>1, <1>2, Stays DEF histories
<1>4. /\ port'[p].step = port[p].step /\ port'[p].m_fd = port[p].m_fd
      /\ port'[p].asking = port[p].asking \cup {d} /\ port'[p].m_status = port[p].m_status
      /\ \A q \in Ports \ {p} : port'[q] = port[q]
  BY <1>1 DEF Becomes
<1>5. Asking'
  BY <1>2, <1>4 DEF IInv, Asking, Idle, HasFd
<1>6. Answers'
  BY <1>2, <1>4 DEF IInv, Answers, Idle, HasFd, histories
<1> QED
  BY <1>3, <1>5, <1>6 DEF Safe

LEMMA AnswerKeeps ==
  ASSUME IInv, NEW p \in Ports, NEW d \in Directions, Answer(p, d)
  PROVE  Safe'
<1>1. PICK outcome \in Outcomes :
          /\ Becomes(p, port[p].step, port[p].asking \ {d}, port[p].m_fd,
                     Answered(port[p].m_status, d, outcome), port[p].m_save)
          /\ ready' = [ready EXCEPT ![p][d] = (outcome = "ready")]
          /\ failed' = [failed EXCEPT ![p] = failed[p] \/ outcome = "error"]
  BY AnswerEffect DEF IInv, Typed
<1>2. /\ UNCHANGED <<device, descriptors, asked, origin>>
      /\ Idle(p) /\ HasFd(p) /\ d \in {"in", "out"}
  BY DEF Answer, IInv, Asking
<1> DEFINE status == Answered(port[p].m_status, d, outcome)
<1>3. /\ "opened" \in status <=> "opened" \in port[p].m_status
      /\ "failure" \in status <=> ("failure" \in port[p].m_status \/ outcome = "error")
      /\ "ready_read" \in status <=>
            IF d = "in" THEN outcome = "ready" ELSE "ready_read" \in port[p].m_status
      /\ "ready_write" \in status <=>
            IF d = "out" THEN outcome = "ready" ELSE "ready_write" \in port[p].m_status
  BY <1>2 DEF Answered, ReadyBit, Outcomes, set_reset, set, reset
<1> HIDE DEF status
<1>4. Single' /\ Known' /\ Restores' /\ WorksAsAsked'
  BY <1>1, <1>2, <1>3, Stays DEF status
<1>5. /\ port'[p].step = port[p].step /\ port'[p].m_fd = port[p].m_fd
      /\ port'[p].asking = port[p].asking \ {d} /\ port'[p].m_status = status
      /\ \A q \in Ports \ {p} : port'[q] = port[q]
  BY <1>1 DEF Becomes, status
<1>6. Asking'
  BY <1>2, <1>5 DEF IInv, Asking, Idle, HasFd
<1>7. Answers'
  <2>1. ready \in [Ports -> [Directions -> BOOLEAN]] /\ failed \in [Ports -> BOOLEAN]
    BY DEF IInv, Typed, TypeOK
  <2>2. /\ ready'[p]["in"] = IF d = "in" THEN outcome = "ready" ELSE ready[p]["in"]
        /\ ready'[p]["out"] = IF d = "out" THEN outcome = "ready" ELSE ready[p]["out"]
        /\ failed'[p] = (failed[p] \/ outcome = "error")
    BY <1>1, <2>1 DEF Directions
  <2>3. \A q \in Ports \ {p} : ready'[q] = ready[q] /\ failed'[q] = failed[q]
    BY <1>1, <2>1
  <2> QED
    <3>1. /\ "failure" \in port[p].m_status <=> failed[p]
          /\ "ready_read" \in port[p].m_status <=> ready[p]["in"]
          /\ "ready_write" \in port[p].m_status <=> ready[p]["out"]
      BY <1>2 DEF IInv, Answers, Idle
    <3>2. /\ "failure" \in port'[p].m_status <=> failed'[p]
          /\ "ready_read" \in port'[p].m_status <=> ready'[p]["in"]
          /\ "ready_write" \in port'[p].m_status <=> ready'[p]["out"]
      BY <1>3, <1>5, <2>2, <3>1
    <3>3. Idle(p)' /\ HasFd(p)'
      BY <1>2, <1>5 DEF Idle, HasFd
    <3> QED
      BY <1>5, <2>3, <3>2, <3>3, AnswersKept
<1> QED
  BY <1>4, <1>6, <1>7 DEF Safe

LEMMA CrashKeeps ==
  ASSUME IInv, Crash
  PROVE  Safe'
<1>1. \A p \in Ports : port'[p] = Absent
  BY DEF Crash
<1>2. \A p \in Ports : ~Idle(p)' /\ ~HasFd(p)' /\ Detached(p)' /\ ~Holds(p)'
  BY <1>1, AbsentFacts DEF Idle, HasFd, Detached, Holds, VoidFd
<1>3. descriptors' = StandardFds /\ inherited' = StandardFds /\ device' = device /\ first' = device
  BY DEF Crash
<1>4. Single' /\ WorksAsAsked'
  BY <1>2 DEF Single, WorksAsAsked
<1>5. Restores'
  BY <1>2, <1>3 DEF Restores, Originals
<1>6. Known'
  BY <1>1, <1>2, <1>3, AbsentFacts DEF Known
<1>7. Asking' /\ Answers'
  BY <1>1, AbsentFacts DEF Crash, Asking, Answers, NotReady, Directions
<1> QED
  BY <1>4, <1>5, <1>6, <1>7 DEF Safe

THEOREM Invariance == Careless = {} /\ Spec => []IInv
<1> SUFFICES ASSUME Careless = {} PROVE Spec => []IInv
  OBVIOUS
<1>1. Init => IInv
  BY InitIInv
<1>2. IInv /\ [Next]_vars => IInv'
  <2> SUFFICES ASSUME IInv, [Next]_vars PROVE IInv'
    OBVIOUS
  <2>1. Typed'
    BY NextTyped DEF IInv
  <2>2. CASE UNCHANGED vars
    BY <2>1, <2>2 DEF vars, IInv, Single, Detached, Known, Restores, Holds, Originals, WorksAsAsked,
                      Asking, Answers, Idle, HasFd
  <2>3. ASSUME NEW p \in Ports, Call(p) PROVE Safe'
    <3>1. ASSUME Disconnect(p) PROVE Safe'
      <4>1. /\ Idle(p) /\ HasFd(p) /\ port[p].asking = {} /\ "return" \in Sequels
            /\ disconnect(p, "return")
        BY <3>1 DEF Disconnect, Unasked, Careful, Sequels
      <4> QED
        BY <4>1, disconnectKeeps DEF Safe
    <3>2. ASSUME NEW d \in Directions, Ask(p, d) \/ Answer(p, d) PROVE Safe'
      BY <3>2, AskKeeps, AnswerKeeps
    <3>3. ASSUME Construct(p) \/ Change(p) \/ Destroy(p) \/ Connect(p) PROVE Safe'
      BY <3>3, ConstructKeeps, ChangeKeeps, DestroyKeeps, ConnectKeeps
    <3>4. ASSUME Open(p) \/ SetUp(p) \/ restoreTermios(p) PROVE Safe'
      BY <3>4, OpenKeeps, SetUpKeeps, restoreTermiosKeeps
    <3>5. ASSUME Close(p) \/ ResetError(p) PROVE Safe'
      BY <3>5, CloseKeeps, ResetErrorKeeps
    <3> QED
      BY <2>3, <3>1, <3>2, <3>3, <3>4, <3>5 DEF Call
  <2>4. CASE Crash
    BY <2>1, <2>4, CrashKeeps DEF Safe, IInv
  <2> QED
    BY <2>1, <2>2, <2>3, <2>4 DEF Next, Safe, IInv
<1> QED
  BY <1>1, <1>2, PTL DEF Spec

(* A port says opened exactly while it has a descriptor of its own, and     *)
(* every descriptor that was opened is some port's, over any number of      *)
(* connects, failures and destructions.                                     *)
THEOREM DescriptorsAreOwned == Careless = {} /\ Spec => []OpenedHasFd
<1>1. IInv => OpenedHasFd
  <2> SUFFICES ASSUME IInv PROVE OpenedHasFd
    OBVIOUS
  <2>1. \A p \in Ports : is_set(port[p].m_status, {"opened"}) <=> "opened" \in port[p].m_status
    BY OpenedBit DEF IInv, Typed
  <2> QED
    BY <2>1 DEF IInv, Typed, Held, Known, OpenedHasFd, Idle
<1> QED
  BY <1>1, Invariance, PTL

(* Whenever no port holds the device it has the settings that the process   *)
(* found, HUPCL aside, also after an earlier process left them behind.      *)
THEOREM SettingsAreRestored == Careless = {} /\ Spec => []SettingsPutBack
<1>1. IInv => SettingsPutBack
  <2> SUFFICES ASSUME IInv, \A p \in Ports : Detached(p) PROVE device \in Originals
    BY DEF SettingsPutBack, Originals
  <2>1. \A p \in Ports : ~Holds(p)
    BY DEF Detached, Holds, Idle, HasFd, VoidFd
  <2> QED
    BY <2>1 DEF IInv, Restores
<1> QED
  BY <1>1, Invariance, PTL

(* A connected device works as the conditions of its connect say.           *)
THEOREM ConnectedWorks == Careless = {} /\ Spec => []WorksAsAsked
<1>1. IInv => WorksAsAsked
  BY DEF IInv
<1> QED
  BY <1>1, Invariance, PTL

(* The bits of the status show what isReady answered last.                  *)
THEOREM StatusIsRight == Careless = {} /\ Spec => []BitsShowAnswers
<1>1. IInv => BitsShowAnswers
  BY DEF IInv, Answers, BitsShowAnswers, Idle, ReadyBit, is_set
<1> QED
  BY <1>1, Invariance, PTL
=============================================================================
