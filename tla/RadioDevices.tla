---------------------------- MODULE RadioDevices -----------------------------
(***************************************************************************)
(* RF433Manager: switches that obey 433 MHz codes, sent by the hub or by   *)
(* remote controls the hub overhears, and the states the hub believes them *)
(* to be in.  RCSwitch keeps one received code at a time, and an interrupt *)
(* may bring another one at any moment.  Nothing keeps two switches from   *)
(* using one code.                                                         *)
(***************************************************************************)
EXTENDS Naturals

CONSTANTS
  RadioDevice,
  Code,             \* the codes on the air, not 0
  CodesOf           \* the codes the endpoints of each device use

NoCode == 0

ASSUME RadioAssumption ==
  /\ NoCode \notin Code
  /\ CodesOf \in [RadioDevice -> SUBSET Code]

VARIABLES
  radio,            \* the device table, NoRadio if not initialised
  codeToDevice,     \* the device a received code is for, {} if none
  received,         \* the code RCSwitch holds, NoCode if none
  learningEnabled,
  learned,          \* the code the last learn callback was told
  handled,          \* the code loop() has handled and not reset, or NoCode
  lamp,             \* (environment) the switch: on, off or unknown
  contested         \* (history) codes two switches have shared

radioVars ==
  <<radio, codeToDevice, received, handled, learningEnabled, learned, lamp,
    contested>>

NoRadio == [code |-> NoCode]
NewRadio == [code |-> NoCode, offCode |-> NoCode, isToggle |-> FALSE,
             currentState |-> FALSE]
Radio == [code : Code \cup {NoCode}, offCode : Code \cup {NoCode},
          isToggle : BOOLEAN, currentState : BOOLEAN]
Switches == {d \in RadioDevice : radio[d] # NoRadio}

RadioTypeOK ==
  /\ radio \in [RadioDevice -> Radio \cup {NoRadio}]
  /\ codeToDevice \in [Code -> {{d} : d \in RadioDevice} \cup {{}}]
  /\ received \in Code \cup {NoCode}
  /\ learningEnabled \in BOOLEAN
  /\ learned \in Code \cup {NoCode}
  /\ handled \in Code \cup {NoCode}
  /\ lamp \in [RadioDevice -> {"on", "off", "unknown"}]
  /\ contested \subseteq Code

RadioInit ==
  /\ radio = [d \in RadioDevice |-> NoRadio]
  /\ codeToDevice = [c \in Code |-> {}]
  /\ received = NoCode
  /\ learningEnabled = FALSE
  /\ learned = NoCode
  /\ handled = NoCode
  /\ lamp = [d \in RadioDevice |-> "unknown"]
  /\ contested = {}

learning == <<learningEnabled, learned>>
------------------------------------------------------------------------------
Uses(switch) ==
  IF switch = NoRadio THEN {} ELSE {switch.code, switch.offCode} \ {NoCode}

(* What the switches make of a code on the air.  One that toggles is in a  *)
(* state nobody knows.                                                     *)
Hears(switch, was, code) ==
  IF switch = NoRadio \/ switch.isToggle THEN "unknown"
  ELSE IF code = switch.code THEN "on"
  ELSE IF code = switch.offCode THEN "off"
  ELSE was

(* RCSwitch holds a code nobody has looked at.  When it gives it up, the   *)
(* hub has missed what the switch heard.                                   *)
Unseen(d) == received \in Uses(radio[d]) /\ received # handled
Heard(d) == IF Unseen(d) THEN "unknown" ELSE lamp[d]

(* History: a code two switches use at one time, as long as one uses it.   *)
Used(c) == \E d \in RadioDevice : c \in Uses(radio[d])
Shared(c) ==
  \E d, e \in RadioDevice : d # e /\ c \in Uses(radio[d]) \cap Uses(radio[e])
Contest ==
  contested' = {c \in Code : Shared(c)' \/ (c \in contested /\ Used(c)')}

initializeRadio(d) ==
  /\ radio' = [radio EXCEPT ![d] = NewRadio]
  /\ lamp' = [lamp EXCEPT ![d] = "unknown"]
  /\ UNCHANGED <<codeToDevice, received, learning>>

removeRadio(d) ==
  /\ d \in Switches
  /\ codeToDevice' = [c \in Code |->
       IF c \in Uses(radio[d]) THEN {} ELSE codeToDevice[c]]
  /\ radio' = [radio EXCEPT ![d] = NoRadio]
  /\ lamp' = [lamp EXCEPT ![d] = "unknown"]
  /\ UNCHANGED <<received, learning>>

(* As if the old codes were taken out after the new ones were put in. *)
RemappedTooLate(d, on, off) ==
  [c \in Code |-> IF c \in Uses(radio[d]) THEN {}
                  ELSE IF c \in {on, off} THEN {d} ELSE codeToDevice[c]]

Remapped(d, on, off) ==
  [c \in Code |-> IF c \in {on, off} THEN {d}
                  ELSE IF c \in Uses(radio[d]) THEN {} ELSE codeToDevice[c]]

(* The codes come with the endpoint; new ones replace those of the device. *)
Recoded(d, on, off) ==
  IF radio[d].code # on \/ radio[d].offCode # off
  THEN [radio[d] EXCEPT !.code = on, !.offCode = off,
                        !.isToggle = off \in {NoCode, on}]
  ELSE radio[d]

TakeCodes(d, on, off) ==
  codeToDevice' = IF Recoded(d, on, off) # radio[d]
                  THEN Remapped(d, on, off) ELSE codeToDevice

(* Sending restarts the receiver. *)
writeRadio(d, on, off, target) ==
  /\ d \in Switches
  /\ TakeCodes(d, on, off)
  /\ radio' = [radio EXCEPT ![d] =
       [Recoded(d, on, off) EXCEPT !.currentState = target]]
  /\ received' = NoCode
  /\ LET sent == IF target \/ radio'[d].isToggle THEN on ELSE off
     IN  lamp' = [s \in RadioDevice |->
           Hears(radio'[s], Heard(s), sent)]
  /\ UNCHANGED learning

(* A value that is not BOOL is refused, after the codes were taken over. *)
writeNotBool(d, on, off) ==
  /\ d \in Switches
  /\ TakeCodes(d, on, off)
  /\ radio' = [radio EXCEPT ![d] = Recoded(d, on, off)]
  /\ lamp' = IF radio' = radio THEN lamp
                               ELSE [lamp EXCEPT ![d] = "unknown"]
  /\ UNCHANGED <<received, learning>>

(* The ON code is sent; nobody notes that the switch is on now. *)
testRadio(d, on) ==
  /\ d \in Switches
  /\ received' = NoCode
  /\ lamp' = [s \in RadioDevice |->
       IF on \in Uses(radio[s]) THEN "unknown" ELSE Heard(s)]
  /\ UNCHANGED <<radio, codeToDevice, learning>>
------------------------------------------------------------------------------
(* A remote control.  A code still held is overwritten. *)
Remote(code) ==
  /\ received' = code
  /\ lamp' = [s \in RadioDevice |->
       Hears(radio[s], Heard(s), code)]
  /\ UNCHANGED <<radio, codeToDevice, handled, learning>>

After(switch, code) ==
  IF switch.isToggle THEN [switch EXCEPT !.currentState = ~@]
  ELSE IF code = switch.code THEN [switch EXCEPT !.currentState = TRUE]
  ELSE IF code = switch.offCode THEN [switch EXCEPT !.currentState = FALSE]
  ELSE switch

(* The codes of switches change their state; others are learned. *)
handleReceivedCode ==
  /\ received # NoCode
  /\ handled' = received
  /\ LET device == codeToDevice[received] \cap Switches
     IN  /\ radio' = [d \in RadioDevice |->
              IF d \in device THEN After(radio[d], received) ELSE radio[d]]
         /\ learned' = IF device = {} /\ learningEnabled
                       THEN received ELSE learned
  /\ UNCHANGED <<codeToDevice, received, learningEnabled, lamp>>

(* The rest of loop(): a code that came meanwhile is given up as well. *)
resetAvailable ==
  /\ received' = NoCode /\ handled' = NoCode
  /\ lamp' = [s \in RadioDevice |-> Heard(s)]
  /\ UNCHANGED <<radio, codeToDevice, learning>>

enableLearningMode ==
  /\ learningEnabled' = TRUE
  /\ UNCHANGED <<radio, codeToDevice, received, learned, lamp>>

(* On command, or when its time is up at the end of a round. *)
disableLearningMode ==
  /\ learningEnabled
  /\ learningEnabled' = FALSE
  /\ UNCHANGED <<radio, codeToDevice, received, learned, lamp>>

(* A call of the manager, which is not made from within loop(). *)
RadioCall ==
  /\ handled = NoCode /\ UNCHANGED handled
  /\ \/ \E d \in RadioDevice :
          \/ initializeRadio(d) \/ removeRadio(d)
          \/ \E on \in CodesOf[d] :
               \/ testRadio(d, on)
               \/ \E off \in CodesOf[d] \cup {NoCode} :
                    \/ writeNotBool(d, on, off)
                    \/ \E target \in BOOLEAN : writeRadio(d, on, off, target)
     \/ enableLearningMode
     \/ disableLearningMode

RadioNext ==
  /\ \/ RadioCall
     \/ \E code \in Code : Remote(code)
     \/ handled = NoCode /\ handleReceivedCode
     \/ handled # NoCode /\ resetAvailable
  /\ Contest

RadioSpec == RadioInit /\ [][RadioNext]_radioVars
------------------------------------------------------------------------------
(* The codes a switch obeys are its own, and have been as long as it had   *)
(* them.                                                                   *)
OwnCodes(d) == Uses(radio[d]) \cap contested = {}

(* handleReceivedCode and writeEndpoint: the state readEndpoint reports of *)
(* a switch with a code for on and one for off is the state it is in,      *)
(* whether the hub or a remote control switched it, however its codes were *)
(* changed and whatever other switches share.  Left out: switches that     *)
(* toggle, one that shares a code or did since it has it, a code of its    *)
(* own the hub has missed or has yet to look at, and one switched on by    *)
(* testEndpoint.                                                           *)
ShowsTheSwitch ==
  \A d \in Switches :
    lamp[d] # "unknown" /\ ~Unseen(d) /\ OwnCodes(d) =>
      radio[d].currentState = (lamp[d] = "on")
==============================================================================
