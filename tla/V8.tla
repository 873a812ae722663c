--------------------------------- MODULE V8 ---------------------------------
(* V.8 (nf_v8.c) at both ends: the answerer's modulated answer tone ANSam,   *)
(* the caller's CM, the answerer's JM, the caller's CJ, and every timeout    *)
(* and short cut to a call without V.8.                                      *)
EXTENDS FaxLine

CONSTANTS
  CallerMods, AnswererMods   \* sets of modulations an end may offer

VARIABLES
  our_modulations,
  v8,            \* state of the engine; "OFF" when T.30 did not start it
  modulations,   \* result: the common modulations, once known
  v8_status      \* what it reported, "" before

v8Vars == <<our_modulations, v8, modulations, v8_status>>

Modulations == UNION (CallerMods \cup AnswererMods)

(* The three octets of the modulation category; the second and the third     *)
(* follow only when something in them, or after them, is set.                *)
Octet ==
  <<{"V34HDX", "V34", "V90"}, {"V27TER", "V29", "V17", "V22", "V32"},
    {"V21", "V23HDX", "V23", "V26BIS", "V26TER"}>>

(* What an end offers is among the modulations V.8 has a bit for.            *)
ASSUME V8Assumption == Modulations \subseteq UNION Range(Octet)

build_modulation_octets(mod) ==
  LET used == {1} \cup {i \in 1..3 : mod \cap Octet[i] # {}}
      last == CHOOSE i \in used : \A j \in used : j <= i
  IN  [i \in 1..last |-> mod \cap Octet[i]]

parse_modulation(octets) == UNION Range(octets)

nf_v8_init(s, mods) ==
  [state |-> IF mods = {} THEN "OFF" ELSE IF s = "C" THEN "CI" ELSE "ANSAM", mods |-> mods]

V8Init ==
  /\ our_modulations \in [Sides -> CallerMods \cup AnswererMods \cup {{}}]
  /\ our_modulations["C"] \in CallerMods \cup {{}}
  /\ our_modulations["A"] \in AnswererMods \cup {{}}
  /\ v8 = [s \in Sides |-> nf_v8_init(s, our_modulations[s]).state]
  /\ modulations = [s \in Sides |-> {}]
  /\ v8_status = [s \in Sides |-> ""]

(* nf_v8_tx: what the state transmits. The pauses between CI bursts matter   *)
(* to nobody.                                                                *)
nf_v8_tx(s) ==
  CASE v8[s] = "CI" -> Signal("CI")
    [] v8[s] = "CM" -> Message("CM", build_modulation_octets(our_modulations[s]))
    [] v8[s] = "CJ" -> Signal("CJ")
    [] v8[s] = "ANSAM" -> Signal("ANSAM")
    [] v8[s] = "JM" -> Message("JM", build_modulation_octets(modulations[s]))
    [] OTHER -> Silence

Heard(s) == arriving[Peer(s)]

goto(s, state) ==
  v8' = [v8 EXCEPT ![s] = state] /\ UNCHANGED <<our_modulations, v8_status>>

report(s, status) ==
  /\ v8_status' = [v8_status EXCEPT ![s] = status]
  /\ v8' = [v8 EXCEPT ![s] = "DONE"]
  /\ UNCHANGED <<our_modulations, modulations>>

(* ST_CALL_CI: an answer tone. Its modulation is judged on half a second of  *)
(* envelope and may be misjudged; a plain tone means a call without V.8.     *)
HearAnswerTone ==
  /\ v8["C"] = "CI" /\ Heard("C").sig \in {"ANSAM", "CED"}
  /\ \/ goto("C", "TE") /\ UNCHANGED modulations
     \/ report("C", "NON_V8_CALL")

(* ST_CALL_CI and ST_CALL_CM: HDLC flags, the answerer is sending its DIS.   *)
HearFlags ==
  /\ v8["C"] \in {"CI", "CM"} /\ Heard("C").sig = "DIS"
  /\ report("C", "NON_V8_CALL")

(* ST_CALL_TE: silence before CM.                                            *)
TeElapsed == v8["C"] = "TE" /\ goto("C", "CM") /\ UNCHANGED modulations

(* What a CM or JM, heard twice alike, yields.                               *)
Common(s) == parse_modulation(Heard(s).octets) \cap our_modulations[s]

HearJM ==
  /\ v8["C"] = "CM" /\ Heard("C").sig = "JM"
  /\ modulations' = [modulations EXCEPT !["C"] = Common("C")]
  /\ goto("C", "CJ")

(* ST_CALL_CJ: the one CJ has been played.                                   *)
CjPlayed == v8["C"] = "CJ" /\ report("C", "V8_CALL")

Dev_HearCM ==
  /\ v8["A"] = "ANSAM" /\ Heard("A").sig = "CM"
  /\ modulations' = [modulations EXCEPT !["A"] = our_modulations["A"]]
  /\ goto("A", "JM")

HearCM ==
  /\ v8["A"] = "ANSAM" /\ Heard("A").sig = "CM"
  /\ modulations' = [modulations EXCEPT !["A"] = Common("A")]
  /\ goto("A", "JM")

HearCJ == v8["A"] = "JM" /\ Heard("A").sig = "CJ" /\ report("A", "V8_CALL")

(* The timers: 10 s for an answer tone, 5 s for JM, 6 s for CM, 4 s for CJ.  *)
V8Timeout(s) ==
  \/ v8[s] \in {"CI", "ANSAM"} /\ report(s, "NON_V8_CALL")
  \/ v8[s] \in {"CM", "JM"} /\ report(s, "FAILED")

nf_v8_rx ==
  /\ \/ HearAnswerTone \/ HearFlags \/ TeElapsed \/ HearJM \/ CjPlayed
     \/ HearCM \/ HearCJ \/ \E s \in Sides : V8Timeout(s)
  /\ UNCHANGED arriving

(* The end that reports in this step.                                        *)
Reports(s) == v8_status[s] = "" /\ v8_status'[s] # ""

V8TypeOK ==
  /\ our_modulations \in [Sides -> SUBSET Modulations]
  /\ v8 \in [Sides -> {"OFF", "CI", "TE", "CM", "CJ", "ANSAM", "JM", "DONE"}]
  /\ modulations \in [Sides -> SUBSET Modulations]
  /\ v8_status \in [Sides -> {"", "V8_CALL", "NON_V8_CALL", "FAILED"}]

(* An answerer that reports a V.8 call (it heard CJ) faces a caller that     *)
(* reports one or is about to, and both hold the same modulations: those     *)
(* both offer. The converse is false: CJ is sent once.                       *)
V8Agreed ==
  v8_status["A"] = "V8_CALL" =>
    /\ v8_status["C"] = "V8_CALL" \/ v8["C"] = "CJ"
    /\ modulations["A"] = modulations["C"]
    /\ modulations["A"] = our_modulations["A"] \cap our_modulations["C"]
==============================================================================
