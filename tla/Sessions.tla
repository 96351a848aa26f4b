------------------------------ MODULE Sessions ------------------------------
(* The sessions of /mcp (src/sag/server.py): the gateway keeps none, an id    *)
(* says which boot issued it.  What it keeps are the old ids that it has      *)
(* answered 404 to, once each, and whether the hint has been shown.           *)
EXTENDS Naturals, FiniteSets

CONSTANTS
    Clients,
    Boots,      \* bound on the restarts of the gateway
    StaleMax,   \* _STALE_SEEN_MAX
    Owed,       \* bound on the 404s of an id that no hint has followed
    NoSid       \* a request without Mcp-Session-Id

ASSUME SessionsAssumption ==
    /\ Boots \in Nat /\ {StaleMax, Owed} \subseteq Nat \ {0}
    /\ NoSid \notin (0 .. Boots) \X Clients

VARIABLES
    boot,       \* BOOT_ID
    table,      \* _STALE_SEEN: an id is absent, rejected (False) or hinted (True)
    rejected,   \* history: the ids answered 404 since the table was last empty
    unhinted    \* history: 404s of an id less the hints it was shown

sessions == <<boot, table, rejected, unhinted>>

Sids == (0 .. Boots) \X Clients
NewSid(c) == <<boot, c>>
Present == {s \in Sids : table[s] # "absent"}
Empty == [s \in Sids |-> "absent"]

Fresh ==
    /\ table = Empty
    /\ rejected = {}
    /\ unhinted = [s \in Sids |-> 0]

(* The process is started again.                                              *)
Reboot ==
    /\ boot < Boots
    /\ boot' = boot + 1
    /\ table' = Empty
    /\ rejected' = {}
    /\ unhinted' = [s \in Sids |-> 0]

Stale(s) == s # NoSid /\ s[1] # boot

(* _stale_session_action: what it answers, and what it leaves in the table.   *)
Verdict(s) ==
    CASE ~Stale(s) -> "ok"
      [] Stale(s) /\ table[s] = "absent" -> "reject"
      [] Stale(s) /\ table[s] = "rejected" -> "hint"
      [] Stale(s) /\ table[s] = "hinted" -> "allow"

Full == Cardinality(Present) >= StaleMax

(* An id enters the table, which is emptied first when it is full.            *)
Noted(s) == [(IF Full THEN Empty ELSE table) EXCEPT ![s] = "rejected"]

(* The 404, the first time an old id is seen ...                              *)
Reject(s) ==
    /\ Verdict(s) = "reject" /\ unhinted[s] < Owed
    /\ table' = Noted(s)
    /\ rejected' = IF Full THEN {s} ELSE rejected \cup {s}
    /\ unhinted' = [unhinted EXCEPT ![s] = @ + 1]
    /\ UNCHANGED boot

(* Mutant: the hint is not taken.                                             *)
AdmitAgain(s) ==
    /\ Verdict(s) # "reject"
    /\ UNCHANGED sessions

(* ... and later, when the first request let through takes the hint.          *)
Admit(s) ==
    /\ Verdict(s) # "reject"
    /\ table' = IF Verdict(s) = "hint" THEN [table EXCEPT ![s] = "hinted"] ELSE table
    /\ UNCHANGED <<boot, rejected, unhinted>>

(* The hint is on a tool's result ...                                         *)
Hinted(s) ==
    /\ unhinted' = [unhinted EXCEPT ![s] = @ - 1]
    /\ UNCHANGED <<boot, table, rejected>>

(* Mutant: the id is dropped from the table.                                  *)
HintForgets(s) ==
    /\ table' = [table EXCEPT ![s] = "absent"]
    /\ UNCHANGED <<boot, rejected, unhinted>>

(* Mutant: the hint is not given back.                                        *)
HintDropped(s) == UNCHANGED sessions

(* ... or there is none that it could be on, and the next request carries it. *)
HintBack(s) ==
    /\ table' = [table EXCEPT ![s] = "rejected"]
    /\ UNCHANGED <<boot, rejected, unhinted>>

SessionsType ==
    /\ boot \in 0 .. Boots
    /\ table \in [Sids -> {"absent", "rejected", "hinted"}]
    /\ rejected \subseteq Sids
    /\ unhinted \in [Sids -> Nat]
=============================================================================
