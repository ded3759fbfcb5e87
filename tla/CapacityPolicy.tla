--------------------------- MODULE CapacityPolicy ---------------------------
(***************************************************************************)
(* The merchant's capacity policy, asked before a link and told after it,  *)
(* and the budget pacer it feeds.  Counters live in the cache with a time  *)
(* to live that every write renews.  A caller evaluates, creates the link  *)
(* and records; with one caller at a time the limits hold, and nothing in  *)
(* the policy itself reserves what it grants.                              *)
(***************************************************************************)
EXTENDS Integers, Sequences, FiniteSets

CONSTANTS
  Caller, Customer,
  perHour, perDay, perCustomer,   \* max_links_per_...
  HOUR, DAY,                      \* the times to live
  budget, cost,                   \* monthly_budget_paise, operationalCostPaise
  MaxHour                         \* bound

CapacityPolicyAssumption ==
  /\ {perHour, perDay, perCustomer, HOUR, budget, cost, MaxHour} \subseteq Nat
  /\ DAY \in Nat \ {0} /\ IsFiniteSet(Caller)
  /\ Customer \cap {"hourly", "daily", "budget"} = {}   \* the keys of the cache differ

VARIABLES
  hour,
  consumption,  \* the cache: per key, value and expiresAt
  caller,     \* per caller: "idle", "granted" or "linked", and the customer
  links,      \* links created: customer and time
  pacing      \* window, arm, spent and updates of the pacer; arm statistics

vars == <<hour, consumption, caller, links, pacing>>

Keys == {"hourly", "daily", "budget"} \cup Customer
Arms == <<"CONSERVATIVE", "NEUTRAL", "AGGRESSIVE">>
PacingArm == {"CONSERVATIVE", "NEUTRAL", "AGGRESSIVE"}
PacingWindow == {"NIGHT_QUIET", "MORNING_PEAK", "AFTERNOON_TROUGH", "EVENING_SURGE"}

TypeOK ==
  /\ hour \in 0..MaxHour
  /\ consumption \in [Keys -> [value : Nat, expiresAt : Nat]]
  /\ \A c \in Caller : caller[c].at \in {"idle", "granted", "linked"} /\ caller[c].customer \in Customer
  /\ links \in Seq([customer : Customer, at : Nat])
  /\ pacing.window \in PacingWindow /\ pacing.arm \in PacingArm /\ pacing.spent \in Nat
  /\ pacing.pulls \in [PacingArm -> Nat]

-----------------------------------------------------------------------------
(* The cache: get with expiry, set with a time to live.                    *)

get(k) == IF hour > consumption[k].expiresAt THEN 0 ELSE consumption[k].value

\* Mutant: every counter lives an hour.
setForAnHour(k, v, ttl) == [value |-> v, expiresAt |-> hour + HOUR]

set(k, v, ttl) == [value |-> v, expiresAt |-> hour + ttl]

-----------------------------------------------------------------------------

evaluateCapacity(customer) ==
  /\ get(customer) < perCustomer
  /\ get("hourly") < perHour
  /\ get("daily") < perDay
  /\ get("budget") + cost <= budget

recordConsumption(customer) ==
  consumption' = [consumption EXCEPT ![customer] = set(customer, get(customer) + 1, DAY),
                             !["hourly"] = set("hourly", get("hourly") + 1, HOUR),
                             !["daily"] = set("daily", get("daily") + 1, DAY),
                             !["budget"] = set("budget", get("budget") + cost, 30 * DAY)]

getTimeWindow ==
  LET quarter == ((hour % DAY) * 4) \div DAY
  IN  CASE quarter = 0 -> "NIGHT_QUIET" [] quarter = 1 -> "MORNING_PEAK"
        [] quarter = 2 -> "AFTERNOON_TROUGH" [] OTHER -> "EVENING_SURGE"

Pulls == pacing.pulls["CONSERVATIVE"] + pacing.pulls["NEUTRAL"] + pacing.pulls["AGGRESSIVE"]

\* The first three rounds take the arms in turn; then any arm may have the highest
\* upper confidence bound.
selectPacingArm(arm) == Pulls < 3 => arm = Arms[(Pulls % 3) + 1]

\* A new window chooses an arm; within a window the arm stands.
getPacingState(arm) ==
  IF pacing.window = getTimeWindow THEN pacing
  ELSE [pacing EXCEPT !.window = getTimeWindow, !.arm = arm]

\* The multiplier itself is a real number kept within fixed limits; what it follows
\* is the spend.  Nothing takes the day's spend back.
updateDualMultiplier(arm) == [getPacingState(arm) EXCEPT !.spent = @ + cost]

-----------------------------------------------------------------------------

evaluate(c, customer) ==
  /\ caller[c].at = "idle"
  /\ evaluateCapacity(customer)
  /\ caller' = [caller EXCEPT ![c] = [at |-> "granted", customer |-> customer]]
  /\ UNCHANGED <<hour, consumption, links, pacing>>

createLink(c) ==
  /\ caller[c].at = "granted"
  /\ caller' = [caller EXCEPT ![c].at = "linked"]
  /\ links' = Append(links, [customer |-> caller[c].customer, at |-> hour])
  /\ UNCHANGED <<hour, consumption, pacing>>

record(c) ==
  /\ caller[c].at = "linked"
  /\ caller' = [caller EXCEPT ![c].at = "idle"]
  /\ recordConsumption(caller[c].customer)
  /\ \E arm \in PacingArm : selectPacingArm(arm) /\ pacing' = updateDualMultiplier(arm)
  /\ UNCHANGED <<hour, links>>

recordPacingReward(arm) ==
  /\ Pulls < 3
  /\ pacing' = [pacing EXCEPT !.pulls[arm] = @ + 1]
  /\ UNCHANGED <<hour, consumption, caller, links>>

\* The market reports the pacer's state, which moves it to the current window.
reportPacing ==
  /\ pacing.window # getTimeWindow
  /\ \E arm \in PacingArm : selectPacingArm(arm) /\ pacing' = getPacingState(arm)
  /\ UNCHANGED <<hour, consumption, caller, links>>

Tick == hour < MaxHour /\ hour' = hour + 1 /\ UNCHANGED <<consumption, caller, links, pacing>>

Init ==
  /\ hour = 0 /\ consumption = [k \in Keys |-> [value |-> 0, expiresAt |-> 0]]
  /\ \E customer \in Customer : caller = [c \in Caller |-> [at |-> "idle", customer |-> customer]]
  /\ links = <<>>
  /\ pacing = [window |-> "NIGHT_QUIET", arm |-> "CONSERVATIVE", spent |-> 0,
               pulls |-> [a \in PacingArm |-> 0]]

Next ==
  \/ \E c \in Caller : \/ \E customer \in Customer : evaluate(c, customer)
                       \/ createLink(c) \/ record(c)
  \/ \E arm \in PacingArm : recordPacingReward(arm)
  \/ reportPacing
  \/ Tick

Spec == Init /\ [][Next]_vars

-----------------------------------------------------------------------------
(* Properties.                                                             *)

Sent(customers, from, ttl) ==
  Cardinality({i \in DOMAIN links : links[i].customer \in customers /\ links[i].at \in from..(from + ttl - 1)})

\* With one caller at a time no customer is sent more links, and the merchant
\* sends no more, than the policy allows in any hour or day, wherever it starts:
\* renewing a consumption's life with every link errs on the strict side.  The
\* pacer's spend is what was recorded.
LimitsHold ==
  Cardinality(Caller) = 1 =>
    /\ \A t \in 0..MaxHour :
         /\ \A u \in Customer : Sent({u}, t, DAY) <= perCustomer
         /\ Sent(Customer, t, HOUR) <= perHour /\ Sent(Customer, t, DAY) <= perDay
    /\ pacing.spent + (IF \E c \in Caller : caller[c].at = "linked" THEN cost ELSE 0) = Len(links) * cost
=============================================================================
