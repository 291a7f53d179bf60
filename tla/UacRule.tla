------------------------------ MODULE UacRule ------------------------------
(***************************************************************************)
(* The choice of the stream parameters of the host audio class             *)
(* (uac_hw_rule.c): intervals of what is allowed are refined by rules      *)
(* until none changes, and then single values are picked, with a           *)
(* refinement after each.                                                  *)
(*                                                                         *)
(* Of the parameters, the rate, the size and the duration of a period, the *)
(* number of periods and the size of the buffer are modelled: the others   *)
(* go through the same rules, with 8 for the factor.                       *)
(***************************************************************************)
EXTENDS Integers, Sequences, FiniteSetsExt

CONSTANTS
    Asked,       \* intervals asked for, as functions from the parameters
    List,        \* rates of the hardware
    K,           \* units of time in a second: 1000000 in the code
    MaxInt       \* USB_UINT_MAX

VARIABLES
    asked,       \* what was asked for
    iv,          \* params->hw_info
    stamped,     \* parameters with a vstamp
    again,       \* a rule has changed something in this round
    pc           \* the next rule, and the parameters still to pick

ruleVars == <<asked, iv, stamped, again, pc>>

Params == {"rate", "size", "time", "periods", "buffer"}

Interval(min, max, integer) ==
    [min |-> min, max |-> max, openmin |-> FALSE, openmax |-> FALSE, integer |-> integer]
\* uac_pcm_hw_interval_checkempty
Empty(i) == i.min > i.max \/ (i.min = i.max /\ (i.openmin \/ i.openmax))
\* uac_pcm_hw_interval_single
Single(i) == i.min = i.max \/ (i.min + 1 = i.max /\ i.openmax)

\* Mutant of Refine: an end that is open in both is taken as closed.
RefineClosed(i, v) ==
    LET integer == i.integer \/ v.integer
        openmin == FALSE
        openmax == FALSE
    IN [min |-> Max({i.min, v.min}), max |-> Min({i.max, v.max}) - (IF v.openmax THEN 1 ELSE 0),
        openmin |-> openmin, openmax |-> openmax, integer |-> integer]

\* uac_pcm_hw_interval_refine: both bounds; of integers they are closed.
Refine(i, v) ==
    LET integer == i.integer \/ v.integer
        openmin == (i.min >= v.min /\ i.openmin) \/ (v.min >= i.min /\ v.openmin)
        openmax == (i.max <= v.max /\ i.openmax) \/ (v.max <= i.max /\ v.openmax)
        low == Max({i.min, v.min})
        high == Min({i.max, v.max})
    IN IF integer
       THEN [min |-> low + (IF openmin THEN 1 ELSE 0), max |-> high - (IF openmax THEN 1 ELSE 0),
             openmin |-> FALSE, openmax |-> FALSE, integer |-> TRUE]
       ELSE [min |-> low, max |-> high, openmin |-> openmin, openmax |-> openmax,
             integer |-> ~openmin /\ ~openmax /\ low = high]
-----------------------------------------------------------------------------
\* mul, muldiv32: they stop at the largest integer.
Times(a, b) == Min({a * b, MaxInt})
MulDiv(a, b, c) == IF c = 0 THEN [q |-> MaxInt, r |-> 0]
                   ELSE IF (a * b) \div c >= MaxInt THEN [q |-> MaxInt, r |-> 0]
                   ELSE [q |-> (a * b) \div c, r |-> (a * b) % c]

\* uac_pcm_hw_mul
Mul(a, b) ==
    [min |-> Times(a.min, b.min), max |-> Times(a.max, b.max),
     openmin |-> a.openmin \/ b.openmin, openmax |-> a.openmax \/ b.openmax,
     integer |-> a.integer /\ b.integer]

\* An interval from the rounded bounds: a bound with a remainder is open.
Rounded(low, openmin, high, openmax) ==
    [min |-> low.q, openmin |-> low.r # 0 \/ openmin,
     max |-> IF high.r # 0 THEN high.q + 1 ELSE high.q, openmax |-> high.r # 0 \/ openmax,
     integer |-> FALSE]

\* uac_pcm_hw_mulkdiv, and uac_pcm_hw_div when k is 1: a * k / b
MulKDiv(a, k, b) ==
    LET low == MulDiv(a.min, k, b.max)
    IN IF b.min = 0
       THEN Rounded(low, a.openmin \/ b.openmax, [q |-> MaxInt, r |-> 0], FALSE)
       ELSE Rounded(low, a.openmin \/ b.openmax, MulDiv(a.max, k, b.min), a.openmax \/ b.openmin)

\* uac_pcm_hw_muldivk: a * b / k
MulDivK(a, b, k) ==
    Rounded(MulDiv(a.min, b.min, k), a.openmin \/ b.openmin,
            MulDiv(a.max, b.max, k), a.openmax \/ b.openmax)

\* uac_interval_list: the range of the listed values in the interval.
ListRange(i) ==
    LET in == {v \in List : /\ v >= i.min /\ ~(v = i.min /\ i.openmin)
                            /\ v <= i.max /\ ~(v = i.max /\ i.openmax)}
    IN IF in = {} THEN Interval(MaxInt, 0, FALSE) ELSE Interval(Min(in), Max(in), FALSE)

\* The rules in the order they were added (uac_pcm_hw_constraints_init and
\* _complete): the parameter, those it follows from, and what it must be in.
Rules == <<
    [var |-> "rate", deps |-> {"size", "time"}], [var |-> "periods", deps |-> {"buffer", "size"}],
    [var |-> "size", deps |-> {"buffer", "periods"}], [var |-> "size", deps |-> {"time", "rate"}],
    [var |-> "buffer", deps |-> {"size", "periods"}], [var |-> "time", deps |-> {"size", "rate"}],
    [var |-> "rate", deps |-> {"rate"}] >>

Follows(k) ==
    CASE k = 1 -> MulKDiv(iv["size"], K, iv["time"])
      [] k = 2 -> MulKDiv(iv["buffer"], 1, iv["size"])
      [] k = 3 -> MulKDiv(iv["buffer"], 1, iv["periods"])
      [] k = 4 -> MulDivK(iv["time"], iv["rate"], K)
      [] k = 5 -> Mul(iv["size"], iv["periods"])
      [] k = 6 -> MulKDiv(iv["size"], K, iv["rate"])
      [] k = 7 -> ListRange(iv["rate"])
-----------------------------------------------------------------------------
Init ==
    /\ asked \in Asked /\ iv = asked
    /\ stamped = Params /\ again = FALSE
    /\ pc = [rule |-> 1, pick |-> <<"rate", "time", "buffer">>, failed |-> FALSE]

Running == ~pc.failed /\ pc.rule <= Len(Rules)

\* One rule of uac_pcm_hw_refine, if what it follows from has changed.
Rule ==
    /\ Running
    /\ LET rule == Rules[pc.rule]
           new == Refine(iv[rule.var], Follows(pc.rule))
       IN IF rule.deps \cap stamped = {}
          THEN pc' = [pc EXCEPT !.rule = @ + 1] /\ UNCHANGED <<iv, stamped, again>>
          ELSE IF Empty(new)
          THEN pc' = [pc EXCEPT !.failed = TRUE] /\ UNCHANGED <<iv, stamped, again>>
          ELSE /\ iv' = [iv EXCEPT ![rule.var] = new]
               /\ stamped' = IF new # iv[rule.var] THEN stamped \cup {rule.var} ELSE stamped
               /\ again' = (again \/ new # iv[rule.var])
               /\ pc' = [pc EXCEPT !.rule = @ + 1]
    /\ UNCHANGED asked

\* Once more, while a round has changed something.
Again ==
    /\ ~pc.failed /\ pc.rule > Len(Rules) /\ again
    /\ pc' = [pc EXCEPT !.rule = 1] /\ again' = FALSE
    /\ UNCHANGED <<asked, iv, stamped>>

\* uac_interval_refine_first and _last
First(i) == IF Single(i) THEN i
            ELSE [i EXCEPT !.max = i.min + (IF i.openmin THEN 1 ELSE 0), !.openmax = i.openmin]
Last(i) == IF Single(i) THEN i
           ELSE [i EXCEPT !.min = i.max - (IF i.openmax THEN 1 ELSE 0), !.openmin = i.openmax]

\* uac_pcm_hw_params_choose: the least rate and duration, the largest buffer.
Pick ==
    /\ ~pc.failed /\ pc.rule > Len(Rules) /\ ~again /\ pc.pick # <<>>
    /\ LET v == Head(pc.pick)
           new == IF v = "buffer" THEN Last(iv[v]) ELSE First(iv[v])
       IN /\ iv' = [iv EXCEPT ![v] = new]
          /\ stamped' = IF Single(iv[v]) THEN {} ELSE {v}
    /\ pc' = [pc EXCEPT !.pick = Tail(@), !.rule = 1]
    /\ UNCHANGED <<asked, again>>

Next == Rule \/ Again \/ Pick

Spec == Init /\ [][Next]_ruleVars
-----------------------------------------------------------------------------
(* Properties                                                              *)

TypeOK == /\ DOMAIN iv = Params /\ stamped \subseteq Params /\ pc.rule \in 1 .. Len(Rules) + 1
          /\ \A p \in Params : iv[p].min \in 0 .. MaxInt /\ iv[p].max \in 0 .. MaxInt + 1

\* The fraction n / d is in an interval.
Within(n, d, i) ==
    /\ n >= i.min * d /\ ~(n = i.min * d /\ i.openmin)
    /\ n <= i.max * d /\ ~(n = i.max * d /\ i.openmax)

\* The parameters of a stream that are in the intervals i.
Streams(i) ==
    {s \in [rate : List, size : 1 .. 8, periods : 1 .. 4] :
        /\ Within(s.rate, 1, i["rate"]) /\ Within(s.size, 1, i["size"])
        /\ Within(s.periods, 1, i["periods"]) /\ Within(s.size * s.periods, 1, i["buffer"])
        /\ Within(s.size * K, s.rate, i["time"])}

Picked == Len(pc.pick) < 3

\* No rule removes a stream that was asked for and is possible, whatever the
\* rounding, and with one the refinement does not fail (uac_hw_rule.c:21-206).
NothingLost == ~Picked => (Streams(asked) \subseteq Streams(iv) /\ (pc.failed => Streams(asked) = {}))

\* What is picked in the end, with a single size and number of periods, is
\* consistent and was asked for (uac_hw_rule.c:890).
PickedFits ==
    ~pc.failed /\ pc.rule > Len(Rules) /\ ~again /\ pc.pick = <<>>
       /\ iv["size"].min = iv["size"].max /\ iv["periods"].min = iv["periods"].max =>
        /\ iv["buffer"].min = iv["size"].min * iv["periods"].min
        /\ iv["rate"].min = iv["rate"].max
        /\ Within(iv["size"].min * K, iv["rate"].min, asked["time"])
=============================================================================
