------------------------------ MODULE Calculators ------------------------------
(***************************************************************************)
(* The calculators: what each computes from what is typed, and how their   *)
(* answers bear on each other.  Rates are whole growth factors per month   *)
(* or year (1 for no growth), so that all values are integers; a figure    *)
(* that is a fraction is compared multiplied out.  Rounding for display is *)
(* left out.                                                               *)
(***************************************************************************)
EXTENDS Integers, FiniteSets

None == -1
Abs(n) == IF n < 0 THEN -n ELSE n
Least(a, b) == IF a < b THEN a ELSE b
Most(a, b) == IF a < b THEN b ELSE a

-------------------------------------------------------------------------------
\* Investing.  P, W amounts; G the factor of one period; n periods.
Annuity(G, n) == IF G = 1 THEN n ELSE (G ^ n - 1) \div (G - 1)     \* ((1 + i)^n - 1) / i
SipOfOne(G, n) == IF G > 1 THEN Annuity(G, n) * G ELSE n
Sip(P, G, n) == [invested |-> P * n, fv |-> P * SipOfOne(G, n), gains |-> P * SipOfOne(G, n) - P * n]
\* Month by month, until the balance is gone: the last withdrawal is partial.
Swp(P, W, G, n) ==
  LET month(s, m) ==
        LET bal == s.bal * G - W IN
        IF bal <= 0 THEN [bal |-> 0, withdrawn |-> s.withdrawn + W + bal, depletedAt |-> m]
        ELSE [s EXCEPT !.bal = bal, !.withdrawn = @ + W]
      run[m \in 0..n] ==
        IF m = 0 THEN [bal |-> P, withdrawn |-> 0, depletedAt |-> 0]
        ELSE IF run[m - 1].depletedAt # 0 THEN run[m - 1] ELSE month(run[m - 1], m)
  IN run[n]
Lumpsum(P, G, y) == [invested |-> P, fv |-> P * G ^ y, gains |-> P * G ^ y - P]
\* The rate is a root: the factor that takes one value to the other, where there is a whole one.
Cagr(p0, p1, y) ==
  IF p0 > 0 /\ y > 0 /\ \E G \in 0..p1 : p0 * G ^ y = p1 THEN CHOOSE G \in 0..p1 : p0 * G ^ y = p1 ELSE None
\* Each of the three is a quotient: the target over what one rupee comes to.
Goal(F, Gm, n, Gy, y) == [target |-> F, sip |-> IF n > 0 THEN SipOfOne(Gm, n) ELSE None, lump |-> Gy ^ y]
FixedDeposit(A, Gq, y) == [invested |-> A, maturity |-> A * Gq ^ (4 * y)]
RecurringDeposit(A, G, n) ==
  LET bal[m \in 0..n] == IF m = 0 THEN 0 ELSE (bal[m - 1] + A) * G IN [invested |-> A * n, maturity |-> bal[n]]

-------------------------------------------------------------------------------
\* Trading.
Position(cap, pct, entry, stop) ==      \* what is risked is in hundredths
  LET risk == cap * pct
      perShare == 100 * Abs(entry - stop)
      shares == IF perShare > 0 THEN risk \div perShare ELSE 0
  IN [risk |-> risk, perShare |-> perShare, shares |-> shares, value |-> shares * entry]
RiskReward(entry, stop, target, q) ==
  LET risk == Abs(entry - stop)
      reward == Abs(target - entry)
  IN [risk |-> risk, reward |-> reward, ratio |-> risk > 0, profit |-> reward * q, loss |-> risk * q]

\* The charges of a round trip, in ten-millionths of the unit of the turnover.  The flat
\* fee is part of the cost model; without any turnover it is charged whole.
Whole == 10000000
Rate == [stt |-> 10000, sttSell |-> 2500, exchange |-> 297, sebi |-> 10, stamp |-> 1500, stampDay |-> 300, bps |-> 3000]
Brokerage(turnover, m) ==
  LET bps == turnover * Rate.bps IN Most(0, Least(m.flat, IF bps # 0 THEN bps ELSE m.flat))
TradeCharges(buy, sell, m) ==
  LET delivery == m.segment = "delivery"
      brokerage == Brokerage(buy, m) + Brokerage(sell, m)
      stt == IF delivery THEN Rate.stt * (buy + sell) ELSE Rate.sttSell * sell
      exchange == Rate.exchange * (buy + sell)
      sebi == Rate.sebi * (buy + sell)
      stamp == (IF delivery THEN Rate.stamp ELSE Rate.stampDay) * buy
      gst == (18 * (brokerage + exchange + sebi)) \div 100
  IN brokerage + stt + exchange + sebi + stamp + gst
\* Slippage in tenths of the price: a buyer pays more, a seller gets less.
Slip(price, side, m) == price * (IF side = "buy" THEN 10 + m.slippage ELSE 10 - m.slippage)
\* What a plan wins and loses after slippage and charges.
NetRR(entry, stop, target, m) ==
  LET buy == Slip(entry, "buy", m)
      win == Slip(target, "sell", m)
      loss == Slip(stop, "sell", m)
  IN [reward |-> Whole * (win - buy) - TradeCharges(buy, win, m), risk |-> Whole * (buy - loss) + TradeCharges(buy, loss, m)]
\* A round trip of q shares, without slippage and, on delivery, without brokerage.
BrokerageCalc(b, s, q, segment, flat) ==
  LET m == [segment |-> segment, flat |-> IF segment = "delivery" THEN 0 ELSE flat]
      total == TradeCharges(b * q, s * q, m)
  IN [gross |-> (s - b) * q, total |-> total, net |-> Whole * (s - b) * q - total]
Unlimited == [limited |-> FALSE, is |-> 0]
UpTo(n) == [limited |-> TRUE, is |-> n]
Fno(type, action, k, p, q) ==
  LET outlay == UpTo(p * q)
      worth == IF type = "call" THEN Unlimited ELSE UpTo((k - p) * q)     \* to the buyer
  IN [breakeven |-> IF type = "call" THEN k + p ELSE Most(0, k - p),
      profit |-> IF action = "buy" THEN worth ELSE outlay, loss |-> IF action = "buy" THEN outlay ELSE worth]
\* An amount in another currency: the first over the second.
Convert(amount, per, from, to) == [is |-> amount * per[from], over |-> per[to], there |-> per[to] > 0]

-------------------------------------------------------------------------------
\* The calculators in their groups.
Groups ==
  [Investing |-> {"sip", "swp", "lumpsum", "cagr", "goal", "fdrd"}, Trading |-> {"position", "rr", "brokerage", "fno"},
   Utilities |-> {"currency"}]
-------------------------------------------------------------------------------
\* The closed form of the SIP is the recurring deposit's loop, a fixed deposit is a lump sum
\* at the year's factor, the growth rate undoes the lump sum, the goal's amounts come
\* to the goal (CalculatorScreen.tsx:142-175, 227-386).
InvestingAgrees(P, G, n) ==
  /\ Sip(P, G, n).fv = RecurringDeposit(P, G, n).maturity
  /\ FixedDeposit(P, G, n).maturity = Lumpsum(P, G ^ 4, n).fv
  /\ P > 0 /\ n > 0 => Cagr(P, Lumpsum(P, G, n).fv, n) = G
  /\ n > 0 => /\ P * Goal(P, G, n, G, n).sip = RecurringDeposit(P, G, n).maturity
              /\ P * Goal(P, G, n, G, n).lump = Lumpsum(P, G, n).fv
\* What is withdrawn and what is left are what the corpus grew to, and it is gone in the
\* first month in which it cannot pay (CalculatorScreen.tsx:177-202).
WithdrawalsAddUp(P, W, G, n) ==
  LET s == Swp(P, W, G, n)
      short(m) == P * G ^ m <= W * Annuity(G, m)
  IN /\ s.depletedAt = 0 => s.bal = P * G ^ n - W * Annuity(G, n) /\ s.withdrawn = n * W
     /\ s.depletedAt # 0 => s.bal = 0 /\ short(s.depletedAt) /\ (\A m \in 1..s.depletedAt - 1 : ~short(m))
     /\ G = 1 => s.bal + s.withdrawn = P
\* The stop-out of a position of the size advised costs at most the risk chosen, and one
\* share more would cost more (CalculatorScreen.tsx:104-140, 388-425).
SizeIsRisk(cap, pct, entry, stop) ==
  LET p == Position(cap, pct, entry, stop)
      loss(q) == 100 * RiskReward(entry, stop, entry, q).loss
  IN entry # stop => loss(p.shares) <= p.risk /\ p.risk < loss(p.shares + 1)
\* A trade in two halves costs no less than whole, costs grow with the turnover, and after
\* costs a plan is worse than it looks (costs.ts:47-113).  A leg without any turnover is
\* charged the flat fee and is left out.
CostsAreCosts(b, s, t, m) ==
  /\ b > 0 /\ s > 0 => /\ TradeCharges(2 * b, 2 * s, m) <= 2 * TradeCharges(b, s, m) + 1     \* rounded down
                       /\ TradeCharges(b, s, m) <= TradeCharges(b + 1, s, m) /\ TradeCharges(b, s, m) <= TradeCharges(b, s + 1, m)
  /\ 0 < s /\ s < b /\ b < t =>
       LET net == NetRR(b, s, t, m)
           gross == RiskReward(b, s, t, 1)
       IN net.risk > 0 /\ (net.reward \div 10000) * gross.risk < (net.risk \div 10000 + 1) * gross.reward
  /\ BrokerageCalc(b, s, 1, m.segment, m.flat).net <= Whole * (s - b)
\* At the spot given an option pays what was paid for it, its greatest profit and loss are
\* its extremes over all spots, and the writer has the buyer's turned round; for a put no
\* dearer than its strike (CalculatorScreen.tsx:488-551).
Payoff(type, action, k, p, q, spot) ==
  LET buyer == q * ((IF type = "call" THEN Most(0, spot - k) ELSE Most(0, k - spot)) - p) IN IF action = "buy" THEN buyer ELSE -buyer
BreakevenPays(type, action, k, p, q) ==
  LET f == Fno(type, action, k, p, q)
      pays(spot) == Payoff(type, action, k, p, q, spot)
      spots == 0..2 * (k + p + 1)
  IN (type = "call" \/ p <= k) =>
       /\ pays(f.breakeven) = 0
       /\ IF f.profit.limited THEN (\A x \in spots : pays(x) <= f.profit.is) /\ \E x \in spots : pays(x) = f.profit.is
          ELSE q > 0 => pays(2 * (k + p + 1)) > 0
       /\ IF f.loss.limited THEN (\A x \in spots : -pays(x) <= f.loss.is) /\ \E x \in spots : -pays(x) = f.loss.is
          ELSE q > 0 => pays(2 * (k + p + 1)) < 0
\* An amount converted and converted back is the amount (CalculatorScreen.tsx:556-568).
ThereAndBack(amount, per, a, b) ==
  LET out == Convert(amount, per, a, b)
      back == Convert(out.is, per, b, a)
  IN out.there /\ back.there => back.is = amount * back.over * out.over
================================================================================
