--------------------------- MODULE Pricing_Proofs ---------------------------
EXTENDS PricingProperties, TLAPS

LEMMA Products ==
    ASSUME NEW a \in Nat, NEW b \in Nat
    PROVE  /\ a * b \in Nat
           /\ \A c \in Nat : a * (b + c) = a * b + a * c
  OBVIOUS

LEMMA FloorBounds ==
    ASSUME NEW n \in Nat, NEW d \in Nat \ {0}
    PROVE  /\ n \div d \in Nat
           /\ (n \div d) * d <= n
           /\ n < (n \div d) * d + d
  BY SMT

LEMMA CeilBounds ==
    ASSUME NEW n \in Nat, NEW d \in Nat \ {0}
    PROVE  /\ ceilDiv(n, d) \in Nat
           /\ ceilDiv(n, d) * d >= n
  <1>1. n + d - 1 \in Nat
    OBVIOUS
  <1>2. /\ (n + d - 1) \div d \in Nat
        /\ n + d - 1 < ((n + d - 1) \div d) * d + d
    BY <1>1, FloorBounds
  <1>3. ((n + d - 1) \div d) * d \in Nat
    BY <1>2
  <1> QED
    BY <1>2, <1>3 DEF ceilDiv

LEMMA FeeBounds ==
    ASSUME NEW a \in Nat, NEW fee \in 0..(Bps - 1)
    PROVE  /\ feeOf(a, fee) \in Nat
           /\ feeOf(a, fee) * Bps <= a * fee
           /\ a * fee < feeOf(a, fee) * Bps + Bps
  <1>1. a * fee \in Nat /\ Bps \in Nat \ {0}
    BY DEF Bps
  <1> QED
    BY <1>1, FloorBounds DEF feeOf

LEMMA NetBounds ==
    ASSUME NEW a \in Nat, NEW fee \in 0..(Bps - 1), NEW n \in Int
    PROVE  /\ netOfFee(a, fee) \in Nat
           /\ netOfFee(a, fee) <= a
           /\ netOfFee(a, fee) >= n <=> a * (Bps - fee) > (n - 1) * Bps
  <1> DEFINE x == a * fee
             q == feeOf(a, fee)
  <1>1. /\ q \in Nat /\ q * Bps <= x /\ x < q * Bps + Bps
    BY FeeBounds
  <1>2. x \in Nat /\ x <= a * Bps /\ a * (Bps - fee) = a * Bps - x
    BY DEF Bps
  <1> HIDE DEF x, q
  <1>3. q <= a
    BY <1>1, <1>2 DEF Bps
  <1>4. a - q >= n <=> a * Bps - x > (n - 1) * Bps
    BY <1>1, <1>2 DEF Bps
  <1> QED
    BY <1>1, <1>2, <1>3, <1>4 DEF netOfFee, q

LEMMA CeilingIsEnough ==
    ASSUME NEW n \in Nat, NEW fee \in 0..(Bps - 1)
    PROVE  LET h == ceilDiv(n * Bps, Bps - fee)
           IN  h \in Nat /\ n <= h /\ netOfFee(h, fee) >= n
  <1> DEFINE h == ceilDiv(n * Bps, Bps - fee)
  <1>1. n * Bps \in Nat /\ Bps - fee \in Nat \ {0}
    BY DEF Bps
  <1>2. h \in Nat /\ h * (Bps - fee) >= n * Bps
    BY <1>1, CeilBounds
  <1> HIDE DEF h
  <1>3. h * (Bps - fee) > (n - 1) * Bps
    <2>1. n * Bps > (n - 1) * Bps
      BY DEF Bps
    <2> QED
      BY <1>1, <1>2, <2>1 DEF Bps
  <1>4. netOfFee(h, fee) >= n /\ netOfFee(h, fee) <= h /\ netOfFee(h, fee) \in Nat
    BY <1>2, <1>3, NetBounds
  <1> QED
    BY <1>2, <1>4 DEF h

LEMMA NetIsMonotone ==
    ASSUME NEW fee \in 0..(Bps - 1), NEW n \in Int,
           NEW a \in Nat, NEW b \in Nat, a <= b, netOfFee(a, fee) >= n
    PROVE  netOfFee(b, fee) >= n
  <1>1. a * (Bps - fee) > (n - 1) * Bps
    BY NetBounds
  <1>2. b * (Bps - fee) >= a * (Bps - fee)
    <2>1. b - a \in Nat /\ Bps - fee \in Nat
      BY DEF Bps
    <2>2. (b - a) * (Bps - fee) \in Nat
      BY <2>1
    <2>3. (b - a) * (Bps - fee) = b * (Bps - fee) - a * (Bps - fee)
      BY <2>1 DEF Bps
    <2>4. a * (Bps - fee) \in Int /\ b * (Bps - fee) \in Int
      BY <2>1
    <2> QED
      BY <2>2, <2>3, <2>4
  <1>3. b * (Bps - fee) > (n - 1) * Bps
    BY <1>1, <1>2 DEF Bps
  <1> QED
    BY <1>3, NetBounds

LEMMA SizingCovers ==
    ASSUME NEW price \in Nat \ {0}, NEW buffer \in Nat,
           NEW in \in Nat \ {0}, NEW out \in Nat,
           NEW rate \in Nat, rate = (out * SCALE) \div in, rate # 0
    PROVE  /\ computeUsdcAmount(price, rate, buffer) \in Nat \ {0}
           /\ computeUsdcAmount(price, rate, buffer) * out * Bps
                >= price * in * (Bps + buffer)
  <1> DEFINE base == ceilDiv(price * SCALE, rate)
             up   == Bps + buffer
             sum  == ceilDiv(base * up, Bps)
  <1>1. price * SCALE \in Nat /\ out * SCALE \in Nat
    BY DEF SCALE
  <1>2. rate * in <= out * SCALE
    BY <1>1, FloorBounds
  <1>3. base \in Nat /\ base * rate >= price * SCALE
    BY <1>1, CeilBounds
  <1>4. up \in Nat \ {0}
    BY DEF Bps
  <1>5. base * up \in Nat
    BY <1>3, <1>4
  <1>6. sum \in Nat /\ sum * Bps >= base * up
    BY <1>5, CeilBounds DEF Bps
  <1>7. computeUsdcAmount(price, rate, buffer) = sum
    BY DEF computeUsdcAmount
  <1> HIDE DEF base, up, sum
  <1>8. base # 0
    <2>1. price * SCALE > 0
      BY DEF SCALE
    <2> QED
      BY <2>1, <1>1, <1>3
  <1>9. sum # 0
    <2>1. base * up > 0
      BY <1>3, <1>4, <1>8
    <2> QED
      BY <2>1, <1>5, <1>6 DEF Bps
  <1>10. base * out >= price * in
    <2>1. (base * rate) * in >= (price * SCALE) * in
      BY <1>1, <1>3
    <2>2. base * (rate * in) <= base * (out * SCALE)
      BY <1>1, <1>2, <1>3
    <2>3. (base * rate) * in = base * (rate * in)
      BY <1>3
    <2>4. base * (out * SCALE) = (base * out) * SCALE
      BY <1>3 DEF SCALE
    <2>5. (price * SCALE) * in = (price * in) * SCALE
      BY DEF SCALE
    <2>6. base * out \in Nat /\ price * in \in Nat
      BY <1>3
    <2>7. (base * out) * SCALE >= (price * in) * SCALE
      <3>1. /\ (base * rate) * in \in Int
            /\ (price * SCALE) * in \in Int
            /\ base * (out * SCALE) \in Int
        BY <1>1, <1>3
      <3> QED
        BY <2>1, <2>2, <2>3, <2>4, <2>5, <3>1
    <2> QED
      BY <2>6, <2>7 DEF SCALE
  <1>11. (sum * Bps) * out >= (base * up) * out
    BY <1>5, <1>6 DEF Bps
  <1>12. (base * out) * up >= (price * in) * up
    BY <1>3, <1>4, <1>10
  <1>13. (sum * Bps) * out = sum * out * Bps /\ (base * up) * out = (base * out) * up
    BY <1>3, <1>4, <1>6 DEF Bps
  <1>14. sum * out * Bps >= price * in * up
    BY <1>3, <1>4, <1>6, <1>11, <1>12, <1>13 DEF Bps
  <1> QED
    BY <1>6, <1>7, <1>9, <1>14 DEF up

-----------------------------------------------------------------------------
(* The inductive invariant.                                                *)

\* What the assumption on the constants says of one order.
Typed ==
    /\ order.road \in Roads
    /\ order.price \in Nat \ {0}
    /\ order.fee \in 0..(Bps - 1)
    /\ order.buffer \in Nat
    /\ quoted.in \in Nat /\ quoted.out \in Nat /\ quoted.min \in Nat

\* What covers a price at the quoted rate does so for a lower one with more.
LEMMA MoreCovers ==
    ASSUME NEW price \in Nat, NEW out \in Nat, out < price,
           NEW in \in Nat \ {0}, NEW quote \in Nat, NEW share \in Nat \ {0},
           NEW small \in Nat, NEW large \in Nat, small <= large,
           small * quote * Bps >= price * in * share
    PROVE  out * in * share < large * quote * Bps
  <1> DEFINE k == in * share
             m == quote * Bps
  <1>1. k \in Nat /\ k > 0 /\ m \in Nat
    BY DEF Bps
  <1>2. out * in * share = out * k /\ price * in * share = price * k
    OBVIOUS
  <1>3. small * quote * Bps = small * m /\ large * quote * Bps = large * m
    BY DEF Bps
  <1> HIDE DEF k, m
  <1>4. /\ out * k \in Nat /\ price * k \in Nat
        /\ small * m \in Nat /\ large * m \in Nat
    BY <1>1, Products
  <1>5. small * m <= large * m
    BY <1>1
  <1>6. out * k < price * k
    BY <1>1
  <1> QED
    BY <1>2, <1>3, <1>4, <1>5, <1>6

LEMMA OrdersAreTyped ==
    ASSUME TypeOK
    PROVE  Typed
  BY PricingAssumption DEF TypeOK, Typed, Terms

LEMMA TypedTerms ==
    ASSUME Typed
    PROVE  /\ order.price \in Nat /\ quoted.in \in Nat /\ quoted.out \in Nat
           /\ Bps + order.buffer \in Nat \ {0}
  BY DEF Typed, Bps

LEMMA AskIsTyped ==
    ASSUME TypeOK, NEW size \in Nat \ {0}, Ask(size), order' = order
    PROVE  /\ quoted' \in Terms /\ quoted'.in = size
           /\ net' \in Nat
           /\ deriveRate(quoted') # 0 =>
                 /\ net' # 0
                 /\ net' * quoted'.out * Bps >= order.price * quoted'.in * (Bps + order.buffer)
  <1>1. PICK out \in Amounts : quoted' = [quoted EXCEPT !.in = size, !.out = out]
    BY DEF Ask
  <1>2. out \in Nat
    BY <1>1, PricingAssumption
  <1>3. quoted' \in Terms /\ quoted'.in = size /\ quoted'.out = out
    BY <1>1, <1>2 DEF TypeOK, Terms
  <1> DEFINE rate == deriveRate(quoted')
  <1>4. rate = (out * SCALE) \div size
    BY <1>3 DEF deriveRate
  <1>5. rate \in Nat
    BY <1>2, <1>4, FloorBounds DEF SCALE
  <1>6. Typed
    BY OrdersAreTyped
  <1>7. net' = IF rate = 0 THEN net ELSE computeUsdcAmount(order.price, rate, order.buffer)
    BY DEF Ask
  <1> HIDE DEF rate
  <1>8. CASE rate = 0
    BY <1>3, <1>7, <1>8 DEF TypeOK, rate
  <1>9. CASE rate # 0
    BY <1>2, <1>3, <1>4, <1>5, <1>6, <1>7, <1>9, SizingCovers DEF Typed, rate
  <1> QED
    BY <1>8, <1>9

THEOREM PricingInit == Init => PricingInv
  <1> SUFFICES ASSUME Init PROVE PricingInv
    OBVIOUS
  <1>1. TypeOK
    BY DEF Init, TypeOK, Phases, Terms, NoTerms
  <1> QED
    BY <1>1 DEF Init, PricingInv, SearchInv, SmallestGross, RequoteHasSize,
       NetCovers, MinimumMet, Handed, Charged

LEMMA ProbeStep == PricingInv /\ Probe => PricingInv'
  <1> SUFFICES ASSUME PricingInv, Probe PROVE PricingInv'
    OBVIOUS
  <1>1. TypeOK /\ Typed
    BY OrdersAreTyped DEF PricingInv
  <1>2. /\ quoted' \in Terms /\ quoted'.in > 0 /\ net' \in Nat
        /\ deriveRate(quoted') # 0 =>
              /\ net' # 0
              /\ net' * quoted'.out * Bps >= order.price * quoted'.in * (Bps + order.buffer)
    BY <1>1, AskIsTyped DEF Probe, Typed
  <1>3. TypeOK'
    BY <1>1, <1>2 DEF TypeOK, Probe, Phases
  <1> QED
    BY <1>1, <1>2, <1>3 DEF Probe, PricingInv, SearchInv, SmallestGross, RequoteHasSize,
       NetCovers, MinimumMet, Handed, Charged, Typed, Roads

LEMMA RequoteStep == PricingInv /\ Requote => PricingInv'
  <1> SUFFICES ASSUME PricingInv, Requote PROVE PricingInv'
    OBVIOUS
  <1>1. TypeOK /\ Typed
    BY OrdersAreTyped DEF PricingInv
  <1>2. net \in Nat \ {0}
    BY <1>1 DEF PricingInv, RequoteHasSize, Requote, TypeOK
  <1>3. /\ quoted' \in Terms /\ quoted'.in > 0 /\ net' \in Nat
        /\ deriveRate(quoted') # 0 =>
              /\ net' # 0
              /\ net' * quoted'.out * Bps >= order.price * quoted'.in * (Bps + order.buffer)
    BY <1>1, <1>2, AskIsTyped DEF Requote
  <1>4. TypeOK'
    BY <1>1, <1>3 DEF TypeOK, Requote, Phases
  <1> QED
    BY <1>1, <1>3, <1>4 DEF Requote, PricingInv, SearchInv, SmallestGross, RequoteHasSize,
       NetCovers, MinimumMet, Handed, Charged, Typed, Roads

LEMMA EstimateStep == PricingInv /\ Estimate => PricingInv'
  <1> SUFFICES ASSUME PricingInv, Estimate PROVE PricingInv'
    OBVIOUS
  <1>1. TypeOK /\ Typed
    BY OrdersAreTyped DEF PricingInv
  <1>2. PICK cost \in Amounts :
          /\ quoted' = [quoted EXCEPT !.in = cost, !.out = toDestinationMinor(order.price)]
          /\ net' = cost + (cost * order.buffer) \div Bps
    BY DEF Estimate
  <1> DEFINE x == cost * order.buffer
             y == x \div Bps
  <1>3. cost \in Nat /\ x \in Nat
    BY <1>1, <1>2, PricingAssumption DEF Typed
  <1>4. y \in Nat /\ x < y * Bps + Bps
    BY <1>3, FloorBounds DEF Bps
  <1>5. toDestinationMinor(order.price) \in Nat
    <2>1. order.price \div Divisor \in Nat
      BY <1>1, FloorBounds, PricingAssumption DEF Typed
    <2> QED
      BY <2>1 DEF toDestinationMinor
  <1>6. quoted' \in Terms /\ quoted'.in = cost
    BY <1>1, <1>2, <1>3, <1>5 DEF TypeOK, Terms
  <1>7. TypeOK'
    BY <1>1, <1>2, <1>3, <1>4, <1>6 DEF TypeOK, Estimate, Phases
  <1>8. (net' + 1) * Bps > quoted'.in * (Bps + order.buffer)
    <2>1. net' = cost + y
      BY <1>2
    <2>2. cost * (Bps + order.buffer) = cost * Bps + x
      <3>1. order.buffer \in Nat /\ Bps \in Nat
        BY <1>1 DEF Typed, Bps
      <3> QED
        BY <1>3, <3>1, Products
    <2> HIDE DEF x, y
    <2>3. (cost + y + 1) * Bps > cost * Bps + x
      BY <1>3, <1>4 DEF Bps
    <2> QED
      BY <1>6, <2>1, <2>2, <2>3
  <1> QED
    BY <1>7, <1>8 DEF Estimate, PricingInv, SearchInv, SmallestGross, RequoteHasSize,
       NetCovers, MinimumMet, Handed, Charged

LEMMA CorridorStep == PricingInv /\ Corridor => PricingInv'
  <1> SUFFICES ASSUME PricingInv, Corridor PROVE PricingInv'
    OBVIOUS
  <1>1. TypeOK /\ Typed
    BY OrdersAreTyped DEF PricingInv
  <1>2. quoted' = quoted \/ \E min \in Minimums :
          order.road # "wallet" /\ net >= min /\ quoted' = [quoted EXCEPT !.min = min]
    BY DEF Corridor
  <1>3. /\ quoted' \in Terms
        /\ quoted'.in = quoted.in /\ quoted'.out = quoted.out
    BY <1>1, <1>2, PricingAssumption DEF TypeOK, Terms
  <1>4. TypeOK'
    BY <1>1, <1>3 DEF TypeOK, Corridor, Phases
  <1>5. NetCovers'
    BY <1>3 DEF Corridor, PricingInv, NetCovers
  <1>6. MinimumMet'
    <2>1. SUFFICES ASSUME phase' = "net", order.road # "wallet"
          PROVE net >= quoted'.min
      BY DEF Corridor, MinimumMet, Charged
    <2>2. PICK min \in Minimums : net >= min /\ quoted' = [quoted EXCEPT !.min = min]
      BY <2>1 DEF Corridor
    <2> QED
      BY <1>1, <2>2 DEF TypeOK, Terms
  <1> QED
    BY <1>4, <1>5, <1>6 DEF Corridor, PricingInv, SearchInv, SmallestGross,
       RequoteHasSize, Handed, Charged

LEMMA GrossUpStep == PricingInv /\ GrossUp => PricingInv'
  <1> SUFFICES ASSUME PricingInv, GrossUp PROVE PricingInv'
    OBVIOUS
  <1>1. TypeOK /\ Typed
    BY OrdersAreTyped DEF PricingInv
  <1>2. \A a \in Nat : netOfFee(a, order.fee) <= a /\ netOfFee(a, order.fee) \in Nat
    BY <1>1, NetBounds DEF Typed
  <1>3. UNCHANGED <<order, quoted, net, received, offer, rebate>>
    BY DEF GrossUp
  <1>4. NetCovers' /\ MinimumMet'
    BY <1>3 DEF GrossUp, PricingInv, NetCovers, MinimumMet
  <1>5. CASE order.fee = 0 \/ net = 0
    <2>1. amount' = net /\ phase' = "created" /\ UNCHANGED <<lo, hi>>
      BY <1>5 DEF GrossUp
    <2>2. TypeOK'
      BY <1>1, <1>3, <2>1 DEF TypeOK, Phases
    <2>3. netOfFee(net, order.fee) >= net
      <3>1. CASE order.fee = 0
        BY <3>1, <1>1 DEF netOfFee, feeOf, Bps, TypeOK
      <3>2. CASE net = 0
        BY <3>2, <1>2
      <3> QED
        BY <3>1, <3>2, <1>5
    <2>4. \A a \in 0..(net - 1) : ~(netOfFee(a, order.fee) >= net)
      BY <1>1, <1>2 DEF TypeOK
    <2>5. SmallestGross'
      BY <1>3, <2>1, <2>3, <2>4 DEF SmallestGross, Enough, Clears
    <2> QED
      BY <1>3, <1>4, <2>1, <2>2, <2>5 DEF PricingInv, SearchInv, RequoteHasSize, Handed
  <1>6. CASE ~(order.fee = 0 \/ net = 0)
    <2>1. /\ lo' = net /\ hi' = ceilDiv(net * Bps, Bps - order.fee)
          /\ phase' = "search" /\ amount' = amount
      BY <1>6 DEF GrossUp
    <2>2. hi' \in Nat /\ net <= hi' /\ netOfFee(hi', order.fee) >= net
      BY <1>1, <2>1, CeilingIsEnough DEF TypeOK, Typed
    <2>3. TypeOK'
      BY <1>1, <1>3, <2>1, <2>2 DEF TypeOK, Phases
    <2>4. \A a \in 0..(net - 1) : ~(netOfFee(a, order.fee) >= net)
      BY <1>1, <1>2 DEF TypeOK
    <2>5. SearchInv'
      BY <1>3, <2>1, <2>2, <2>4 DEF SearchInv, Enough, Clears
    <2> QED
      BY <1>3, <1>4, <2>1, <2>3, <2>5 DEF PricingInv, SmallestGross, RequoteHasSize,
         Handed, Charged
  <1> QED
    BY <1>5, <1>6

LEMMA SearchStep == PricingInv /\ Search => PricingInv'
  <1> SUFFICES ASSUME PricingInv, Search PROVE PricingInv'
    OBVIOUS
  <1>1. TypeOK /\ Typed
    BY OrdersAreTyped DEF PricingInv
  <1>2. /\ middle \in Nat /\ lo <= middle /\ middle < hi
    BY <1>1 DEF TypeOK, Search, middle
  <1>3. /\ lo <= hi
        /\ netOfFee(hi, order.fee) >= net
        /\ \A a \in 0..(lo - 1) : ~(netOfFee(a, order.fee) >= net)
    BY DEF PricingInv, SearchInv, Search, Enough, Clears
  <1>4. UNCHANGED <<order, phase, quoted, net, amount, received, offer, rebate>>
    BY DEF Search
  <1>5. \/ netOfFee(middle, order.fee) >= net /\ hi' = middle /\ lo' = lo
        \/ ~(netOfFee(middle, order.fee) >= net) /\ lo' = middle + 1 /\ hi' = hi
    BY DEF Search, Enough, Clears
  <1>6. TypeOK'
    BY <1>1, <1>2, <1>4, <1>5 DEF TypeOK
  <1>7. SearchInv'
    <2>1. CASE netOfFee(middle, order.fee) >= net /\ hi' = middle /\ lo' = lo
      BY <1>2, <1>3, <1>4, <2>1 DEF SearchInv, Enough, Clears
    <2>2. CASE ~(netOfFee(middle, order.fee) >= net) /\ lo' = middle + 1 /\ hi' = hi
      <3>1. ASSUME NEW a \in 0..middle
            PROVE ~(netOfFee(a, order.fee) >= net)
        <4>1. a \in Nat /\ a <= middle
          BY <1>2, <3>1
        <4>2. net \in Int /\ order.fee \in 0..(Bps - 1)
          BY <1>1 DEF TypeOK, Typed
        <4> QED
          BY <1>2, <2>2, <4>1, <4>2, NetIsMonotone
      <3>2. lo' - 1 = middle
        BY <1>2, <2>2
      <3>3. lo' <= hi'
        BY <1>1, <1>2, <2>2 DEF TypeOK
      <3> QED
        BY <1>3, <1>4, <2>2, <3>1, <3>2, <3>3 DEF SearchInv, Enough, Clears
    <2> QED
      BY <1>5, <2>1, <2>2
  <1>8. phase' = "search"
    BY DEF Search
  <1> QED
    BY <1>4, <1>6, <1>7, <1>8 DEF PricingInv, SmallestGross, RequoteHasSize,
       NetCovers, MinimumMet, Handed, Charged

LEMMA FoundStep == PricingInv /\ Found => PricingInv'
  <1> SUFFICES ASSUME PricingInv, Found PROVE PricingInv'
    OBVIOUS
  <1>1. TypeOK
    BY DEF PricingInv
  <1>2. /\ phase = "search" /\ phase' = "created" /\ amount' = lo
        /\ UNCHANGED <<order, quoted, net, lo, hi, received, offer, rebate>>
    BY DEF Found
  <1>3. TypeOK'
    BY <1>1, <1>2 DEF TypeOK, Phases
  <1>4. lo = hi
    BY <1>1 DEF Found, PricingInv, SearchInv, TypeOK
  <1>5. SmallestGross'
    BY <1>2, <1>4 DEF PricingInv, SearchInv, SmallestGross, Enough, Clears
  <1>6. NetCovers' /\ MinimumMet'
    BY <1>2 DEF PricingInv, NetCovers, MinimumMet, Charged
  <1> QED
    BY <1>2, <1>3, <1>5, <1>6 DEF PricingInv, SearchInv, RequoteHasSize, Handed

LEMMA CaptureStep == PricingInv /\ Capture => PricingInv'
  <1> SUFFICES ASSUME PricingInv, Capture PROVE PricingInv'
    OBVIOUS
  <1>1. TypeOK /\ Typed
    BY OrdersAreTyped DEF PricingInv
  <1>2. netOfFee(amount, order.fee) \in Nat
    BY <1>1, NetBounds DEF TypeOK, Typed
  <1>3. TypeOK'
    BY <1>1, <1>2 DEF TypeOK, Capture, Phases
  <1>4. SmallestGross'
    BY DEF Capture, PricingInv, SmallestGross, Charged, Enough, Clears
  <1>5. NetCovers' /\ MinimumMet'
    BY DEF Capture, PricingInv, NetCovers, MinimumMet, Charged
  <1> QED
    BY <1>3, <1>4, <1>5 DEF Capture, PricingInv, SearchInv, RequoteHasSize, Handed

\* What is common to the three ways an attempt to settle can end.
LEMMA SettleStep ==
    ASSUME PricingInv, phase \in {"captured", "stalled"},
           offer' \in Terms, phase' \in {"settled", "stalled"}, rebate' \in Nat,
           UNCHANGED <<order, quoted, net, lo, hi, amount, received>>
    PROVE  PricingInv'
  <1>1. TypeOK
    BY DEF PricingInv
  <1>2. TypeOK'
    BY <1>1 DEF TypeOK, Phases
  <1>3. SmallestGross'
    BY DEF PricingInv, SmallestGross, Charged, Enough, Clears
  <1>4. NetCovers' /\ MinimumMet' /\ Handed'
    BY DEF PricingInv, NetCovers, MinimumMet, Handed, Charged
  <1> QED
    BY <1>2, <1>3, <1>4 DEF PricingInv, SearchInv, RequoteHasSize

\* What the escrow hands over is no less than what was sized.
LEMMA HandedIsEnough ==
    ASSUME PricingInv, phase \in {"captured", "settled", "stalled"}
    PROVE  received \in Nat /\ net \in Nat /\ received >= net
  BY DEF PricingInv, TypeOK, SmallestGross, Handed, Charged, Enough, Clears

LEMMA SwapStep ==
    PricingInv /\ Swap => PricingInv' /\ SellerNeverShort' /\ BufferIsEnough'
  <1> SUFFICES ASSUME PricingInv, Swap
               PROVE PricingInv' /\ SellerNeverShort' /\ BufferIsEnough'
    OBVIOUS
  <1>1. TypeOK /\ Typed
    BY OrdersAreTyped DEF PricingInv
  <1>2. received \in Nat /\ net \in Nat /\ received >= net
    BY HandedIsEnough DEF Swap
  <1>3. PICK out \in Amounts :
          Settle([in |-> received, out |-> out, min |-> 0],
                 out >= order.price, computeRebate(out, order.price))
    BY DEF Swap
  <1>4. out \in Nat
    BY PricingAssumption
  <1>5. /\ offer' = [in |-> received, out |-> out, min |-> 0]
        /\ UNCHANGED <<order, quoted, net, lo, hi, amount, received>>
    BY <1>3 DEF Settle
  <1>6. \/ /\ out >= order.price
           /\ phase' = "settled" /\ rebate' = out - order.price
        \/ /\ ~(out >= order.price)
           /\ phase' = "stalled" /\ rebate' = rebate
    BY <1>1, <1>3, <1>4 DEF Settle, computeRebate, Typed
  <1>7. offer' \in Terms /\ offer'.in = received /\ offer'.out = out
    BY <1>2, <1>4, <1>5 DEF Terms
  <1>8. PricingInv'
    <2>1. rebate' \in Nat
      BY <1>1, <1>4, <1>6 DEF Typed, TypeOK
    <2> QED
      BY <1>5, <1>6, <1>7, <2>1, SettleStep DEF Swap
  <1>9. SellerNeverShort'
    BY <1>1, <1>4, <1>5, <1>6, <1>7 DEF SellerNeverShort, Swap, Typed
  <1>10. BufferIsEnough'
    <2>1. SUFFICES ASSUME ~(out >= order.price)
          PROVE out * quoted.in * (Bps + order.buffer) < received * quoted.out * Bps
      BY <1>5, <1>6, <1>7 DEF BufferIsEnough, Swap
    <2>2. net * quoted.out * Bps >= order.price * quoted.in * (Bps + order.buffer)
      BY DEF PricingInv, NetCovers, Swap, Charged
    <2>3. quoted.in > 0
      BY DEF PricingInv, NetCovers, Swap, Charged
    <2>4. /\ order.price \in Nat /\ quoted.in \in Nat /\ quoted.out \in Nat
          /\ Bps + order.buffer \in Nat \ {0}
      BY <1>1, TypedTerms
    <2>5. out < order.price /\ quoted.in \in Nat \ {0}
      BY <1>4, <2>1, <2>3, <2>4
    <2> QED
      BY <1>2, <1>4, <2>2, <2>4, <2>5, MoreCovers
  <1> QED
    BY <1>8, <1>9, <1>10

LEMMA BelowMinimumStep ==
    PricingInv /\ BelowMinimum => PricingInv' /\ SellerNeverShort' /\ BufferIsEnough'
  <1> SUFFICES ASSUME PricingInv, BelowMinimum
               PROVE PricingInv' /\ SellerNeverShort' /\ BufferIsEnough'
    OBVIOUS
  <1>1. TypeOK /\ Typed
    BY OrdersAreTyped DEF PricingInv
  <1>2. received \in Nat /\ net \in Nat /\ received >= net
    BY HandedIsEnough DEF BelowMinimum
  <1>3. PICK min \in Minimums :
          received < min /\ Settle([quoted EXCEPT !.min = min], FALSE, 0)
    BY DEF BelowMinimum
  <1>4. min \in Nat
    BY PricingAssumption
  <1>5. /\ offer' = [quoted EXCEPT !.min = min]
        /\ UNCHANGED <<order, quoted, net, lo, hi, amount, received>>
        /\ phase' = "stalled" /\ rebate' = rebate
    BY <1>3 DEF Settle
  <1>6. offer' \in Terms /\ offer'.min = min
    BY <1>1, <1>4, <1>5 DEF TypeOK, Terms
  <1>7. PricingInv'
    BY <1>1, <1>5, <1>6, SettleStep DEF BelowMinimum, TypeOK
  <1>8. min > quoted.min
    BY <1>1, <1>2, <1>3, <1>4 DEF PricingInv, MinimumMet, BelowMinimum, Charged, Typed
  <1> QED
    BY <1>5, <1>6, <1>7, <1>8 DEF SellerNeverShort, BufferIsEnough, BelowMinimum

\* The corridor's unit is rounded towards the seller.
LEMMA UnitsFavourTheSeller ==
    ASSUME NEW price \in Nat, NEW out \in Nat, out >= toDestinationMinor(price)
    PROVE  out * Divisor >= price
  <1> DEFINE q == price \div Divisor
  <1>1. Divisor \in Nat \ {0}
    BY PricingAssumption
  <1>2. q \in Nat /\ price < q * Divisor + Divisor
    BY <1>1, FloorBounds
  <1>3. price % Divisor = 0 => price = q * Divisor
    BY <1>1, SMT
  <1> HIDE DEF q
  <1>4. CASE price % Divisor = 0
    <2>1. out >= q
      BY <1>4 DEF toDestinationMinor, q
    <2>2. out * Divisor >= q * Divisor
      BY <1>1, <1>2, <2>1
    <2> QED
      BY <1>3, <1>4, <2>2
  <1>5. CASE price % Divisor # 0
    <2>1. out >= q + 1
      BY <1>5 DEF toDestinationMinor, q
    <2>2. out * Divisor >= (q + 1) * Divisor
      BY <1>1, <1>2, <2>1
    <2>3. (q + 1) * Divisor = q * Divisor + Divisor
      BY <1>1, <1>2
    <2> QED
      BY <1>1, <1>2, <2>2, <2>3
  <1> QED
    BY <1>4, <1>5

LEMMA PayOutStep ==
    PricingInv /\ PayOut => PricingInv' /\ SellerNeverShort' /\ BufferIsEnough'
  <1> SUFFICES ASSUME PricingInv, PayOut
               PROVE PricingInv' /\ SellerNeverShort' /\ BufferIsEnough'
    OBVIOUS
  <1>1. TypeOK /\ Typed
    BY OrdersAreTyped DEF PricingInv
  <1>2. received \in Nat /\ net \in Nat /\ received >= net
    BY HandedIsEnough DEF PayOut
  <1> DEFINE floor == toDestinationMinor(order.price)
  <1>3. PICK cost \in Amounts, out \in Amounts, min \in Minimums :
          Settle([in |-> cost, out |-> out, min |-> min],
                 out >= floor /\ Affordable(cost), received - cost)
    BY DEF PayOut
  <1>4. cost \in Nat /\ out \in Nat /\ min \in Nat
    BY PricingAssumption
  <1>5. /\ offer' = [in |-> cost, out |-> out, min |-> min]
        /\ UNCHANGED <<order, quoted, net, lo, hi, amount, received>>
    BY <1>3 DEF Settle
  <1>6. \/ /\ out >= floor /\ cost <= received
           /\ phase' = "settled" /\ rebate' = received - cost
        \/ /\ ~(out >= floor /\ cost <= received)
           /\ phase' = "stalled" /\ rebate' = rebate
    BY <1>3 DEF Settle, Affordable
  <1>7. offer' \in Terms /\ offer'.in = cost /\ offer'.out = out
    BY <1>4, <1>5 DEF Terms
  <1>8. PricingInv'
    <2>1. rebate' \in Nat
      BY <1>1, <1>2, <1>4, <1>6 DEF TypeOK
    <2> QED
      BY <1>5, <1>6, <1>7, <2>1, SettleStep DEF PayOut
  <1>9. SellerNeverShort'
    <2>1. out >= floor => out * Divisor >= order.price
      BY <1>1, <1>4, UnitsFavourTheSeller DEF Typed
    <2> HIDE DEF floor
    <2> QED
      BY <1>2, <1>4, <1>5, <1>6, <1>7, <2>1 DEF SellerNeverShort, PayOut
  <1>10. BufferIsEnough'
    <2>1. SUFFICES ASSUME order.road = "bank", out >= floor, ~(cost <= received)
          PROVE cost * Bps > quoted.in * (Bps + order.buffer)
      <3>1. floor \in Int
        <4>1. order.price \div Divisor \in Nat
          BY <1>1, FloorBounds, PricingAssumption DEF Typed
        <4> QED
          BY <4>1 DEF toDestinationMinor
      <3>2. toDestinationMinor(order.price)' = floor
        BY <1>5 DEF toDestinationMinor
      <3> HIDE DEF floor
      <3> QED
        BY <1>4, <1>5, <1>6, <1>7, <3>1, <3>2 DEF BufferIsEnough, PayOut
    <2>2. (net + 1) * Bps > quoted.in * (Bps + order.buffer)
      BY <2>1 DEF PricingInv, NetCovers, PayOut, Charged
    <2>3. cost * Bps >= (net + 1) * Bps
      BY <1>2, <1>4, <2>1 DEF Bps
    <2>4. quoted.in * (Bps + order.buffer) \in Nat
      <3>1. quoted.in \in Nat /\ Bps + order.buffer \in Nat
        BY <1>1, TypedTerms
      <3> QED
        BY <3>1, Products
    <2> QED
      BY <1>2, <1>4, <2>2, <2>3, <2>4 DEF Bps
  <1> QED
    BY <1>8, <1>9, <1>10

LEMMA NoQuoteStep == PricingInv /\ NoQuote => PricingInv'
  <1> SUFFICES ASSUME PricingInv, NoQuote PROVE PricingInv'
    OBVIOUS
  <1>1. NoTerms \in Terms
    BY DEF NoTerms, Terms
  <1>2. TypeOK'
    BY <1>1 DEF NoQuote, PricingInv, TypeOK, Phases
  <1> QED
    BY <1>2 DEF NoQuote, PricingInv, SearchInv, SmallestGross, RequoteHasSize,
       NetCovers, MinimumMet, Handed, Clears, Charged

-----------------------------------------------------------------------------
(* What holds of every order.                                              *)

\* Every fact of the inductive invariant, and the two promises that rest on it.
AllPrices == PricingInv /\ SellerNeverShort /\ BufferIsEnough

LEMMA AllPricesStep == AllPrices /\ [Next]_vars => AllPrices'
  <1> SUFFICES ASSUME AllPrices, [Next]_vars PROVE AllPrices'
    OBVIOUS
  <1>1. PricingInv
    BY DEF AllPrices
  <1>2. ASSUME PricingInv', phase' \notin {"settled", "stalled"}
        PROVE AllPrices'
    BY <1>2 DEF AllPrices, SellerNeverShort, BufferIsEnough
  <1>3. CASE Probe
    BY <1>1, <1>2, <1>3, ProbeStep DEF Probe
  <1>4. CASE Requote
    BY <1>1, <1>2, <1>4, RequoteStep DEF Requote
  <1>5. CASE Estimate
    BY <1>1, <1>2, <1>5, EstimateStep DEF Estimate
  <1>6. CASE Corridor
    BY <1>1, <1>2, <1>6, CorridorStep DEF Corridor
  <1>7. CASE GrossUp
    BY <1>1, <1>2, <1>7, GrossUpStep DEF GrossUp
  <1>8. CASE Search
    BY <1>1, <1>2, <1>8, SearchStep DEF Search
  <1>9. CASE Found
    BY <1>1, <1>2, <1>9, FoundStep DEF Found
  <1>10. CASE Capture
    BY <1>1, <1>2, <1>10, CaptureStep DEF Capture
  <1>11. CASE Swap
    BY <1>1, <1>11, SwapStep DEF AllPrices
  <1>12. CASE BelowMinimum
    BY <1>1, <1>12, BelowMinimumStep DEF AllPrices
  <1>13. CASE PayOut
    BY <1>1, <1>13, PayOutStep DEF AllPrices
  <1>14. CASE NoQuote
    BY <1>1, <1>2, <1>14, NoQuoteStep DEF NoQuote
  <1>15. CASE UNCHANGED vars
    BY <1>15 DEF vars, AllPrices, PricingInv, TypeOK, SearchInv, SmallestGross,
       RequoteHasSize, NetCovers, MinimumMet, Handed, SellerNeverShort,
       BufferIsEnough, Enough, Clears, Charged
  <1> QED
    BY <1>3, <1>4, <1>5, <1>6, <1>7, <1>8, <1>9, <1>10, <1>11, <1>12, <1>13, <1>14,
       <1>15 DEF Next

LEMMA AllPricesHold == Spec => []AllPrices
  <1>1. Init => AllPrices
    BY PricingInit DEF Init, AllPrices, SellerNeverShort, BufferIsEnough
  <1> QED
    BY <1>1, AllPricesStep, PTL DEF Spec

\* fee.ts, the loop that raises the ceiling ("Ceiling division alone is neither
\* sufficient nor minimal"): it is sufficient for every net and every fee, so
\* the loop never runs and the model has no step for it.
THEOREM CeilingSuffices ==
    \A n \in Nat, fee \in 0..(Bps - 1) :
        netOfFee(ceilDiv(n * Bps, Bps - fee), fee) >= n
  BY CeilingIsEnough

\* Every reachable amount is a natural number, none is left negative by a fee
\* or a rebate, and no rate of zero is divided by.
THEOREM PricesAreTyped == Spec => []TypeOK
  <1>1. AllPrices => TypeOK
    BY DEF AllPrices, PricingInv
  <1> QED
    BY <1>1, AllPricesHold, PTL

\* The inductive invariant, for any prices, fees, buffers and answers of the
\* market.
THEOREM PricingCorrect == Spec => []PricingInv
  <1>1. AllPrices => PricingInv
    BY DEF AllPrices
  <1> QED
    BY <1>1, AllPricesHold, PTL

\* grossUpForFee charges the least that clears the net, whatever the fee.
THEOREM GrossIsSmallest == Spec => []SmallestGross
  <1>1. AllPrices => SmallestGross
    BY DEF AllPrices, PricingInv
  <1> QED
    BY <1>1, AllPricesHold, PTL

\* A settled order has handed the seller its price, in any unit of the corridor.
THEOREM SellerIsNeverShort == Spec => []SellerNeverShort
  <1>1. AllPrices => SellerNeverShort
    BY DEF AllPrices
  <1> QED
    BY <1>1, AllPricesHold, PTL

\* Settlement stalls only when the market moved by more than the buffer.
THEOREM BuffersSuffice == Spec => []BufferIsEnough
  <1>1. AllPrices => BufferIsEnough
    BY DEF AllPrices
  <1> QED
    BY <1>1, AllPricesHold, PTL

\* Every round of grossUpForFee halves what is left to search, for every net
\* and fee: the part of SearchEnds that is not about fairness.
THEOREM SearchIsShort == Spec => SearchHalves
  <1>1. AllPrices /\ [Next]_vars
          => [/\ phase = "search" /\ phase' = "search" =>
                   /\ hi' - lo' < hi - lo
                   /\ 2 * (hi' - lo') <= hi - lo]_<<phase, lo, hi>>
    <2> SUFFICES ASSUME AllPrices, [Next]_vars,
                        UNCHANGED <<phase, lo, hi>> => FALSE,
                        phase = "search", phase' = "search"
                 PROVE  hi' - lo' < hi - lo /\ 2 * (hi' - lo') <= hi - lo
      OBVIOUS
    <2>1. Search
      BY DEF Next, vars, Probe, Requote, Estimate, Corridor, GrossUp, Found,
             Capture, Swap, BelowMinimum, PayOut, NoQuote
    <2>2. lo \in Nat /\ hi \in Nat /\ lo < hi
      BY <2>1 DEF Search, AllPrices, PricingInv, TypeOK
    <2>3. PICK half \in Nat : /\ half = (hi - lo) \div 2
                             /\ 2 * half <= hi - lo /\ hi - lo <= 2 * half + 1
      BY <2>2
    <2>4. CASE hi' = middle /\ lo' = lo
      BY <2>2, <2>3, <2>4 DEF middle
    <2>5. CASE lo' = middle + 1 /\ hi' = hi
      BY <2>2, <2>3, <2>5 DEF middle
    <2> QED
      BY <2>1, <2>4, <2>5 DEF Search
  <1> QED
    BY <1>1, AllPricesHold, PTL DEF Spec, SearchHalves
=============================================================================
