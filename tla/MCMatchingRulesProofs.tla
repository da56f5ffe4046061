------------------------ MODULE MCMatchingRulesProofs ------------------------
(***************************************************************************)
(* The invariants of MCMatchingRules that the theorems about the rules     *)
(* give, for any settings: an output is what the rules give for the input. *)
(***************************************************************************)
EXTENDS MCMatchingRules, MatchingRulesProofs, QuoteRulesProofs, SequenceTheorems

(***************************************************************************)
(* Inputs.                                                                 *)
(***************************************************************************)

LEMMA Kinds ==
  /\ \A in \in FilterInputs : in.kind = "filter"
  /\ \A in \in ValidatorInputs : in.kind = "validator"
  /\ \A in \in WinnerInputs : in.kind = "winner"
  /\ \A in \in PriceInputs : in.kind = "price"
  /\ \A in \in TickInputs : in.kind = "ticks"
<1>1. \A in \in FilterInputs : in.kind = "filter"
  BY DEF FilterInputs
<1>2. \A in \in ValidatorInputs : in.kind = "validator"
  BY DEF ValidatorInputs
<1>3. \A in \in WinnerInputs : in.kind = "winner"
  BY DEF WinnerInputs
<1>4. \A in \in PriceInputs : in.kind = "price"
  BY DEF PriceInputs
<1>5. \A in \in TickInputs : in.kind = "ticks"
  BY DEF TickInputs
<1> QED BY <1>1, <1>2, <1>3, <1>4, <1>5

LEMMA PriceReplies ==
  ASSUME NEW in \in PriceInputs, NEW s \in Sources
  PROVE  in.reply[s] \in SourceReplies
<1>1. in.reply \in [chainlink : {Failed, 0} \union 92..108, binance : {Failed, 90, 95, 100, 101, 106, 112},
                    pancake : {Failed, 0, 55, 58, 59, 60, 61, 62}]
  BY DEF PriceInputs
<1>2. in.reply.chainlink \in SourceReplies /\ in.reply.binance \in SourceReplies /\ in.reply.pancake \in SourceReplies
  BY <1>1 DEF SourceReplies
<1> QED BY <1>2 DEF Sources

LEMMA LengthOfTuple ==
  ASSUME NEW S, NEW n \in Nat, NEW f \in [1..n -> S]
  PROVE  Len(f) = n
<1>1. f \in Seq(S)
  BY SeqDef
<1>2. DOMAIN f = 1..Len(f) /\ Len(f) \in Nat
  BY <1>1, LenProperties
<1> QED BY <1>2

LEMMA LongTicksOK ==
  ASSUME NEW tick \in LongTicks
  PROVE  TickOK(tick)
<1>1. tick.message \in {NoTicker} \union {Ticker(m) : m \in {10000, 10004, 10008}}
  BY DEF LongTicks
<1>2. tick.message.bid \in Nat /\ tick.message.ask \in Nat
  BY <1>1 DEF NoTicker, Ticker
<1>3. tick.reply \in {Reply(Failed, r, Failed) : r \in {Failed, 10600}}
  BY DEF LongTicks
<1>4. \A s \in Sources : tick.reply[s] \in SourceReplies
  BY <1>3 DEF Reply, Sources, SourceReplies
<1>5. tick.inv \in {Inventory(100, 1000000), Inventory(180, 200000)}
  BY DEF LongTicks
<1>6. tick.inv \in Inventories
  BY <1>5 DEF Inventory, Inventories
<1> QED BY <1>2, <1>4, <1>6 DEF TickOK

LEMMA BrokenTicksOK ==
  ASSUME NEW tick \in BrokenTicks
  PROVE  TickOK(tick)
<1>1. tick.message \in {Ticker(m) : m \in {10000, 10004, 10008}}
  BY DEF BrokenTicks
<1>2. tick.message.bid \in Nat /\ tick.message.ask \in Nat
  BY <1>1 DEF Ticker
<1>3. tick.reply = Reply(Failed, Failed, Failed)
  BY DEF BrokenTicks
<1>4. \A s \in Sources : tick.reply[s] \in SourceReplies
  BY <1>3 DEF Reply, Sources, SourceReplies
<1>5. tick.inv \in {Inventory(100, 1000000), Inventory(180, 200000)}
  BY DEF BrokenTicks
<1>6. tick.inv \in Inventories
  BY <1>5 DEF Inventory, Inventories
<1> QED BY <1>2, <1>4, <1>6 DEF TickOK

LEMMA MixedTicksOK ==
  ASSUME NEW tick \in MixedTicks
  PROVE  TickOK(tick)
<1>1. tick.message \in {NoTicker, Ticker(10000), [bid |-> 10002, ask |-> 9998]}
  BY DEF MixedTicks
<1>2. tick.message.bid \in Nat /\ tick.message.ask \in Nat
  BY <1>1 DEF NoTicker, Ticker
<1>3. tick.reply \in [chainlink : {Failed, 10003}, binance : {Failed, 10060}, pancake : {Failed, 6, 5}]
  BY DEF MixedTicks
<1>4. \A s \in Sources : tick.reply[s] \in SourceReplies
  BY <1>3 DEF Sources, SourceReplies
<1>5. tick.inv \in {Inventory(100, 1000000)}
  BY DEF MixedTicks
<1>6. tick.inv \in Inventories
  BY <1>5 DEF Inventory, Inventories
<1> QED BY <1>2, <1>4, <1>6 DEF TickOK

LEMMA EdgeTicksOK ==
  ASSUME NEW tick \in EdgeTicks
  PROVE  TickOK(tick)
<1>1. tick.message \in {Ticker(m) : m \in {5000, 10000, 20000}}
  BY DEF EdgeTicks
<1>2. tick.message.bid \in Nat /\ tick.message.ask \in Nat
  BY <1>1 DEF Ticker
<1>3. tick.reply \in {Reply(Failed, Failed, Failed)}
  BY DEF EdgeTicks
<1>4. \A s \in Sources : tick.reply[s] \in SourceReplies
  BY <1>3 DEF Reply, Sources, SourceReplies
<1>5. PICK b \in {0, 2, 4, 5, 20, 60, 100, 180}, q \in {0, 10000, 20000, 49999, 50000, 200000, 1000000} :
        tick.inv = Inventory(b, q)
  BY DEF EdgeTicks
<1>6. tick.inv \in Inventories
  BY <1>5 DEF Inventory, Inventories
<1> QED BY <1>2, <1>4, <1>6 DEF TickOK

\* What the inputs of the ticks are made of.
LEMMA TickInputsOK ==
  ASSUME NEW in \in TickInputs
  PROVE  /\ Len(in.ticks) \in Nat
         /\ \A i \in 1..Len(in.ticks) : TickOK(in.ticks[i])
         /\ WeightsOK(FeedWeights(in.sources))
<1>1. \/ in.ticks \in [1..3 -> LongTicks \union BrokenTicks] \/ in.ticks \in [1..1 -> EdgeTicks]
      \/ in.ticks \in [1..2 -> MixedTicks]
  BY DEF TickInputs
<1>2. in.sources \in {OnlyBinance, PancakeFirst, << >>}
  BY DEF TickInputs
<1>3. WeightsOK(FeedWeights(in.sources))
  BY <1>2 DEF FeedWeights, WeightsOK, OnlyBinance, PancakeFirst
<1>4. CASE in.ticks \in [1..3 -> LongTicks \union BrokenTicks]
  <2>1. Len(in.ticks) = 3
    BY <1>4, LengthOfTuple
  <2> QED BY <1>3, <1>4, <2>1, LongTicksOK, BrokenTicksOK
<1>5. CASE in.ticks \in [1..1 -> EdgeTicks]
  <2>1. Len(in.ticks) = 1
    BY <1>5, LengthOfTuple
  <2> QED BY <1>3, <1>5, <2>1, EdgeTicksOK
<1>6. CASE in.ticks \in [1..2 -> MixedTicks]
  <2>1. Len(in.ticks) = 2
    BY <1>6, LengthOfTuple
  <2> QED BY <1>3, <1>6, <2>1, MixedTicksOK
<1> QED BY <1>1, <1>4, <1>5, <1>6

\* The orders and the matches that the validator is given.
LEMMA ValidatorInputsOK ==
  ASSUME NEW in \in ValidatorInputs
  PROVE  SnapOK(in.snap) /\ RawsOK(in.raws) /\ in.fair \in Nat
<1>1. in.fair \in Nat
  BY DEF ValidatorInputs
<1>2. SnapOK(in.snap)
  <2>1. PICK w \in {1, 2}, f, g \in {0, 1}, l1, l2 \in {2, 3} :
          in.snap = [s1 |-> [side |-> "sell", wallet |-> w, amount |-> MaxFill, filled |-> f, limit |-> l1],
                     s2 |-> [side |-> "sell", wallet |-> 3, amount |-> MaxFill, filled |-> 0, limit |-> 1],
                     b1 |-> [side |-> "buy", wallet |-> 2, amount |-> MaxFill, filled |-> g, limit |-> l2]]
    BY DEF ValidatorInputs, Snapshots
  <2>2. DOMAIN in.snap = {"s1", "s2", "b1"}
    BY <2>1
  <2>3. /\ in.snap["s1"] = [side |-> "sell", wallet |-> w, amount |-> MaxFill, filled |-> f, limit |-> l1]
        /\ in.snap["s2"] = [side |-> "sell", wallet |-> 3, amount |-> MaxFill, filled |-> 0, limit |-> 1]
        /\ in.snap["b1"] = [side |-> "buy", wallet |-> 2, amount |-> MaxFill, filled |-> g, limit |-> l2]
    BY <2>1
  <2>4. MaxFill \in Nat /\ MaxFill >= 1
    BY BoundsAssumption
  <2> QED BY <2>2, <2>3, <2>4 DEF SnapOK
<1>3. RawsOK(in.raws)
  <2>1. \A r \in RawMatches : RawOK(r)
    <3>1. 0..MaxFill \subseteq Nat /\ 2 \in Nat /\ MaxPrice \in Nat
      BY BoundsAssumption
    <3> QED BY <3>1 DEF RawMatches, RawOK
  <2>2. \A r \in [maker : {"s1"}, taker : {"b1"}, fill : 1..MaxFill, price : {2}] : RawOK(r)
    <3>1. 1..MaxFill \subseteq Nat
      BY BoundsAssumption
    <3> QED BY <3>1 DEF RawOK
  <2>3. \/ \E r \in RawMatches : in.raws = <<r>>
        \/ \E r1 \in [maker : {"s1"}, taker : {"b1"}, fill : 1..MaxFill, price : {2}], r2 \in RawMatches :
             in.raws = <<r1, r2>>
    BY DEF ValidatorInputs
  <2>4. CASE \E r \in RawMatches : in.raws = <<r>>
    <3>1. PICK r \in RawMatches : in.raws = <<r>> BY <2>4
    <3>2. Len(in.raws) = 1 /\ DOMAIN in.raws = 1..1 /\ in.raws[1] = r BY <3>1
    <3> QED BY <2>1, <3>2 DEF RawsOK
  <2>5. CASE \E r1 \in [maker : {"s1"}, taker : {"b1"}, fill : 1..MaxFill, price : {2}], r2 \in RawMatches :
               in.raws = <<r1, r2>>
    <3>1. PICK r1 \in [maker : {"s1"}, taker : {"b1"}, fill : 1..MaxFill, price : {2}], r2 \in RawMatches :
            in.raws = <<r1, r2>>
      BY <2>5
    <3>2. Len(in.raws) = 2 /\ DOMAIN in.raws = 1..2 /\ in.raws[1] = r1 /\ in.raws[2] = r2 BY <3>1
    <3> QED BY <2>1, <2>2, <3>2 DEF RawsOK
  <2> QED BY <2>3, <2>4, <2>5
<1> QED BY <1>1, <1>2, <1>3

\* The volumes the winner is chosen by.
LEMMA WinnerInputsOK ==
  ASSUME NEW in \in WinnerInputs
  PROVE  DOMAIN StrategyResults(in) = 1..3 /\ VolumesOK(StrategyResults(in))
<1>1. DOMAIN StrategyResults(in) = 1..3
  BY DEF StrategyResults
<1>2. ASSUME NEW i \in 1..3 PROVE ProposedVolume(StrategyResults(in)[i]) \in Nat
  <2>1. PICK reply \in Replies : reply = in.replies[i]
    BY DEF WinnerInputs
  <2>2. PICK result : result = StrategyResults(in)[i]
    OBVIOUS
  <2>3. result.matches \in {<< >>, reply.matches}
    BY <2>1, <2>2 DEF StrategyResults, CallTee
  <2>4. reply.matches = << >> \/ \E v \in 0..MaxFill : reply.matches = <<[fill |-> v]>>
    BY DEF Replies
  <2>5. PICK ms : ms = result.matches
    OBVIOUS
  <2>6. IsFiniteSet(DOMAIN ms) /\ \A j \in DOMAIN ms : ms[j].fill \in Nat
    <3>1. CASE ms = << >>
      BY <3>1, FS_EmptySet
    <3>2. CASE \E v \in 0..MaxFill : ms = <<[fill |-> v]>>
      <4>1. PICK v \in 0..MaxFill : ms = <<[fill |-> v]>> BY <3>2
      <4>2. DOMAIN ms = {1} /\ ms[1].fill = v BY <4>1
      <4>3. IsFiniteSet(DOMAIN ms)
        BY <4>2, FS_Singleton, Zenon
      <4> QED BY <4>2, <4>3
    <3> QED BY <2>3, <2>4, <2>5, <3>1, <3>2
  <2>7. PICK f : f = [j \in DOMAIN ms |-> ms[j].fill]
    OBVIOUS
  <2>8. ProposedVolume(result) = SumFunctionOnSet(f, DOMAIN ms)
    BY <2>5, <2>7, SumOver DEF ProposedVolume
  <2>9. SumFunctionOnSet(f, DOMAIN ms) \in Nat
    BY <2>6, <2>7, SumNat
  <2> QED BY <2>2, <2>8, <2>9
<1> QED BY <1>1, <1>2 DEF VolumesOK

(***************************************************************************)
(* Outputs.                                                                *)
(***************************************************************************)

Inputs == UNION {FilterInputs, ValidatorInputs, WinnerInputs, PriceInputs, TickInputs}

\* What the rules give for the input.
OutputIsRules ==
  /\ input \in Inputs
  /\ input.kind = "filter" =>
       output \in {Pending, WashFilter({"buy"} \X input.buyers, {"sell"} \X input.sellers, Owner)}
  /\ input.kind = "validator" =>
       output \in {Pending, Validate(input.raws, input.snap, input.fair, NoPrice)}
  /\ input.kind = "winner" => output \in {Pending, Winner(StrategyResults(input), input.verdict)}
  /\ input.kind = "price" => output \in {Pending, PricingQuote(input.reply, input.last)}
  /\ input.kind = "ticks" =>
       \/ output = Pending
       \/ /\ output.ticks \in 1..Len(input.ticks)
          /\ BotOK(output.bot, input.ticks[output.ticks].inv)

THEOREM OutputsAreRules == Spec => []OutputIsRules
<1>1. Init => OutputIsRules
  BY DEF Init, OutputIsRules, Inputs
<1>2. OutputIsRules /\ [Next]_vars => OutputIsRules'
  <2> SUFFICES ASSUME OutputIsRules, [Next]_vars PROVE OutputIsRules'
    OBVIOUS
  <2>1. CASE Filter
    <3>1. input' = input /\ input.kind = "filter"
          /\ output' = WashFilter({"buy"} \X input.buyers, {"sell"} \X input.sellers, Owner)
      BY <2>1 DEF Filter
    <3> QED BY <3>1 DEF OutputIsRules
  <2>2. CASE ValidateRound
    <3>1. /\ input' = input /\ input.kind = "validator"
          /\ output' = Validate(input.raws, input.snap, input.fair, NoPrice)
      BY <2>2 DEF ValidateRound
    <3> QED BY <3>1 DEF OutputIsRules
  <2>3. CASE ChooseWinner
    <3>1. /\ input' = input /\ input.kind = "winner"
          /\ output' = Winner(StrategyResults(input), input.verdict)
      BY <2>3 DEF ChooseWinner
    <3> QED BY <3>1 DEF OutputIsRules
  <2>4. CASE QuotePrice
    <3>1. input' = input /\ input.kind = "price" /\ output' = PricingQuote(input.reply, input.last)
      BY <2>4 DEF QuotePrice
    <3> QED BY <3>1 DEF OutputIsRules
  <2>5. CASE RunTick
    <3> DEFINE i == TicksDone + 1
               after == Tick(Bot, FeedWeights(input.sources), input.ticks[i])
    <3>1. /\ input' = input /\ input.kind = "ticks" /\ TicksDone < Len(input.ticks)
          /\ output' = [bot |-> after, ticks |-> i]
      BY <2>5 DEF RunTick
    <3>2. input \in TickInputs
      BY <3>1, Kinds DEF OutputIsRules, Inputs
    <3>3. /\ Len(input.ticks) \in Nat /\ WeightsOK(FeedWeights(input.sources))
          /\ \A j \in 1..Len(input.ticks) : TickOK(input.ticks[j])
      BY <3>2, TickInputsOK
    <3>4. TicksDone \in Nat /\ i \in 1..Len(input.ticks)
      BY <3>1, <3>3 DEF TicksDone, OutputIsRules
    <3>5. RecordOK(Bot)
      <4>1. CASE output = Pending
        <5>1. PricesOK({})
          BY FS_EmptySet DEF PricesOK
        <5>2. /\ NewBot.cache.mid = 0 /\ NewBot.prices = {} /\ NewBot.quoted.mid = NoPrice
              /\ ~NewBot.listed.sides.bid /\ ~NewBot.listed.sides.ask
          BY DEF NewBot, NoMid, NotQuoting, NotListed, NoSide, NoPrice
        <5>3. RecordOK(NewBot)
          BY <5>1, <5>2 DEF RecordOK, Standing, NoPrice
        <5> QED BY <4>1, <5>3 DEF Bot
      <4>2. CASE output # Pending
        BY <3>1, <4>2 DEF Bot, BotOK, OutputIsRules
      <4> QED BY <4>1, <4>2
    <3>6. TickOK(input.ticks[i])
      BY <3>3, <3>4
    <3>7. BotOK(after, input.ticks[i].inv)
      <4> HIDE DEF i
      <4> QED BY <3>3, <3>5, <3>6, TickKeepsBotOK
    <3>8. output'.ticks = i /\ output'.bot = after
      BY <3>1
    <3> HIDE DEF i, after
    <3> QED BY <3>1, <3>4, <3>7, <3>8 DEF OutputIsRules
  <2>6. CASE UNCHANGED vars
    BY <2>6 DEF vars, OutputIsRules
  <2> QED BY <2>1, <2>2, <2>3, <2>4, <2>5, <2>6 DEF Next
<1> QED BY <1>1, <1>2, PTL DEF Spec

(***************************************************************************)
(* The invariants.                                                         *)
(***************************************************************************)

\* No round can match a wallet with itself.
THEOREM WalletsSeparated == Spec => []FilterSeparatesWallets
<1>1. OutputIsRules => FilterSeparatesWallets
  <2> SUFFICES ASSUME OutputIsRules, Ready("filter")
               PROVE  WalletsOf(output.buys, Owner) \intersect WalletsOf(output.sells, Owner) = {}
    BY DEF FilterSeparatesWallets
  <2>1. output = WashFilter({"buy"} \X input.buyers, {"sell"} \X input.sellers, Owner)
    BY DEF OutputIsRules, Ready
  <2>2. \A b \in output.buys, s \in output.sells : Owner[b] # Owner[s]
    BY <2>1, FilterSeparates
  <2> QED BY <2>2 DEF WalletsOf
<1> QED BY <1>1, OutputsAreRules, PTL

\* A trade between two wallets is never filtered away altogether.
THEOREM TradesKept == Spec => []FilterKeepsTrade
<1>1. OutputIsRules => FilterKeepsTrade
  <2> SUFFICES ASSUME OutputIsRules, Ready("filter"),
                      NEW b \in input.buyers, NEW s \in input.sellers, b # s
               PROVE  output.buys # {} /\ output.sells # {}
    BY DEF FilterKeepsTrade
  <2> DEFINE buys == {"buy"} \X input.buyers
             sells == {"sell"} \X input.sellers
  <2>1. output = WashFilter(buys, sells, Owner)
    BY DEF OutputIsRules, Ready
  <2>2. input \in FilterInputs
    BY Kinds DEF OutputIsRules, Inputs, Ready
  <2>3. input.buyers \subseteq FilterWallets /\ input.sellers \subseteq FilterWallets
    BY <2>2 DEF FilterInputs
  <2>4. \A o \in buys \union sells : o \in {"buy", "sell"} \X FilterWallets /\ o[2] \in Nat
    BY <2>3, WalletsAssumption
  <2>5. \A o \in buys \union sells : Owner[o] = o[2]
    BY <2>4 DEF Owner
  <2>6. <<"buy", b>> \in buys /\ <<"sell", s>> \in sells
    OBVIOUS
  <2>7. Owner[<<"buy", b>>] # Owner[<<"sell", s>>]
    BY <2>5, <2>6
  <2>8. \A o \in buys \union sells : Owner[o] \in Nat
    BY <2>4, <2>5
  <2> HIDE DEF buys, sells
  <2> QED BY <2>1, <2>6, <2>7, <2>8, FilterKeeps
<1> QED BY <1>1, OutputsAreRules, PTL

\* What the validator accepts honours both orders, at the right quote, and fits
\* what they have left.
THEOREM RoundsFit == Spec => []AcceptedFits
<1>1. OutputIsRules => AcceptedFits
  <2> SUFFICES ASSUME OutputIsRules, Ready("validator") PROVE AcceptedFits
    BY DEF AcceptedFits
  <2>1. output = Validate(input.raws, input.snap, input.fair, NoPrice)
    BY DEF OutputIsRules, Ready
  <2>2. SnapOK(input.snap) /\ RawsOK(input.raws) /\ input.fair \in Nat
    <3>1. input \in ValidatorInputs
      BY Kinds DEF OutputIsRules, Inputs, Ready
    <3> QED BY <3>1, ValidatorInputsOK
  <2>3. PICK ms, snap : ms = output.accepted /\ snap = input.snap
    OBVIOUS
  <2>4. ms \in Seq(MatchesOf(snap)) /\ \A o \in DOMAIN snap : FillIn(ms, o) <= Room(snap[o])
    BY <2>1, <2>2, <2>3, AcceptedFit
  <2>5. \A i \in DOMAIN ms : Honours(ms[i], snap)
    BY <2>4 DEF MatchesOf
  <2> QED BY <2>3, <2>4, <2>5 DEF AcceptedFits, Honours
<1> QED BY <1>1, OutputsAreRules, PTL

\* A round is applied exactly when it is sound as a whole.
THEOREM RoundsSound == Spec => []RoundAppliedIffSound
<1>1. OutputIsRules => RoundAppliedIffSound
  <2> SUFFICES ASSUME OutputIsRules, Ready("validator") PROVE RoundAppliedIffSound
    BY DEF RoundAppliedIffSound
  <2>1. output = Validate(input.raws, input.snap, input.fair, NoPrice)
    BY DEF OutputIsRules, Ready
  <2>2. SnapOK(input.snap) /\ RawsOK(input.raws) /\ input.fair \in Nat
    <3>1. input \in ValidatorInputs
      BY Kinds DEF OutputIsRules, Inputs, Ready
    <3> QED BY <3>1, ValidatorInputsOK
  <2>3. (Applied(output) # << >>) <=> (Sound(input.raws, input.snap) /\ Len(input.raws) # 0)
    <3>1. ~VolatilityHolds(input.fair, NoPrice)
      BY DEF VolatilityHolds
    <3> QED BY <2>1, <2>2, <3>1, AppliedIffSound
  <2>4. Len(input.raws) # 0 <=> input.raws # << >>
    <3>1. ASSUME Len(input.raws) = 0 PROVE input.raws = << >>
      <4>1. DOMAIN input.raws = {} /\ input \in ValidatorInputs
        BY <2>2, <3>1, Kinds DEF RawsOK, OutputIsRules, Inputs, Ready
      <4> QED BY <4>1 DEF ValidatorInputs
    <3> QED BY <3>1
  <2> QED BY <2>3, <2>4 DEF RoundAppliedIffSound, Sound, Claim
<1> QED BY <1>1, OutputsAreRules, PTL

\* A round is not lost to the judge or to a strategy that failed.
THEOREM RoundNotLost == Spec => []WinnerProposes
<1>1. OutputIsRules => WinnerProposes
  <2> SUFFICES ASSUME OutputIsRules, Ready("winner"), NEW i \in 1..3, ~StrategyResults(input)[i].error,
                      ProposedVolume(StrategyResults(input)[i]) > 0
               PROVE  output.matches # << >>
    BY DEF WinnerProposes
  <2>1. output = Winner(StrategyResults(input), input.verdict)
    BY DEF OutputIsRules, Ready
  <2>2. DOMAIN StrategyResults(input) = 1..3 /\ VolumesOK(StrategyResults(input))
    <3>1. input \in WinnerInputs
      BY Kinds DEF OutputIsRules, Inputs, Ready
    <3> QED BY <3>1, WinnerInputsOK
  <2>3. IsFiniteSet(1..3)
    <3>1. 1 \in Int /\ 3 \in Int OBVIOUS
    <3> QED BY <3>1, FS_Interval, Zenon
  <2>4. 1..3 \subseteq Nat
    OBVIOUS
  <2> QED BY <2>1, <2>2, <2>3, <2>4, WinnerKeepsRound
<1> QED BY <1>1, OutputsAreRules, PTL

\* One wrong source of three hardly moves the fair price.
THEOREM OneSourceIsHarmless == Spec => []FairPriceRobust
<1>1. OutputIsRules => FairPriceRobust
  <2> DEFINE price == FetchAll(input.reply)
  <2> SUFFICES ASSUME OutputIsRules, Ready("price"), Answered(price) = Sources,
                      NEW s \in Sources, NEW t \in Sources, s # t, price[s] <= price[t]
               PROVE  /\ 100 * output.mid >= price[s] * (200 - PriceOutlierPct)
                      /\ 100 * output.mid <= price[t] * (200 + PriceOutlierPct)
    BY DEF FairPriceRobust
  <2>1. output = PricingQuote(input.reply, input.last)
    BY DEF OutputIsRules, Ready
  <2>2. input \in PriceInputs
    BY Kinds DEF OutputIsRules, Inputs, Ready
  <2>3. \A r \in Sources : price[r] \in Nat \ {0}
    <3>1. \A r \in Sources : price[r] \in Nat
      <4>1. input.reply["chainlink"] \in SourceReplies /\ input.reply["binance"] \in SourceReplies
            /\ input.reply["pancake"] \in SourceReplies
        BY <2>2, PriceReplies DEF Sources
      <4>2. /\ ChainlinkPrice(input.reply["chainlink"]) \in Nat
            /\ BinancePrice(input.reply["binance"]) \in Nat
            /\ PancakePrice(input.reply["pancake"]) \in Nat
        BY <4>1, SourcePrices
      <4> QED BY <4>2 DEF FetchAll, Sources
    <3>2. \A r \in Sources : price[r] # NoPrice
      BY DEF Answered
    <3> QED BY <3>1, <3>2 DEF NoPrice
  <2>4. output.mid = FairPrice(price)
    BY <2>1 DEF PricingQuote, NoPrice
  <2> HIDE DEF price
  <2>5. /\ 100 * FairPrice(price) >= price[s] * (200 - PriceOutlierPct)
        /\ 100 * FairPrice(price) <= price[t] * (200 + PriceOutlierPct)
    BY <2>3, MedianRobust
  <2> QED BY <2>4, <2>5
<1> QED BY <1>1, OutputsAreRules, PTL

\* After every sequence of ticks, the quotes that the last refresh listed are
\* on both sides of the price and on allowed sides, if that refresh ended.
THEOREM QuotesStraddle == Spec => []QuotesStraddlePrice
<1>1. OutputIsRules => QuotesStraddlePrice
  <2> DEFINE bot == output.bot
             inv == input.ticks[output.ticks].inv
  <2> SUFFICES ASSUME OutputIsRules, Ready("ticks"), bot.listed.whole
               PROVE  /\ bot.listed.sides.bid => BidPrice(bot.listed.mid, bot.listed.bps) < 20000 * bot.mid
                      /\ bot.listed.sides.ask => 20000 * bot.mid < AskPrice(bot.listed.mid, bot.listed.bps)
                      /\ \A s \in {"bid", "ask"} : bot.listed.sides[s] => Sides(inv, bot.mid)[s]
    BY DEF QuotesStraddlePrice
  <2>1. BotOK(bot, inv)
    BY DEF OutputIsRules, Ready
  <2> HIDE DEF bot, inv
  <2>2. CASE bot.quoted.mid = NoPrice
    <3>1. ~bot.listed.sides["bid"] /\ ~bot.listed.sides["ask"]
      BY <2>1, <2>2 DEF BotOK, RecordOK
    <3> QED BY <3>1
  <2>3. CASE bot.quoted.mid # NoPrice
    <3>1. /\ bot.listed.sides["bid"] => bot.quoted.sides["bid"]
          /\ bot.listed.sides["ask"] => bot.quoted.sides["ask"]
          /\ bot.quoted.sides = Sides(inv, bot.mid)
          /\ BidPrice(bot.listed.mid, bot.listed.bps) < 20000 * bot.mid
          /\ 20000 * bot.mid < AskPrice(bot.listed.mid, bot.listed.bps)
      BY <2>1, <2>3 DEF BotOK, RecordOK, Standing
    <3> QED BY <3>1
  <2> QED BY <2>2, <2>3
<1> QED BY <1>1, OutputsAreRules, PTL

\* A bot that has its capital may always quote some side.
THEOREM QuotesSomeSide == Spec => []SomeSideQuoted
<1>1. OutputIsRules => SomeSideQuoted
  <2> DEFINE bot == output.bot
             inv == input.ticks[output.ticks].inv
  <2> SUFFICES ASSUME OutputIsRules, Ready("ticks"), bot.listed.whole, bot.quoted.mid # NoPrice,
                      ~bot.quoted.sides.bid, ~bot.quoted.sides.ask
               PROVE  MaxExposurePct * Total(inv, bot.mid) < MinInventoryPct * InitialTotal(inv, bot.mid)
    BY DEF SomeSideQuoted
  <2>1. output.ticks \in 1..Len(input.ticks) /\ BotOK(bot, inv)
    BY DEF OutputIsRules, Ready
  <2>2. input \in TickInputs
    BY Kinds DEF OutputIsRules, Inputs, Ready
  <2>3. inv \in Inventories
    BY <2>1, <2>2, TickInputsOK DEF TickOK
  <2>4. bot.mid \in Nat \ {0} /\ bot.quoted.sides = Sides(inv, bot.mid)
    BY <2>1 DEF BotOK, Standing
  <2>5. ~CanBid(inv, bot.mid) /\ ~CanAsk(inv, bot.mid)
    <3> HIDE DEF bot, inv
    <3>1. Sides(inv, bot.mid).bid = CanBid(inv, bot.mid) /\ Sides(inv, bot.mid).ask = CanAsk(inv, bot.mid)
      BY DEF Sides
    <3> QED BY <2>4, <3>1
  <2> HIDE DEF bot, inv
  <2> QED BY <2>3, <2>4, <2>5, SomeSideAllowed
<1> QED BY <1>1, OutputsAreRules, PTL
=============================================================================
