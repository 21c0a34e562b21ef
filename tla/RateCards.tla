----------------------------- MODULE RateCards ------------------------------
(* What a job costs: the insert-only rate cards and the two operators who       *)
(* supersede them from the dashboard, and one order of one vehicle class from   *)
(* its booking to its payment, as its price is worked out, waits and return     *)
(* loads are added, and money is taken.                                         *)
(* Whole francs; distances on a card and factors are in tenths.                 *)
EXTENDS Integers, Sequences

CONSTANTS
    Operators,   \* staff with the rate card open
    FirstCard,   \* the card the migrations left in force
    DieselPrices, HourlyRates,   \* figures an operator may type
    Routes,      \* pinned routes: [km, terrain], terrain 0 where no corridor matches
    Weight,      \* of the order's load
    Waits,       \* minutes kept waiting
    MaxCards,    \* bound: cards written
    MaxKm,       \* how far NoPriceCliff looks
    Steepest     \* what one kilometre more may add to a price

NoRoute == [km |-> 0, terrain |-> 0]
NoKm    == 0                                 \* NULL in return_leg_full_km
Fields  == {"diesel", "perHour"}             \* of EDITABLE, the two that matter here
Figures == [diesel |-> DieselPrices, perHour |-> HourlyRates]

VARIABLES
    cards,       \* pricing_rates, in the order of effective_from, id
    panel,       \* RateCardPanel of each operator
    order,       \* status, pinned, payment_status
    bill,        \* the order's money columns
    placing,     \* placeOneOrder under way
    late         \* ghost: a price landed on an order that had waited, or been credited

vars == <<cards, panel, order, bill, placing, late>>

-----------------------------------------------------------------------------
(* Arithmetic *)

\* Math.round, of n / d.
Round(n, d) == (2 * n + d) \div (2 * d)
Least(a, b) == IF a < b THEN a ELSE b
Most(a, b)  == IF a > b THEN a ELSE b

\* How much of the empty leg is charged, as n / d: in full past the band, and
\* in proportion within it.
Ramp(card, road) ==
    LET full == IF card.full = NoKm THEN card.beyond ELSE card.full
        band == full - card.beyond
    IN CASE road <= card.beyond -> [n |-> 0, d |-> 1]
         [] road > card.beyond /\ band > 0 -> [n |-> Least(band, road - card.beyond), d |-> band]
         [] OTHER -> [n |-> 1, d |-> 1]

\* What hills cost: as on the corridor the route runs through, or the card's own.
Terrain(card, route) == IF route.terrain # 0 THEN route.terrain ELSE card.terrain

Quote(card, route) ==
    LET road    == route.km * card.road
        city    == Least(road, card.taper)
        open    == road - city
        terrain == Terrain(card, route)
        out     == card.litres * card.diesel * (city * 10 + open * terrain)   \* in 1/100
        ramp    == Ramp(card, road)
        back    == out * card.share * ramp.n                                  \* in 1/(1000 ramp.d)
        service == 10 * (card.base + Weight * card.perKg) + city * card.perKm + open * card.perKmLong
        total   == Most(Round(10 * ramp.d * out + back + 100 * ramp.d * service, 1000 * ramp.d),
                        card.minimum)
        fee     == Least(Most(Round(service * card.commission, 1000), card.minimumFee), total)
    IN [total |-> total, fee |-> fee, net |-> total - fee, leg |-> Round(back, 1000 * ramp.d)]

\* In whole minutes past the free ones.
DetentionCharge(card, waited) == Round(Most(0, waited - card.free) * card.perHour, 60)

-----------------------------------------------------------------------------
OrderRows == [status : {"PENDING", "ASSIGNED", "AT_PICKUP", "IN_TRANSIT", "ARRIVED", "DELIVERED"},
              pinned : BOOLEAN, payment : {"UNPAID", "PENDING", "PAID", "FAILED"}]

TypeOK ==
    /\ Len(cards) \in 1..MaxCards
    /\ \A o \in Operators : panel[o].shown \in 1..Len(cards) /\ panel[o].base \in 0..Len(cards)
                            /\ panel[o].at \in {"idle", "sent", "read", "loading"}
    /\ order \in OrderRows
    /\ bill.rate \in 1..Len(cards) /\ late \in BOOLEAN

Draft(card) == [f \in Fields |-> card[f]]
Nothing     == [f \in {} |-> 0]

\* The order just booked: firm where both ends were pinned, an estimate where not.
Init ==
    /\ cards = <<FirstCard>>
    /\ panel = [o \in Operators |-> [shown |-> 1, base |-> 0, typed |-> {}, draft |-> Draft(FirstCard),
                                     sent |-> Nothing, at |-> "idle"]]
    /\ \E route \in Routes \union {NoRoute} :
         LET price == Quote(FirstCard, route) IN
         /\ order = [status |-> "PENDING", pinned |-> route # NoRoute, payment |-> "UNPAID"]
         /\ bill = [rate |-> 1, fare |-> price.total, total |-> price.total, fee |-> price.fee,
                    net |-> price.net, leg |-> 0, estimate |-> route = NoRoute,
                    pickup |-> 0, drop |-> 0, detention |-> 0, credit |-> 0, adjustment |-> 0, charged |-> 0]
    /\ placing = [at |-> "no"] /\ late = FALSE

theOrder == <<order, bill, placing, late>>
Current == Len(cards)

-----------------------------------------------------------------------------
(* The rate card panel *)

Type(o, f, figure) ==
    /\ panel[o].draft[f] # figure
    /\ panel' = [panel EXCEPT ![o].draft[f] = figure, ![o].typed = @ \union {f}]
    /\ UNCHANGED <<cards, theOrder>>

\* Mutant: the whole form goes along.
WholeForm(o) == Fields

\* Only what differs from the card in force, as the panel last read it.
Changes(o) == {f \in Fields : panel[o].draft[f] # cards[panel[o].shown][f]}

HandleSave(o) ==
    /\ panel[o].at = "idle" /\ Changes(o) # {}
    /\ panel' = [panel EXCEPT ![o].at = "sent", ![o].sent = [f \in Changes(o) |-> panel[o].draft[f]]]
    /\ UNCHANGED <<cards, theOrder>>

ReadCurrent(o) ==
    /\ panel[o].at = "sent"
    /\ panel' = [panel EXCEPT ![o].at = "read", ![o].base = Current]
    /\ UNCHANGED <<cards, theOrder>>

\* The card in force with what was sent; the columns are those of EDITABLE, so
\* return_leg_full_km is not written.
InsertCard(o) ==
    /\ panel[o].at = "read" /\ Current < MaxCards
    /\ LET base == cards[panel[o].base]
       IN cards' = Append(cards, [k \in DOMAIN base |-> IF k \in DOMAIN panel[o].sent THEN panel[o].sent[k]
                                                         ELSE IF k = "full" THEN NoKm ELSE base[k]])
    /\ panel' = [panel EXCEPT ![o].at = "loading"]
    /\ UNCHANGED theOrder

Rest(p) == [p EXCEPT !.at = "idle", !.base = 0, !.sent = Nothing]

SaveFails(o) ==
    /\ panel[o].at \in {"sent", "read"}
    /\ panel' = [panel EXCEPT ![o] = Rest(@)]
    /\ UNCHANGED <<cards, theOrder>>

\* load after a save, or on opening the panel: a failed one leaves all as it was.
Load(o, ok) ==
    /\ panel[o].at \in {"idle", "loading"}
    /\ panel' = [panel EXCEPT ![o] = IF ok THEN [Rest(@) EXCEPT !.shown = Current, !.typed = {},
                                                                !.draft = Draft(cards[Current])]
                                     ELSE Rest(@)]
    /\ UNCHANGED <<cards, theOrder>>

thePanels == <<cards, panel>>

-----------------------------------------------------------------------------
(* placeOneOrder *)

\* No price moves once money is committed; nothing asks where the order is.
Pin(route) ==
    /\ placing.at = "no" /\ order.payment \notin {"PAID", "PENDING"}
    /\ order' = [order EXCEPT !.pinned = TRUE]
    /\ placing' = [at |-> "pinned", route |-> route]
    /\ UNCHANGED <<thePanels, bill, late>>

PriceJob ==
    /\ placing.at = "pinned"
    /\ placing' = [at |-> "priced", rate |-> Current, price |-> Quote(cards[Current], placing.route)]
    /\ UNCHANGED <<thePanels, order, bill, late>>

LandPrice ==
    /\ placing.at = "priced"
    /\ bill' = [bill EXCEPT !.rate = placing.rate, !.fare = placing.price.total, !.total = placing.price.total,
                            !.fee = placing.price.fee, !.net = placing.price.net,
                            !.leg = placing.price.leg, !.estimate = FALSE]
    /\ late' = (late \/ bill.pickup # 0 \/ bill.drop # 0 \/ bill.credit # 0)
    /\ placing' = [at |-> "no"]
    /\ UNCHANGED <<thePanels, order>>

\* The order stays placed and keeps its estimate.
PricingFails ==
    /\ placing.at \in {"pinned", "priced"}
    /\ placing' = [at |-> "no"]
    /\ UNCHANGED <<thePanels, order, bill, late>>

-----------------------------------------------------------------------------
(* The journey, as far as it has a price *)

\* Mutant: the wait is charged at the rate of the day.
TodaysCard == cards[Current]

\* Priced against the card the job was quoted on.
OwnCard == cards[bill.rate]

Go(from, to) == order.status = from /\ order' = [order EXCEPT !.status = to]

Travel ==
    /\ \/ order.pinned /\ Go("PENDING", "ASSIGNED")
       \/ Go("ASSIGNED", "AT_PICKUP") \/ Go("ASSIGNED", "IN_TRANSIT") \/ Go("IN_TRANSIT", "ARRIVED")
    /\ UNCHANGED <<thePanels, bill, placing, late>>

LeavePickup(waited) ==
    LET amount == DetentionCharge(OwnCard, waited) IN
    /\ Go("AT_PICKUP", "IN_TRANSIT")
    /\ bill' = [bill EXCEPT !.pickup = waited, !.detention = @ + amount,
                            !.total = @ + amount, !.net = @ + amount]
    /\ UNCHANGED <<thePanels, placing, late>>

\* Once money has been collected the difference goes to settlement_adjustment.
PriceMoves == order.payment # "PAID"

\* Only of an order that was charged for an empty way home, whose drop another
\* order of its run is collected near.
MayBeFilled(filled)    == filled => bill.leg > 0
BackfillCredit(filled) == IF filled THEN bill.leg ELSE 0

\* Confirming the delivery: the wait at the gate, and the credit where another
\* order on the run filled the way home.
Deliver(waited, filled) ==
    LET amount == DetentionCharge(OwnCard, waited)
        credit == BackfillCredit(filled)
    IN /\ Go("ARRIVED", "DELIVERED")
       /\ MayBeFilled(filled)
       /\ bill' = [bill EXCEPT !.drop = waited, !.detention = @ + amount, !.credit = credit,
                               !.net = @ + amount - credit,
                               !.total = IF PriceMoves THEN @ + amount - credit ELSE @,
                               !.adjustment = IF PriceMoves THEN @ ELSE @ + amount - credit]
       /\ UNCHANGED <<thePanels, placing, late>>

-----------------------------------------------------------------------------
(* Money *)

Payable == order.status \in {"IN_TRANSIT", "ARRIVED", "DELIVERED"} /\ ~bill.estimate
           /\ order.payment \notin {"PAID", "PENDING"}

Pay(to) == Payable /\ order' = [order EXCEPT !.payment = to]

\* A prompt is for the price of the moment; cash is written down with it.
Charge(to) ==
    /\ to \in {"PENDING", "PAID"} /\ Pay(to)
    /\ bill' = [bill EXCEPT !.charged = bill.total]
    /\ UNCHANGED <<thePanels, placing, late>>

Settle(to) ==
    /\ to \in {"PAID", "FAILED"} /\ order.payment = "PENDING"
    /\ order' = [order EXCEPT !.payment = to]
    /\ UNCHANGED <<thePanels, bill, placing, late>>

Next ==
    \/ \E o \in Operators :
         \/ \E f \in Fields : \E figure \in Figures[f] : Type(o, f, figure)
         \/ HandleSave(o) \/ ReadCurrent(o) \/ InsertCard(o) \/ SaveFails(o)
         \/ \E ok \in BOOLEAN : Load(o, ok)
    \/ \E route \in Routes : Pin(route)
    \/ PriceJob \/ LandPrice \/ PricingFails
    \/ Travel \/ \E waited \in Waits : LeavePickup(waited) \/ \E filled \in BOOLEAN : Deliver(waited, filled)
    \/ \E to \in {"PENDING", "PAID", "FAILED"} : Charge(to) \/ Settle(to)

Spec == Init /\ [][Next]_vars

-----------------------------------------------------------------------------
(* Properties *)

Worth(b) == b.total + b.adjustment

\* pricingRepository.js:125, orderController.js:1489: whatever cards were
\* written since, and however the customer paid meanwhile, an order is worth
\* the fare and the waits of the card it was priced on, less the return leg
\* somebody else filled, and platform and driver share exactly that.
BillAddsUp ==
    ~late =>
        /\ Worth(bill) = bill.fee + bill.net
        /\ Worth(bill) = bill.fare + DetentionCharge(OwnCard, bill.pickup)
                         + DetentionCharge(OwnCard, bill.drop) - bill.credit

\* orderController.js:1500: the amount collected and the amount owed do not
\* disagree with nothing recording which was which.
PaidIsPrice == order.payment = "PAID" => bill.charged = bill.total

\* orderController.js:1483: waiting is added to the customer's total and passed
\* to the driver whole.
WaitsAreBilled == Worth(bill) = bill.fare + bill.detention - bill.credit

\* pricingController.js:66: an operator changes only what they typed.
UntouchedFieldsSurvive ==
    \A o \in DOMAIN panel : panel[o].at = "read" /\ panel'[o].at = "loading" =>
        \A f \in Fields \ panel[o].typed : cards'[Len(cards')][f] = cards[panel[o].base][f]

\* What the two rest on.  The figures are naturals, an operator sends only what
\* they typed, and what they did not type is as the card they see has it.
Columns == {"base", "perKm", "perKmLong", "perKg", "minimum", "litres", "diesel", "road", "taper", "beyond",
            "full", "share", "terrain", "commission", "minimumFee", "free", "perHour"}
Card   == [Columns -> Nat]
Edits  == UNION {[F -> Nat] : F \in SUBSET Fields}
Panels == [shown : Nat, base : Nat, typed : SUBSET Fields, draft : [Fields -> Nat], sent : Edits,
           at : {"idle", "sent", "read", "loading"}]

Fits(p, deck) ==
    /\ p.shown \in DOMAIN deck
    /\ p.at = "read" => p.base \in DOMAIN deck
    /\ DOMAIN p.sent \subseteq p.typed
    /\ \A f \in Fields \ p.typed : p.draft[f] = deck[p.shown][f]

PanelInv ==
    /\ cards \in Seq(Card) /\ cards # <<>>
    /\ panel \in [Operators -> Panels]
    /\ \A o \in Operators : Fits(panel[o], cards)

\* A wait is written down when it ends and money moves once the job is over, so a
\* price that lands on a job that has not waited finds nothing to lose.
Prices == [total : Int, fee : Int, net : Int, leg : Int]
Adds(p) == p.fee + p.net = p.total

Bills == [rate : Nat, fare : Int, total : Int, fee : Int, net : Int, leg : Int, estimate : BOOLEAN,
          pickup : Nat, drop : Nat, detention : Int, credit : Int, adjustment : Int, charged : Int]

MoneyInv ==
    /\ order \in OrderRows
    /\ bill \in Bills
    /\ bill.rate \in DOMAIN cards /\ late \in BOOLEAN
    /\ order.status \in {"PENDING", "ASSIGNED", "AT_PICKUP"} => bill.pickup = 0
    /\ order.status # "DELIVERED" => bill.drop = 0 /\ bill.credit = 0 /\ bill.adjustment = 0
    /\ bill.pickup = 0 /\ bill.drop = 0 /\ bill.credit = 0 => bill.adjustment = 0
    /\ placing.at = "pinned" => placing.route \in [km : Nat, terrain : Nat]
    /\ placing.at = "priced" =>
         placing.rate \in DOMAIN cards /\ placing.price \in Prices /\ Adds(placing.price)

\* pricingService.js:178: two deliveries a street apart do not differ by
\* thousands of francs, on any card.
NoPriceCliff ==
    \A km \in 1..MaxKm : Quote(cards[Current], [km |-> km, terrain |-> 0]).total
        - Quote(cards[Current], [km |-> km - 1, terrain |-> 0]).total \in 0..Steepest
=============================================================================
