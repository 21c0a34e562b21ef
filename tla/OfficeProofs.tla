---------------------------- MODULE OfficeProofs ----------------------------
(***************************************************************************)
(* What MCOffice's parts promise, for any number of drivers, operators,    *)
(* dispatchers, vehicles, commits and so on.  A part keeps its own         *)
(* invariant; the last section puts them together.  In each section x1,    *)
(* x2, ... are the variables of that part's module, as listed there.       *)
(***************************************************************************)
EXTENDS MCOffice, Sequences, FiniteSetTheorems, WellFoundedInduction, TLAPS

-----------------------------------------------------------------------------
(* RateCards: what a job costs:
   x1 cards, x2 panel, x3 order, x4 bill, x5 placing, x6 late. *)

\* The routes a job may be priced on.
Trips == [km : Nat, terrain : Nat]

\* Rounding gives a whole number.
LEMMA RoundInt ==
    ASSUME NEW n \in Int, NEW d \in Nat, d > 0
    PROVE  R!Round(n, d) \in Int
BY DEF R!Round

\* A column of a card is a figure.
LEMMA Column ==
    ASSUME NEW card \in R!Card
    PROVE  /\ card.base \in Nat /\ card.perKm \in Nat /\ card.perKmLong \in Nat /\ card.perKg \in Nat
           /\ card.minimum \in Nat /\ card.litres \in Nat /\ card.diesel \in Nat /\ card.road \in Nat
           /\ card.taper \in Nat /\ card.beyond \in Nat /\ card.full \in Nat /\ card.share \in Nat
           /\ card.terrain \in Nat /\ card.commission \in Nat /\ card.minimumFee \in Nat
           /\ card.free \in Nat /\ card.perHour \in Nat
BY DEF R!Card, R!Columns

\* What a wait costs is a whole number.
LEMMA WaitIsPriced ==
    ASSUME NEW card \in R!Card, NEW waited \in Nat
    PROVE  R!DetentionCharge(card, waited) \in Int
<1>1. card.free \in Nat /\ card.perHour \in Nat
  BY Column
<1>2. R!Most(0, waited - card.free) \in Int
  BY <1>1 DEF R!Most
<1>3. R!Most(0, waited - card.free) * card.perHour \in Int
  BY <1>1, <1>2
<1> QED BY <1>3, RoundInt DEF R!DetentionCharge

\* No wait costs nothing.
LEMMA NoWaitIsFree ==
    ASSUME NEW card \in R!Card
    PROVE  R!DetentionCharge(card, 0) = 0
<1>1. card.free \in Nat /\ card.perHour \in Nat
  BY Column
<1>2. R!Most(0, 0 - card.free) = 0
  BY <1>1 DEF R!Most
<1>3. 0 * card.perHour = 0
  BY <1>1
<1>4. R!Round(0, 60) = 0
  BY DEF R!Round
<1> QED BY <1>2, <1>3, <1>4 DEF R!DetentionCharge

\* The share of the ramp is between nothing and the whole.
LEMMA RampShare ==
    ASSUME NEW card \in R!Card, NEW road \in Nat
    PROVE  R!Ramp(card, road) \in [n : Nat, d : Nat \ {0}]
<1>1. card.full \in Nat /\ card.beyond \in Nat
  BY Column
<1>2. PICK full \in Nat : full = IF card.full = R!NoKm THEN card.beyond ELSE card.full
  BY <1>1
<1>3. R!Ramp(card, road) = CASE road <= card.beyond -> [n |-> 0, d |-> 1]
         [] road > card.beyond /\ full - card.beyond > 0 -> [n |-> R!Least(full - card.beyond, road - card.beyond), d |-> full - card.beyond]
         [] OTHER -> [n |-> 1, d |-> 1]
  BY <1>2 DEF R!Ramp
<1> QED BY <1>1, <1>3 DEF R!Least

\* A quote is its parts, and the driver gets what the fee leaves.
LEMMA QuoteAdds ==
    ASSUME NEW card \in R!Card, NEW route \in Trips
    PROVE  R!Quote(card, route) \in R!Prices /\ R!Adds(R!Quote(card, route))
<1> DEFINE road    == route.km * card.road
           city    == R!Least(road, card.taper)
           open    == road - city
           terrain == R!Terrain(card, route)
           out     == card.litres * card.diesel * (city * 10 + open * terrain)
           ramp    == R!Ramp(card, road)
           back    == out * card.share * ramp.n
           service == 10 * (card.base + Weight * card.perKg) + city * card.perKm + open * card.perKmLong
           whole   == 10 * ramp.d * out + back + 100 * ramp.d * service
           total   == R!Most(R!Round(whole, 1000 * ramp.d), card.minimum)
           fee     == R!Least(R!Most(R!Round(service * card.commission, 1000), card.minimumFee), total)
<1>1. /\ card.base \in Nat /\ card.perKm \in Nat /\ card.perKmLong \in Nat /\ card.perKg \in Nat
      /\ card.minimum \in Nat /\ card.litres \in Nat /\ card.diesel \in Nat /\ card.road \in Nat
      /\ card.taper \in Nat /\ card.share \in Nat /\ card.terrain \in Nat
      /\ card.commission \in Nat /\ card.minimumFee \in Nat
  BY Column
<1>2. route.km \in Nat /\ route.terrain \in Nat /\ Weight \in Nat
  BY FiguresAssumption DEF Trips
<1>3. road \in Nat
  BY <1>1, <1>2
<1>4. ramp.n \in Nat /\ ramp.d \in Nat /\ ramp.d > 0
  BY <1>3, RampShare
<1>5. city \in Int /\ open \in Int
  <2> HIDE DEF road
  <2> QED BY <1>1, <1>3 DEF R!Least
<1>6. terrain \in Int
  BY <1>1, <1>2 DEF R!Terrain
<1>7. out \in Int
  <2> HIDE DEF city, open, terrain
  <2> QED BY <1>1, <1>5, <1>6
<1>8. back \in Int
  <2> HIDE DEF out, ramp
  <2> QED BY <1>1, <1>4, <1>7
<1>9. service \in Int
  <2> HIDE DEF city, open
  <2> QED BY <1>1, <1>2, <1>5
<1>10. whole \in Int
  <2> HIDE DEF out, back, service, ramp
  <2> QED BY <1>4, <1>7, <1>8, <1>9
<1> HIDE DEF road, city, open, terrain, out, ramp, back, service, whole
<1>11. 1000 * ramp.d \in Nat /\ 1000 * ramp.d > 0
  BY <1>4
<1>12. total \in Int
  BY <1>1, <1>10, <1>11, RoundInt DEF R!Most
<1>13. service * card.commission \in Int
  BY <1>1, <1>9
<1>14. fee \in Int
  <2> HIDE DEF total
  <2> QED BY <1>1, <1>12, <1>13, RoundInt DEF R!Most, R!Least
<1>15. R!Round(back, 1000 * ramp.d) \in Int
  BY <1>8, <1>11, RoundInt
<1>16. R!Quote(card, route) = [total |-> total, fee |-> fee, net |-> total - fee,
                               leg |-> R!Round(back, 1000 * ramp.d)]
  BY DEF R!Quote, road, city, open, terrain, out, ramp, back, service, whole
<1> HIDE DEF total, fee
<1> QED BY <1>12, <1>14, <1>15, <1>16 DEF R!Prices, R!Adds

(* What a panel goes through, on any deck of cards *)

\* A form is filled with the figures of its card.
LEMMA CardFields ==
    ASSUME NEW card \in R!Card
    PROVE  /\ \A f \in R!Fields : f \in DOMAIN card /\ card[f] \in Nat
           /\ R!Draft(card) \in [R!Fields -> Nat] /\ \A f \in R!Fields : R!Draft(card)[f] = card[f]
BY DEF R!Card, R!Columns, R!Fields, R!Draft

\* A panel opens on nothing, which fits any deck.
LEMMA OpensFitting ==
    ASSUME NEW deck \in Seq(R!Card), NEW k \in DOMAIN deck
    PROVE  LET p == [shown |-> k, base |-> 0, typed |-> {}, draft |-> R!Draft(deck[k]),
                     sent |-> R!Nothing, at |-> "idle"]
           IN p \in R!Panels /\ R!Fits(p, deck)
<1>1. deck[k] \in R!Card /\ k \in Nat
  OBVIOUS
<1>2. R!Nothing \in R!Edits /\ DOMAIN R!Nothing = {}
  <2>1. R!Nothing \in [{} -> Nat] /\ {} \in SUBSET R!Fields
    BY DEF R!Nothing
  <2> QED BY <2>1 DEF R!Edits, R!Nothing
<1> QED BY <1>1, <1>2, CardFields DEF R!Panels, R!Fits

\* So does a panel at rest.
LEMMA RestFits ==
    ASSUME NEW deck \in Seq(R!Card), NEW p \in R!Panels, R!Fits(p, deck)
    PROVE  R!Rest(p) \in R!Panels /\ R!Fits(R!Rest(p), deck) /\ R!Rest(p).at = "idle"
<1>1. R!Nothing \in R!Edits /\ DOMAIN R!Nothing = {}
  <2>1. R!Nothing \in [{} -> Nat] /\ {} \in SUBSET R!Fields
    BY DEF R!Nothing
  <2> QED BY <2>1 DEF R!Edits, R!Nothing
<1> QED BY <1>1 DEF R!Rest, R!Panels, R!Fits

\* A panel that loads a card of the deck.
LEMMA LoadingFits ==
    ASSUME NEW deck \in Seq(R!Card), deck # <<>>, NEW p \in R!Panels, R!Fits(p, deck)
    PROVE  LET q == [R!Rest(p) EXCEPT !.shown = Len(deck), !.typed = {},
                                      !.draft = R!Draft(deck[Len(deck)])]
           IN q \in R!Panels /\ R!Fits(q, deck)
<1> DEFINE r == R!Rest(p)
           q == [r EXCEPT !.shown = Len(deck), !.typed = {}, !.draft = R!Draft(deck[Len(deck)])]
<1>1. r \in R!Panels /\ R!Fits(r, deck) /\ r.at = "idle" /\ r.sent = R!Nothing
  <2>1. R!Rest(p).sent = R!Nothing
    BY DEF R!Rest, R!Panels
  <2> QED BY <2>1, RestFits
<1>2. DOMAIN R!Nothing = {}
  BY DEF R!Nothing
<1>3. Len(deck) \in DOMAIN deck /\ Len(deck) \in Nat /\ deck[Len(deck)] \in R!Card
  OBVIOUS
<1>4. PICK figures \in [R!Fields -> Nat] :
          figures = R!Draft(deck[Len(deck)]) /\ \A f \in R!Fields : figures[f] = deck[Len(deck)][f]
  BY <1>3, CardFields
<1> HIDE DEF r
<1>5. LET t == [r EXCEPT !.shown = Len(deck), !.typed = {}, !.draft = figures]
      IN t \in R!Panels /\ R!Fits(t, deck)
  BY <1>1, <1>2, <1>3, <1>4 DEF R!Panels, R!Fits
<1>6. q \in R!Panels /\ R!Fits(q, deck)
  BY <1>4, <1>5
<1> QED BY <1>6 DEF r

\* A panel that is typed in.
LEMMA TypingFits ==
    ASSUME NEW deck \in Seq(R!Card), NEW p \in R!Panels, R!Fits(p, deck),
           NEW f \in R!Fields, NEW figure \in Nat
    PROVE  LET q == [p EXCEPT !.draft[f] = figure, !.typed = @ \union {f}]
           IN q \in R!Panels /\ R!Fits(q, deck) /\ q.at = p.at
BY DEF R!Panels, R!Fits

\* A panel that sends what was changed.
LEMMA SavingFits ==
    ASSUME NEW deck \in Seq(R!Card), NEW p \in R!Panels, R!Fits(p, deck)
    PROVE  LET changes == {f \in R!Fields : p.draft[f] # deck[p.shown][f]}
               q == [p EXCEPT !.at = "sent", !.sent = [f \in changes |-> p.draft[f]]]
           IN q \in R!Panels /\ R!Fits(q, deck)
<1> DEFINE changes == {f \in R!Fields : p.draft[f] # deck[p.shown][f]}
           edit == [f \in changes |-> p.draft[f]]
<1>1. changes \in SUBSET R!Fields /\ changes \subseteq p.typed
  BY DEF R!Fits
<1>2. edit \in [changes -> Nat]
  BY <1>1 DEF R!Panels
<1>3. edit \in R!Edits /\ DOMAIN edit = changes
  BY <1>1, <1>2 DEF R!Edits
<1> HIDE DEF changes, edit
<1>4. LET q == [p EXCEPT !.at = "sent", !.sent = edit] IN q \in R!Panels /\ R!Fits(q, deck)
  BY <1>1, <1>3 DEF R!Panels, R!Fits
<1> QED BY <1>4 DEF edit, changes

\* A panel whose request has read the card it will build on.
LEMMA ReadingFits ==
    ASSUME NEW deck \in Seq(R!Card), deck # <<>>, NEW p \in R!Panels, R!Fits(p, deck)
    PROVE  LET q == [p EXCEPT !.at = "read", !.base = Len(deck)]
           IN q \in R!Panels /\ R!Fits(q, deck)
<1>1. Len(deck) \in DOMAIN deck /\ Len(deck) \in Nat
  OBVIOUS
<1> QED BY <1>1 DEF R!Panels, R!Fits

\* A panel whose card is written and that waits for the cards to be read again.
LEMMA WrittenFits ==
    ASSUME NEW deck \in Seq(R!Card), NEW p \in R!Panels, R!Fits(p, deck)
    PROVE  LET q == [p EXCEPT !.at = "loading"] IN q \in R!Panels /\ R!Fits(q, deck)
BY DEF R!Panels, R!Fits

\* The card an operator writes is the one that was read, with what they sent.
LEMMA NewCard ==
    ASSUME NEW base \in R!Card, NEW sent \in R!Edits
    PROVE  LET card == [k \in DOMAIN base |-> IF k \in DOMAIN sent THEN sent[k]
                                              ELSE IF k = "full" THEN R!NoKm ELSE base[k]]
           IN card \in R!Card /\ \A f \in R!Fields \ DOMAIN sent : card[f] = base[f]
<1>1. DOMAIN base = R!Columns /\ \A k \in R!Columns : base[k] \in Nat
  BY DEF R!Card
<1>2. PICK F \in SUBSET R!Fields : sent \in [F -> Nat]
  BY DEF R!Edits
<1>3. DOMAIN sent = F /\ \A k \in F : sent[k] \in Nat
  BY <1>2
<1>4. R!Fields \subseteq R!Columns /\ "full" \notin R!Fields /\ R!NoKm \in Nat
  BY DEF R!Fields, R!Columns, R!NoKm
<1> QED BY <1>1, <1>3, <1>4 DEF R!Card

\* A longer deck fits the panels that the shorter one did.
LEMMA DeckGrows ==
    ASSUME NEW deck \in Seq(R!Card), NEW card \in R!Card, NEW p \in R!Panels, R!Fits(p, deck)
    PROVE  R!Fits(p, Append(deck, card))
<1>1. \A k \in DOMAIN deck : k \in DOMAIN Append(deck, card) /\ Append(deck, card)[k] = deck[k]
  OBVIOUS
<1> QED BY <1>1 DEF R!Fits

\* The panels of the operators about while a job is billed, at first
LEMMA BillPanelsInit == R!Init => R!PanelInv
<1> SUFFICES ASSUME R!Init PROVE R!PanelInv
  OBVIOUS
<1>1. x1 \in Seq(R!Card) /\ x1 # <<>> /\ 1 \in DOMAIN x1 /\ x1[1] = FirstCard
  BY FiguresAssumption DEF R!Init
<1>2. \A o \in BillOperators : x2[o] \in R!Panels /\ R!Fits(x2[o], x1)
  BY <1>1, OpensFitting DEF R!Init
<1> QED BY <1>1, <1>2 DEF R!PanelInv, R!Init

\* and in every step.
LEMMA BillPanelsNext == R!PanelInv /\ [R!Next]_R!vars => R!PanelInv'
<1> SUFFICES ASSUME R!PanelInv, [R!Next]_R!vars PROVE R!PanelInv'
  OBVIOUS
<1> USE DEF R!PanelInv
<1>1. CASE UNCHANGED <<x1, x2>>
  BY <1>1
<1>2. ASSUME NEW o \in BillOperators, NEW q \in R!Panels, R!Fits(q, x1), x1' = x1, x2' = [x2 EXCEPT ![o] = q]
      PROVE  R!PanelInv'
  BY <1>2
<1>3. ASSUME NEW o \in BillOperators, NEW f \in R!Fields, NEW figure \in R!Figures[f], R!Type(o, f, figure)
      PROVE  R!PanelInv'
  <2>1. R!Figures["diesel"] = BillDiesel /\ R!Figures["perHour"] = HourlyRates
    BY DEF R!Figures
  <2>3. figure \in Nat
    BY <2>1, FiguresAssumption DEF R!Fields
  <2>2. x1' = x1 /\ x2' = [x2 EXCEPT ![o] = [x2[o] EXCEPT !.draft[f] = figure, !.typed = @ \union {f}]]
    BY <1>3 DEF R!Type
  <2> QED BY <1>2, <2>2, <2>3, TypingFits, Zenon
<1>4. ASSUME NEW o \in BillOperators, R!HandleSave(o) PROVE R!PanelInv'
  <2> DEFINE changes == {f \in R!Fields : x2[o].draft[f] # x1[x2[o].shown][f]}
  <2>1. x1' = x1 /\ x2' = [x2 EXCEPT ![o] = [x2[o] EXCEPT !.at = "sent", !.sent = [f \in changes |-> x2[o].draft[f]]]]
    BY <1>4 DEF R!HandleSave, R!Changes
  <2> QED BY <1>2, <2>1, SavingFits, Zenon
<1>5. ASSUME NEW o \in BillOperators, R!ReadCurrent(o) PROVE R!PanelInv'
  <2>1. x1' = x1 /\ x2' = [x2 EXCEPT ![o] = [x2[o] EXCEPT !.at = "read", !.base = Len(x1)]]
    BY <1>5 DEF R!ReadCurrent, R!Current
  <2> QED BY <1>2, <2>1, ReadingFits, Zenon
<1>6. ASSUME NEW o \in BillOperators, R!InsertCard(o) PROVE R!PanelInv'
  <2>1. x1[x2[o].base] \in R!Card /\ x2[o].sent \in R!Edits
    BY <1>6 DEF R!InsertCard, R!Fits, R!Panels
  <2>2. PICK card \in R!Card : x1' = Append(x1, card)
    BY <1>6, <2>1, NewCard DEF R!InsertCard
  <2> DEFINE q == [x2[o] EXCEPT !.at = "loading"]
  <2>3. q \in R!Panels /\ R!Fits(q, x1)
    BY WrittenFits
  <2>4. x2' = [x2 EXCEPT ![o] = q] /\ x1' \in Seq(R!Card)
    BY <1>6, <2>2 DEF R!InsertCard
  <2> HIDE DEF q
  <2>5. x2' \in [BillOperators -> R!Panels] /\ \A j \in BillOperators : R!Fits(x2'[j], x1)
    BY <2>3, <2>4
  <2>6. \A j \in BillOperators : R!Fits(x2'[j], x1')
    BY <2>2, <2>5, DeckGrows
  <2>7. x1' # <<>>
    BY <2>2
  <2> QED BY <2>4, <2>5, <2>6, <2>7
<1>7. ASSUME NEW o \in BillOperators, R!SaveFails(o) PROVE R!PanelInv'
  <2>1. x1' = x1 /\ x2' = [x2 EXCEPT ![o] = R!Rest(x2[o])]
    BY <1>7 DEF R!SaveFails
  <2> QED BY <1>2, <2>1, RestFits
<1>8. ASSUME NEW o \in BillOperators, NEW ok \in BOOLEAN, R!Load(o, ok) PROVE R!PanelInv'
  <2>1. CASE ok
    <3>1. x1' = x1 /\ x2' = [x2 EXCEPT ![o] = [R!Rest(x2[o]) EXCEPT !.shown = Len(x1), !.typed = {}, !.draft = R!Draft(x1[Len(x1)])]]
      BY <1>8, <2>1 DEF R!Load, R!Current
    <3> QED BY <1>2, <3>1, LoadingFits, Zenon
  <2>2. CASE ~ok
    <3>1. x1' = x1 /\ x2' = [x2 EXCEPT ![o] = R!Rest(x2[o])]
      BY <1>8, <2>2 DEF R!Load
    <3> QED BY <1>2, <3>1, RestFits
  <2> QED BY <2>1, <2>2
<1> QED
  BY <1>1, <1>3, <1>4, <1>5, <1>6, <1>7, <1>8, Zenon
  DEF R!Next, R!vars, R!Pin, R!PriceJob, R!LandPrice, R!PricingFails, R!Travel, R!LeavePickup, R!Deliver,
      R!Charge, R!Settle, R!thePanels

\* The two instances speak of the same cards and panels.
LEMMA SameWords ==
    /\ Cards!Card = R!Card /\ Cards!Panels = R!Panels /\ Cards!Fields = R!Fields
    /\ Cards!Edits = R!Edits /\ Cards!Nothing = R!Nothing /\ Cards!NoKm = R!NoKm
    /\ \A card : Cards!Draft(card) = R!Draft(card)
    /\ \A p : Cards!Rest(p) = R!Rest(p)
    /\ \A p, deck : Cards!Fits(p, deck) <=> R!Fits(p, deck)
BY DEF R!Card, Cards!Card, R!Panels, Cards!Panels, R!Fields, Cards!Fields, R!Edits, Cards!Edits, R!Nothing,
       Cards!Nothing, R!NoKm, Cards!NoKm, R!Draft, Cards!Draft, R!Rest, Cards!Rest, R!Fits, Cards!Fits,
       R!Columns, Cards!Columns

\* The panels of operators side by side, at first
LEMMA DeskPanelsInit == Cards!Init => Cards!PanelInv
<1> SUFFICES ASSUME Cards!Init PROVE Cards!PanelInv
  OBVIOUS
<1>1. x1 \in Seq(Cards!Card) /\ x1 # <<>> /\ 1 \in DOMAIN x1 /\ x1[1] = FirstCard
  BY FiguresAssumption, SameWords DEF Cards!Init
<1>2. \A o \in Operators : x2[o] \in Cards!Panels /\ Cards!Fits(x2[o], x1)
  BY <1>1, OpensFitting, SameWords DEF Cards!Init
<1> QED BY <1>1, <1>2 DEF Cards!PanelInv, Cards!Init

\* A card that is written differs from the one it was read from in what was typed.
LEMMA CardWritten ==
    ASSUME Cards!PanelInv, NEW o \in Operators, Cards!InsertCard(o)
    PROVE  \E card \in R!Card :
               /\ x1' = Append(x1, card)
               /\ \A f \in R!Fields \ x2[o].typed : card[f] = x1[x2[o].base][f]
<1> DEFINE base == x1[x2[o].base]
           sent == x2[o].sent
           card == [k \in DOMAIN base |-> IF k \in DOMAIN sent THEN sent[k]
                                           ELSE IF k = "full" THEN R!NoKm ELSE base[k]]
<1>1. base \in R!Card /\ sent \in R!Edits /\ DOMAIN sent \subseteq x2[o].typed
  <2>1. x1 \in Seq(R!Card) /\ x2[o] \in R!Panels /\ R!Fits(x2[o], x1)
    BY SameWords DEF Cards!PanelInv
  <2>2. x2[o].at = "read"
    BY DEF Cards!InsertCard
  <2> QED BY <2>1, <2>2 DEF R!Fits, R!Panels
<1>2. card \in R!Card /\ \A f \in R!Fields \ DOMAIN sent : card[f] = base[f]
  <2> HIDE DEF base, sent
  <2> QED BY <1>1, NewCard
<1>3. x1' = Append(x1, card)
  BY SameWords DEF Cards!InsertCard
<1> HIDE DEF card
<1> QED BY <1>1, <1>2, <1>3

\* and in every step.
LEMMA DeskPanelsNext == Cards!PanelInv /\ [Cards!Next]_Cards!vars => Cards!PanelInv'
<1> SUFFICES ASSUME Cards!PanelInv, [Cards!Next]_Cards!vars PROVE Cards!PanelInv'
  OBVIOUS
<1> USE DEF Cards!PanelInv
<1>1. CASE UNCHANGED <<x1, x2>>
  BY <1>1
<1>2. ASSUME NEW o \in Operators, NEW q \in Cards!Panels, Cards!Fits(q, x1), x1' = x1, x2' = [x2 EXCEPT ![o] = q]
      PROVE  Cards!PanelInv'
  BY <1>2
<1>3. ASSUME NEW o \in Operators, NEW f \in Cards!Fields, NEW figure \in Cards!Figures[f], Cards!Type(o, f, figure)
      PROVE  Cards!PanelInv'
  <2>1. Cards!Figures["diesel"] = DieselPrices /\ Cards!Figures["perHour"] = HourlyRates
    BY DEF Cards!Figures
  <2>3. figure \in Nat
    BY <2>1, FiguresAssumption DEF Cards!Fields
  <2>2. x1' = x1 /\ x2' = [x2 EXCEPT ![o] = [x2[o] EXCEPT !.draft[f] = figure, !.typed = @ \union {f}]]
    BY <1>3 DEF Cards!Type
  <2> QED BY <1>2, <2>2, <2>3, TypingFits, SameWords, Zenon
<1>4. ASSUME NEW o \in Operators, Cards!HandleSave(o) PROVE Cards!PanelInv'
  <2> DEFINE changes == {f \in Cards!Fields : x2[o].draft[f] # x1[x2[o].shown][f]}
  <2>1. x1' = x1 /\ x2' = [x2 EXCEPT ![o] = [x2[o] EXCEPT !.at = "sent", !.sent = [f \in changes |-> x2[o].draft[f]]]]
    BY <1>4 DEF Cards!HandleSave, Cards!Changes
  <2> QED BY <1>2, <2>1, SavingFits, SameWords, Zenon
<1>5. ASSUME NEW o \in Operators, Cards!ReadCurrent(o) PROVE Cards!PanelInv'
  <2>1. x1' = x1 /\ x2' = [x2 EXCEPT ![o] = [x2[o] EXCEPT !.at = "read", !.base = Len(x1)]]
    BY <1>5 DEF Cards!ReadCurrent, Cards!Current
  <2> QED BY <1>2, <2>1, ReadingFits, SameWords, Zenon
<1>6. ASSUME NEW o \in Operators, Cards!InsertCard(o) PROVE Cards!PanelInv'
  <2>2. PICK card \in R!Card : x1' = Append(x1, card)
    BY <1>6, CardWritten
  <2> DEFINE q == [x2[o] EXCEPT !.at = "loading"]
  <2>3. q \in Cards!Panels /\ Cards!Fits(q, x1)
    BY WrittenFits, SameWords, Zenon
  <2>4. x2' = [x2 EXCEPT ![o] = q] /\ x1' \in Seq(Cards!Card)
    BY <1>6, <2>2, SameWords DEF Cards!InsertCard
  <2> HIDE DEF q
  <2>5. x2' \in [Operators -> Cards!Panels] /\ \A j \in Operators : Cards!Fits(x2'[j], x1)
    BY <2>3, <2>4
  <2>6. \A j \in Operators : Cards!Fits(x2'[j], x1')
    BY <2>2, <2>5, DeckGrows, SameWords
  <2>7. x1' # <<>>
    BY <2>2
  <2> QED BY <2>4, <2>5, <2>6, <2>7
<1>7. ASSUME NEW o \in Operators, Cards!SaveFails(o) PROVE Cards!PanelInv'
  <2>1. x1' = x1 /\ x2' = [x2 EXCEPT ![o] = Cards!Rest(x2[o])]
    BY <1>7 DEF Cards!SaveFails
  <2> QED BY <1>2, <2>1, RestFits, SameWords
<1>8. ASSUME NEW o \in Operators, NEW ok \in BOOLEAN, Cards!Load(o, ok) PROVE Cards!PanelInv'
  <2>1. CASE ok
    <3>1. x1' = x1 /\ x2' = [x2 EXCEPT ![o] = [Cards!Rest(x2[o]) EXCEPT !.shown = Len(x1), !.typed = {}, !.draft = Cards!Draft(x1[Len(x1)])]]
      BY <1>8, <2>1 DEF Cards!Load, Cards!Current
    <3> QED BY <1>2, <3>1, LoadingFits, SameWords, Zenon
  <2>2. CASE ~ok
    <3>1. x1' = x1 /\ x2' = [x2 EXCEPT ![o] = Cards!Rest(x2[o])]
      BY <1>8, <2>2 DEF Cards!Load
    <3> QED BY <1>2, <3>1, RestFits, SameWords
  <2> QED BY <2>1, <2>2
<1> QED
  BY <1>1, <1>3, <1>4, <1>5, <1>6, <1>7, <1>8, Zenon
  DEF Cards!Next, Cards!vars, Cards!Pin, Cards!PriceJob, Cards!LandPrice, Cards!PricingFails, Cards!Travel, Cards!LeavePickup, Cards!Deliver,
      Cards!Charge, Cards!Settle, Cards!thePanels

\* pricingController.js:66
LEMMA OnlyWhatWasTyped == Cards!PanelInv /\ [Cards!Next]_Cards!vars => Cards!UntouchedFieldsSurvive
<1> SUFFICES ASSUME Cards!PanelInv, [Cards!Next]_Cards!vars,
                    NEW o \in DOMAIN x2, x2[o].at = "read", x2'[o].at = "loading",
                    NEW f \in Cards!Fields \ x2[o].typed
             PROVE  x1'[Len(x1')][f] = x1[x2[o].base][f]
  BY DEF Cards!UntouchedFieldsSurvive
<1>1. o \in Operators /\ x2 \in [Operators -> Cards!Panels] /\ x1 \in Seq(Cards!Card)
  BY DEF Cards!PanelInv
<1>2. CASE Cards!InsertCard(o)
  <2>1. PICK card \in R!Card : /\ x1' = Append(x1, card)
                               /\ \A g \in R!Fields \ x2[o].typed : card[g] = x1[x2[o].base][g]
    BY <1>1, <1>2, CardWritten
  <2>2. x1'[Len(x1')] = card
    BY <1>1, <2>1
  <2> QED BY <2>1, <2>2, SameWords
<1>4. x2' # x2
  BY <1>1
<1>5. ASSUME NEW j \in Operators, Cards!InsertCard(j), j # o PROVE FALSE
  BY <1>1, <1>5 DEF Cards!InsertCard
<1>7. ASSUME NEW j \in Operators, NEW g \in Cards!Fields, NEW figure, Cards!Type(j, g, figure) PROVE FALSE
  BY <1>1, <1>7 DEF Cards!Type, Cards!Panels
<1>8. ASSUME NEW j \in Operators,
             Cards!HandleSave(j) \/ Cards!ReadCurrent(j) \/ Cards!SaveFails(j) \/ \E ok \in BOOLEAN : Cards!Load(j, ok)
      PROVE  FALSE
  BY <1>1, <1>8 DEF Cards!HandleSave, Cards!ReadCurrent, Cards!SaveFails, Cards!Load, Cards!Panels, Cards!Rest
<1> QED
  BY <1>2, <1>4, <1>5, <1>7, <1>8, Zenon
  DEF Cards!Next, Cards!vars, Cards!Pin, Cards!PriceJob, Cards!LandPrice, Cards!PricingFails, Cards!Travel,
      Cards!LeavePickup, Cards!Deliver, Cards!Charge, Cards!Settle, Cards!thePanels

\* A card once written stays as it was.
LEMMA CardsStay ==
    ASSUME R!PanelInv, [R!Next]_R!vars, NEW k \in DOMAIN x1
    PROVE  k \in DOMAIN x1' /\ x1'[k] = x1[k]
<1>1. CASE x1' = x1
  BY <1>1
<1>2. ASSUME NEW card, x1' = Append(x1, card) PROVE k \in DOMAIN x1' /\ x1'[k] = x1[k]
  BY <1>2 DEF R!PanelInv
<1>3. x1' = x1 \/ \E card : x1' = Append(x1, card)
  BY Zenon DEF R!Next, R!vars, R!Type, R!HandleSave, R!ReadCurrent, R!InsertCard, R!SaveFails, R!Load, R!Pin,
         R!PriceJob, R!LandPrice, R!PricingFails, R!Travel, R!LeavePickup, R!Deliver, R!Charge, R!Settle,
         R!thePanels
<1> QED BY <1>1, <1>2, <1>3

\* The inductive invariant of a bill.
BillInv == R!PanelInv /\ R!MoneyInv /\ R!BillAddsUp

\* It holds at first.
LEMMA BillInit == R!Init => BillInv
<1> SUFFICES ASSUME R!Init PROVE BillInv
  OBVIOUS
<1>1. R!PanelInv
  BY BillPanelsInit
<1>2. PICK route \in Routes \union {R!NoRoute} :
          LET price == R!Quote(FirstCard, route) IN
          /\ x3 = [status |-> "PENDING", pinned |-> route # R!NoRoute, payment |-> "UNPAID"]
          /\ x4 = [rate |-> 1, fare |-> price.total, total |-> price.total, fee |-> price.fee,
                   net |-> price.net, leg |-> 0, estimate |-> route = R!NoRoute,
                   pickup |-> 0, drop |-> 0, detention |-> 0, credit |-> 0, adjustment |-> 0, charged |-> 0]
  BY DEF R!Init
<1>3. route \in Trips /\ FirstCard \in R!Card
  BY FiguresAssumption DEF R!NoRoute, Trips
<1>4. PICK price \in R!Prices : price = R!Quote(FirstCard, route) /\ R!Adds(price)
  BY <1>3, QuoteAdds
<1>5. /\ x4.rate = 1 /\ x4.fare = price.total /\ x4.total = price.total /\ x4.fee = price.fee /\ x4.net = price.net
      /\ x4.pickup = 0 /\ x4.drop = 0 /\ x4.credit = 0 /\ x4.adjustment = 0
  BY <1>2, <1>4
<1>6. x1[1] = FirstCard /\ 1 \in DOMAIN x1
  BY DEF R!Init
<1>7. R!MoneyInv
  <2>1. x3 \in R!OrderRows /\ x4 \in R!Bills
    BY <1>2, <1>4 DEF R!OrderRows, R!Bills, R!Prices
  <2>2. x5.at = "no" /\ x6 = FALSE
    BY DEF R!Init
  <2> QED BY <1>5, <1>6, <2>1, <2>2 DEF R!MoneyInv
<1>8. R!DetentionCharge(FirstCard, 0) = 0
  BY <1>3, NoWaitIsFree
<1>9. R!BillAddsUp
  BY <1>4, <1>5, <1>6, <1>8 DEF R!BillAddsUp, R!Worth, R!OwnCard, R!Adds, R!Prices
<1> QED BY <1>1, <1>7, <1>9 DEF BillInv

\* What a price and two waits come to.
Sums(b, card) ==
    /\ b.total + b.adjustment = b.fee + b.net
    /\ b.total + b.adjustment = b.fare + R!DetentionCharge(card, b.pickup) + R!DetentionCharge(card, b.drop) - b.credit

\* Leaving the pickup adds what the wait there cost.
LEMMA LeaveAdds == ASSUME BillInv, NEW waited \in Waits, R!LeavePickup(waited) PROVE R!MoneyInv' /\ R!BillAddsUp'
<1> DEFINE card == x1[x4.rate]
           amount == R!DetentionCharge(card, waited)
<1>1. card \in R!Card /\ waited \in Nat
  BY FiguresAssumption DEF BillInv, R!PanelInv, R!MoneyInv
<1>2. amount \in Int /\ R!DetentionCharge(card, 0) = 0
  BY <1>1, WaitIsPriced, NoWaitIsFree
<1>3. /\ x3.status = "AT_PICKUP" /\ x3' = [x3 EXCEPT !.status = "IN_TRANSIT"]
      /\ x4' = [x4 EXCEPT !.pickup = waited, !.detention = @ + amount, !.total = @ + amount, !.net = @ + amount]
      /\ UNCHANGED <<x1, x2, x5, x6>>
  BY DEF R!LeavePickup, R!Go, R!OwnCard, R!thePanels
<1>4. x4.pickup = 0 /\ x4.drop = 0 /\ x4.credit = 0 /\ x4.adjustment = 0
  BY <1>3 DEF BillInv, R!MoneyInv, R!Bills
<1> HIDE DEF amount
<1>5. R!MoneyInv'
  <2>1. x3 \in R!OrderRows /\ x4 \in R!Bills
    BY DEF BillInv, R!MoneyInv, R!Bills
  <2>2. x3' \in R!OrderRows /\ x4' \in R!Bills /\ x3'.status = "IN_TRANSIT"
    <3>1. x3' \in R!OrderRows /\ x3'.status = "IN_TRANSIT"
      BY <1>3, <2>1 DEF R!OrderRows
    <3>2. x4.detention + amount \in Int /\ x4.total + amount \in Int /\ x4.net + amount \in Int
      BY <1>2, <2>1 DEF R!Bills
    <3>3. x4' \in R!Bills
      BY <1>1, <1>3, <2>1, <3>2 DEF R!Bills
    <3> QED BY <3>1, <3>3
  <2>3. x4'.rate = x4.rate /\ x4'.drop = 0 /\ x4'.credit = 0 /\ x4'.adjustment = 0
    BY <1>3, <1>4, <2>1 DEF R!Bills
  <2> QED BY <1>3, <2>2, <2>3 DEF BillInv, R!MoneyInv
<1>6. R!BillAddsUp'
  <2> SUFFICES ASSUME ~x6 PROVE Sums(x4', card)
    BY <1>3 DEF R!BillAddsUp, R!Worth, R!OwnCard, Sums, BillInv, R!MoneyInv, R!Bills
  <2>1. Sums(x4, card)
    BY DEF BillInv, R!BillAddsUp, R!Worth, R!OwnCard, Sums
  <2>2. /\ x4'.total = x4.total + amount /\ x4'.net = x4.net + amount /\ x4'.fee = x4.fee /\ x4'.fare = x4.fare
        /\ x4'.pickup = waited /\ x4'.drop = 0 /\ x4'.credit = 0 /\ x4'.adjustment = 0
    BY <1>3, <1>4 DEF BillInv, R!MoneyInv, R!Bills
  <2>3. /\ x4.total \in Int /\ x4.net \in Int /\ x4.fee \in Int /\ x4.fare \in Int
    BY DEF BillInv, R!MoneyInv, R!Bills
  <2> HIDE DEF card
  <2> QED BY <1>2, <1>4, <2>1, <2>2, <2>3 DEF Sums, amount
<1> QED BY <1>5, <1>6

\* Delivering adds what the wait at the drop cost.
LEMMA DeliverAdds ==
    ASSUME BillInv, NEW waited \in Waits, NEW filled \in BOOLEAN, R!Deliver(waited, filled)
    PROVE  R!MoneyInv' /\ R!BillAddsUp'
<1> DEFINE card == x1[x4.rate]
           amount == R!DetentionCharge(card, waited)
           credit == R!BackfillCredit(filled)
<1>1. card \in R!Card /\ waited \in Nat
  BY FiguresAssumption DEF BillInv, R!PanelInv, R!MoneyInv
<1>2. amount \in Int /\ R!DetentionCharge(card, 0) = 0 /\ credit \in Int
  BY <1>1, WaitIsPriced, NoWaitIsFree DEF R!BackfillCredit, BillInv, R!MoneyInv, R!Bills
<1>3. /\ x3.status = "ARRIVED" /\ x3' = [x3 EXCEPT !.status = "DELIVERED"]
      /\ x4' = [x4 EXCEPT !.drop = waited, !.detention = @ + amount, !.credit = credit,
                          !.net = @ + amount - credit,
                          !.total = IF R!PriceMoves THEN @ + amount - credit ELSE @,
                          !.adjustment = IF R!PriceMoves THEN @ ELSE @ + amount - credit]
      /\ UNCHANGED <<x1, x2, x5, x6>>
  BY DEF R!Deliver, R!Go, R!OwnCard, R!thePanels
<1>4. x4.drop = 0 /\ x4.credit = 0 /\ x4.adjustment = 0
  BY <1>3 DEF BillInv, R!MoneyInv, R!Bills
<1>5. waited = 0 => amount = 0
  BY <1>2
<1> HIDE DEF amount, credit
<1>6. R!MoneyInv'
  <2>1. x3 \in R!OrderRows /\ x4 \in R!Bills
    BY DEF BillInv, R!MoneyInv, R!Bills
  <2>2. x3' \in R!OrderRows /\ x4' \in R!Bills /\ x3'.status = "DELIVERED"
    <3>1. x3' \in R!OrderRows /\ x3'.status = "DELIVERED"
      BY <1>3, <2>1 DEF R!OrderRows
    <3>2. /\ x4.detention + amount \in Int /\ x4.net + amount - credit \in Int
          /\ (IF R!PriceMoves THEN x4.total + amount - credit ELSE x4.total) \in Int
          /\ (IF R!PriceMoves THEN x4.adjustment ELSE x4.adjustment + amount - credit) \in Int
      BY <1>2, <2>1 DEF R!Bills
    <3>3. x4' \in R!Bills
      BY <1>1, <1>2, <1>3, <2>1, <3>2 DEF R!Bills
    <3> QED BY <3>1, <3>3
  <2>3. /\ x4'.rate = x4.rate /\ x4'.drop = waited /\ x4'.credit = credit
        /\ waited = 0 /\ credit = 0 => x4'.adjustment = 0
    BY <1>1, <1>2, <1>3, <1>4, <1>5, <2>1 DEF R!Bills
  <2> QED BY <1>3, <2>2, <2>3 DEF BillInv, R!MoneyInv
<1>7. R!BillAddsUp'
  <2> SUFFICES ASSUME ~x6 PROVE Sums(x4', card)
    BY <1>3 DEF R!BillAddsUp, R!Worth, R!OwnCard, Sums, BillInv, R!MoneyInv, R!Bills
  <2>1. Sums(x4, card)
    BY DEF BillInv, R!BillAddsUp, R!Worth, R!OwnCard, Sums
  <2>2. /\ x4'.total + x4'.adjustment = x4.total + amount - credit
        /\ x4'.net = x4.net + amount - credit /\ x4'.fee = x4.fee /\ x4'.fare = x4.fare
        /\ x4'.pickup = x4.pickup /\ x4'.drop = waited /\ x4'.credit = credit
    BY <1>2, <1>3, <1>4 DEF BillInv, R!MoneyInv, R!Bills
  <2>3. /\ x4.total \in Int /\ x4.net \in Int /\ x4.fee \in Int /\ x4.fare \in Int
        /\ R!DetentionCharge(card, x4.pickup) \in Int
    BY <1>1, WaitIsPriced DEF BillInv, R!MoneyInv, R!Bills
  <2> HIDE DEF card
  <2> QED BY <1>2, <1>4, <2>1, <2>2, <2>3 DEF Sums, amount
<1> QED BY <1>6, <1>7

\* The price that lands is one job's, on one card, before anything was added.
LEMMA LandAdds == ASSUME BillInv, R!LandPrice PROVE R!MoneyInv' /\ R!BillAddsUp'
<1> DEFINE card == x1[x5.rate]
<1>1. PICK price \in R!Prices : price = x5.price /\ R!Adds(price)
  BY DEF BillInv, R!MoneyInv, R!LandPrice
<1>2. x5.rate \in DOMAIN x1 /\ x5.rate \in Nat /\ card \in R!Card
  BY DEF BillInv, R!MoneyInv, R!PanelInv, R!LandPrice
<1>3. /\ x4' = [x4 EXCEPT !.rate = x5.rate, !.fare = price.total, !.total = price.total, !.fee = price.fee,
                          !.net = price.net, !.leg = price.leg, !.estimate = FALSE]
      /\ x6' = (x6 \/ x4.pickup # 0 \/ x4.drop # 0 \/ x4.credit # 0)
      /\ x5' = [at |-> "no"] /\ UNCHANGED <<x1, x2, x3>>
  BY <1>1 DEF R!LandPrice, R!thePanels
<1>4. x4 \in R!Bills
  BY DEF BillInv, R!MoneyInv
<1>5. x4' \in R!Bills
  BY <1>2, <1>3, <1>4 DEF R!Bills, R!Prices
<1>6. /\ x4'.rate = x5.rate /\ x4'.fare = price.total /\ x4'.total = price.total /\ x4'.fee = price.fee
      /\ x4'.net = price.net /\ x4'.pickup = x4.pickup /\ x4'.drop = x4.drop /\ x4'.credit = x4.credit
      /\ x4'.adjustment = x4.adjustment
  BY <1>3, <1>4 DEF R!Bills
<1>7. R!MoneyInv'
  BY <1>2, <1>3, <1>5, <1>6 DEF BillInv, R!MoneyInv
<1>8. R!BillAddsUp'
  <2> SUFFICES ASSUME ~x6' PROVE Sums(x4', card)
    BY <1>3, <1>6 DEF R!BillAddsUp, R!Worth, R!OwnCard, Sums
  <2>1. x4.pickup = 0 /\ x4.drop = 0 /\ x4.credit = 0 /\ x4.adjustment = 0
    BY <1>3 DEF BillInv, R!MoneyInv
  <2>2. R!DetentionCharge(card, 0) = 0
    BY <1>2, NoWaitIsFree
  <2>3. price.fee + price.net = price.total /\ price.total \in Int
    BY <1>1 DEF R!Adds, R!Prices
  <2> QED BY <1>6, <2>1, <2>2, <2>3 DEF Sums
<1> QED BY <1>7, <1>8

\* What touches neither the money columns but "charged", nor the journey past its waits.
LEMMA OtherwiseAdds ==
    ASSUME BillInv, [R!Next]_R!vars, UNCHANGED x6, x3' \in R!OrderRows,
           x4' = x4 \/ \E charged \in Int : x4' = [x4 EXCEPT !.charged = charged],
           x3'.status \in {"PENDING", "ASSIGNED", "AT_PICKUP"} => x3.status \in {"PENDING", "ASSIGNED", "AT_PICKUP"},
           x3'.status # "DELIVERED" => x3.status # "DELIVERED",
           x5'.at = "pinned" => x5'.route \in Trips,
           x5'.at = "priced" => x5'.rate \in DOMAIN x1 /\ x5'.price \in R!Prices /\ R!Adds(x5'.price)
    PROVE  R!MoneyInv' /\ R!BillAddsUp'
<1>1. x4 \in R!Bills /\ x4.rate \in DOMAIN x1
  BY DEF BillInv, R!MoneyInv
<1>2. x4' \in R!Bills
  BY <1>1 DEF R!Bills
<1>3. /\ x4'.rate = x4.rate /\ x4'.fare = x4.fare /\ x4'.total = x4.total /\ x4'.fee = x4.fee /\ x4'.net = x4.net
      /\ x4'.pickup = x4.pickup /\ x4'.drop = x4.drop /\ x4'.credit = x4.credit /\ x4'.adjustment = x4.adjustment
  BY <1>1 DEF R!Bills
<1>4. \A k \in DOMAIN x1 : k \in DOMAIN x1' /\ x1'[k] = x1[k]
  BY CardsStay DEF BillInv
<1>5. R!MoneyInv'
  BY <1>2, <1>3, <1>4 DEF BillInv, R!MoneyInv, Trips
<1>6. R!BillAddsUp'
  BY <1>1, <1>3, <1>4 DEF BillInv, R!BillAddsUp, R!Worth, R!OwnCard
<1> QED BY <1>5, <1>6

\* Every step keeps it.
LEMMA BillNext == BillInv /\ [R!Next]_R!vars => BillInv'
<1> SUFFICES ASSUME BillInv, [R!Next]_R!vars PROVE R!MoneyInv' /\ R!BillAddsUp'
  BY BillPanelsNext DEF BillInv
<1>1. /\ x3 \in R!OrderRows /\ x4 \in R!Bills
      /\ x5.at = "pinned" => x5.route \in Trips
      /\ x5.at = "priced" => x5.rate \in DOMAIN x1 /\ x5.price \in R!Prices /\ R!Adds(x5.price)
  BY DEF BillInv, R!MoneyInv, Trips
<1>2. CASE UNCHANGED <<x3, x4, x5, x6>>
  BY <1>1, <1>2, OtherwiseAdds
<1>3. ASSUME NEW route \in Routes, R!Pin(route) PROVE R!MoneyInv' /\ R!BillAddsUp'
  <2>1. route \in Trips
    BY FiguresAssumption DEF Trips
  <2>2. x3' \in R!OrderRows /\ x3'.status = x3.status
    BY <1>1, <1>3 DEF R!Pin, R!OrderRows
  <2>3. x5' = [at |-> "pinned", route |-> route] /\ UNCHANGED <<x4, x6>>
    BY <1>3 DEF R!Pin
  <2> QED BY <2>1, <2>2, <2>3, OtherwiseAdds
<1>4. CASE R!PriceJob
  <2>1. Len(x1) \in DOMAIN x1 /\ x1[Len(x1)] \in R!Card
    BY DEF BillInv, R!PanelInv
  <2>2. PICK price \in R!Prices : price = R!Quote(x1[Len(x1)], x5.route) /\ R!Adds(price)
    BY <1>1, <1>4, <2>1, QuoteAdds DEF R!PriceJob
  <2>3. x5' = [at |-> "priced", rate |-> Len(x1), price |-> price] /\ UNCHANGED <<x3, x4, x6>>
    BY <1>4, <2>2 DEF R!PriceJob, R!Current
  <2> QED BY <1>1, <2>1, <2>2, <2>3, OtherwiseAdds
<1>5. CASE R!PricingFails
  BY <1>1, <1>5, OtherwiseAdds DEF R!PricingFails
<1>6. CASE R!Travel
  <2>1. PICK to \in {"ASSIGNED", "AT_PICKUP", "IN_TRANSIT", "ARRIVED"} :
            /\ x3' = [x3 EXCEPT !.status = to]
            /\ to \in {"ASSIGNED", "AT_PICKUP"} => x3.status \in {"PENDING", "ASSIGNED"}
            /\ x3.status # "DELIVERED"
    BY <1>6 DEF R!Travel, R!Go
  <2>2. x3' \in R!OrderRows /\ x3'.status = to
    BY <1>1, <2>1 DEF R!OrderRows
  <2>3. UNCHANGED <<x4, x5, x6>>
    BY <1>6 DEF R!Travel
  <2> QED BY <1>1, <2>1, <2>2, <2>3, OtherwiseAdds
<1>7. ASSUME NEW to \in {"PENDING", "PAID", "FAILED"}, R!Charge(to) \/ R!Settle(to)
      PROVE  R!MoneyInv' /\ R!BillAddsUp'
  <2>1. x3' = [x3 EXCEPT !.payment = to] /\ UNCHANGED <<x5, x6>>
    BY <1>7 DEF R!Charge, R!Settle, R!Pay
  <2>2. x3' \in R!OrderRows /\ x3'.status = x3.status
    BY <1>1, <2>1 DEF R!OrderRows
  <2>3. x4' = x4 \/ x4' = [x4 EXCEPT !.charged = x4.total]
    BY <1>7 DEF R!Charge, R!Settle
  <2>4. x4.total \in Int
    BY <1>1 DEF R!Bills
  <2> QED BY <1>1, <2>1, <2>2, <2>3, <2>4, OtherwiseAdds
<1>8. CASE R!LandPrice
  BY <1>8, LandAdds
<1>9. ASSUME NEW waited \in Waits, R!LeavePickup(waited) \/ \E filled \in BOOLEAN : R!Deliver(waited, filled)
      PROVE  R!MoneyInv' /\ R!BillAddsUp'
  BY <1>9, LeaveAdds, DeliverAdds
<1> QED
  BY <1>2, <1>3, <1>4, <1>5, <1>6, <1>7, <1>8, <1>9, Zenon
  DEF R!Next, R!vars, R!Type, R!HandleSave, R!ReadCurrent, R!InsertCard, R!SaveFails, R!Load, R!theOrder

-----------------------------------------------------------------------------
(* LiveFleet: from a phone to the map:
   x1 sent, x2 queue, x3 waking, x4 flushTimer, x5 flush, x6 router, x7 breaches,
   x8 fleet, x9 sample, x10 alerts, x11 handled, x12 shaken. *)

\* The inductive invariant of the live fleet.
FleetInv == Live!ShapeInv /\ Live!DrawInv /\ Live!OrderInv /\ Live!AlertInv /\ Live!WakeInv

\* It holds at first.
LEMMA FleetInit == Live!Init => FleetInv
<1> SUFFICES ASSUME Live!Init PROVE FleetInv
  OBVIOUS
<1>1. \A f \in Flushes : x5[f] = [at |-> "off", batch |-> <<>>, timer |-> FALSE] /\ x5[f].at = "off"
  BY DEF Live!Init, Live!Idle
<1>2. Live!ShapeInv
  BY <1>1 DEF Live!Init, Live!ShapeInv, Live!Places, Live!Kinds, Live!Idle
<1>3. Live!DrawInv /\ Live!OrderInv
  BY <1>1 DEF Live!Init, Live!DrawInv, Live!OrderInv, Live!Draws, Live!OnItem, Live!Rising
<1>4. Live!AlertInv /\ Live!WakeInv
  BY <1>1 DEF Live!Init, Live!AlertInv, Live!WakeInv, Live!NoSampleStranded
<1> QED BY <1>2, <1>3, <1>4 DEF FleetInv

\* One flush goes from one place to another with what it now has in hand.
Moves(f, at, batch) ==
    /\ x5' \in [Flushes -> [at : Live!Places, batch : Seq(Live!Reports), timer : BOOLEAN]]
    /\ x5'[f].at = at /\ x5'[f].batch = batch
    /\ \A g \in Flushes \ {f} : x5'[g] = x5[g]

\* What a step of one flush leaves alone.
LEMMA Moving ==
    ASSUME Live!ShapeInv, NEW f \in Flushes, NEW at \in Live!Places
    PROVE  /\ x5' = [x5 EXCEPT ![f].at = at] => Moves(f, at, x5[f].batch)
           /\ \A batch \in Seq(Live!Reports) :
                x5' = [x5 EXCEPT ![f].at = at, ![f].batch = batch] => Moves(f, at, batch)
           /\ \A timer \in BOOLEAN :
                x5' = [x5 EXCEPT ![f] = [@ EXCEPT !.at = at, !.timer = timer]] => Moves(f, at, x5[f].batch)
           /\ x5' = [x5 EXCEPT ![f] = Live!Idle] => Moves(f, "off", <<>>)
<1>1. x5 \in [Flushes -> [at : Live!Places, batch : Seq(Live!Reports), timer : BOOLEAN]]
  BY DEF Live!ShapeInv
<1>2. x5' = [x5 EXCEPT ![f].at = at] => Moves(f, at, x5[f].batch)
  BY <1>1 DEF Moves
<1>3. ASSUME NEW batch \in Seq(Live!Reports), x5' = [x5 EXCEPT ![f].at = at, ![f].batch = batch]
      PROVE  Moves(f, at, batch)
  BY <1>1, <1>3 DEF Moves
<1>4. ASSUME NEW timer \in BOOLEAN, x5' = [x5 EXCEPT ![f] = [@ EXCEPT !.at = at, !.timer = timer]]
      PROVE  Moves(f, at, x5[f].batch)
  BY <1>1, <1>4 DEF Moves
<1>5. ASSUME x5' = [x5 EXCEPT ![f] = Live!Idle] PROVE Moves(f, "off", <<>>)
  <2>1. Live!Idle \in [at : Live!Places, batch : Seq(Live!Reports), timer : BOOLEAN]
    BY DEF Live!Idle, Live!Places
  <2> QED BY <1>1, <1>5, <2>1 DEF Moves, Live!Idle
<1> QED BY <1>2, <1>3, <1>4, <1>5, Zenon

\* The sample in hand is the first of its batch, and the next follows it.
LEMMA InHand ==
    ASSUME Live!ShapeInv, Live!DrawInv, NEW f \in Flushes, Live!OnItem(f)
    PROVE  LET batch == x5[f].batch IN
           /\ batch \in Seq(Live!Reports) /\ 1 \in DOMAIN batch
           /\ Live!Item(f) = batch[1] /\ batch[1] \in Live!Reports
           /\ Tail(batch) \in Seq(Live!Reports)
           /\ \A i \in DOMAIN Tail(batch) : i + 1 \in DOMAIN batch /\ Tail(batch)[i] = batch[i + 1]
           /\ Len(batch) # 1 => Tail(batch) # <<>>
<1> DEFINE batch == x5[f].batch
<1>1. batch \in Seq(Live!Reports) /\ batch # <<>>
  BY DEF Live!ShapeInv, Live!DrawInv
<1> HIDE DEF batch
<1>2. /\ 1 \in DOMAIN batch /\ Head(batch) = batch[1] /\ batch[1] \in Live!Reports
      /\ Tail(batch) \in Seq(Live!Reports) /\ Len(Tail(batch)) = Len(batch) - 1
  BY <1>1
<1>3. \A i \in DOMAIN Tail(batch) : i + 1 \in DOMAIN batch /\ Tail(batch)[i] = batch[i + 1]
  BY <1>1
<1>4. Len(batch) # 1 => Tail(batch) # <<>>
  <2> DEFINE none == <<>>
  <2>1. Len(none) = 0
    OBVIOUS
  <2> HIDE DEF none
  <2>2. Len(batch) # 1 => Len(batch) - 1 # 0
    BY <1>1
  <2>3. Len(Tail(batch)) # 0 => Tail(batch) # none
    BY <2>1
  <2> QED BY <1>2, <2>2, <2>3 DEF none
<1> QED BY <1>1, <1>2, <1>3, <1>4 DEF batch, Live!Item

\* A batch is the head of the queue, and what stays its tail.
LEMMA Popping ==
    ASSUME NEW s \in Seq(Live!Reports), NEW k \in 0..Len(s)
    PROVE  /\ SubSeq(s, 1, k) \in Seq(Live!Reports) /\ Len(SubSeq(s, 1, k)) = k
           /\ \A i \in DOMAIN SubSeq(s, 1, k) : i \in DOMAIN s /\ i <= k /\ SubSeq(s, 1, k)[i] = s[i]
           /\ SubSeq(s, k + 1, Len(s)) \in Seq(Live!Reports)
           /\ \A i \in DOMAIN SubSeq(s, k + 1, Len(s)) :
                i + k \in DOMAIN s /\ i > 0 /\ SubSeq(s, k + 1, Len(s))[i] = s[i + k]
<1>1. SubSeq(s, 1, k) \in Seq(Live!Reports) /\ Len(SubSeq(s, 1, k)) = k
  OBVIOUS
<1>2. \A i \in DOMAIN SubSeq(s, 1, k) : i \in DOMAIN s /\ i <= k /\ SubSeq(s, 1, k)[i] = s[i]
  OBVIOUS
<1>3. SubSeq(s, k + 1, Len(s)) \in Seq(Live!Reports)
  OBVIOUS
<1>4. \A i \in DOMAIN SubSeq(s, k + 1, Len(s)) :
                i + k \in DOMAIN s /\ i > 0 /\ SubSeq(s, k + 1, Len(s))[i] = s[i + k]
  OBVIOUS
<1> QED BY <1>1, <1>2, <1>3, <1>4

\* Nobody draws on the queue unless somebody is draining it.
LEMMA NobodyDraws == ASSUME ~Live!Draining PROVE \A g \in Flushes : ~Live!Draws(g)
BY DEF Live!Draining, Live!Running, Live!Draws

\* What each step of a flush does with its place and its batch.
LEMMA FlushGoes ==
    ASSUME FleetInv, NEW f \in Flushes
    PROVE  /\ Live!TimerFires(f) => \E at \in {"checking", "ending"} :
                /\ Moves(f, at, x5[f].batch) /\ (at = "checking" => \A g \in Flushes : ~Live!Draws(g))
           /\ Live!PopBatch(f) => \E k \in 1..Len(x2) :
                /\ Moves(f, "judge", SubSeq(x2, 1, k)) /\ x2' = SubSeq(x2, k + 1, Len(x2))
           /\ Live!Drained(f) => Moves(f, "ending", x5[f].batch) \/ Moves(f, "off", <<>>)
           /\ Live!EndFlush(f) => Moves(f, "off", <<>>)
           /\ \A popped \in 0..(BatchSize - 1) : Live!RedisFails(f, popped) => Moves(f, "off", <<>>)
           /\ Live!Judge(f) => \E at \in {"flag", "publish"} :
                /\ Moves(f, at, x5[f].batch)
                /\ at = "flag" => x7[Live!Item(f).driver] # Live!Item(f).kind
                /\ at = "publish" => x7[Live!Item(f).driver] = Live!Item(f).kind
           /\ Live!Flag(f) => Moves(f, "record", x5[f].batch)
           /\ Live!Record(f) => Moves(f, "publish", x5[f].batch)
           /\ Live!Publish(f) \/ Live!ItemFails(f) => \E at \in {"checking", "judge"} :
                /\ Moves(f, at, Tail(x5[f].batch)) /\ (at = "judge" => Tail(x5[f].batch) # <<>>)
           /\ Live!Shutdown(f) => \/ x5' = x5
                                  \/ Moves(f, "checking", x5[f].batch) /\ \A g \in Flushes : ~Live!Draws(g)
<1> USE DEF Live!Places
<1>1. Live!ShapeInv /\ Live!DrawInv
  BY DEF FleetInv
<1>2. ASSUME Live!TimerFires(f)
      PROVE  \E at \in {"checking", "ending"} :
                /\ Moves(f, at, x5[f].batch) /\ (at = "checking" => \A g \in Flushes : ~Live!Draws(g))
  <2> DEFINE at == IF Live!Draining THEN "ending" ELSE "checking"
  <2>1. x5' = [x5 EXCEPT ![f] = [@ EXCEPT !.at = at, !.timer = TRUE]]
    BY <1>2 DEF Live!TimerFires
  <2>2. at \in {"checking", "ending"} /\ (at = "checking" => ~Live!Draining)
    OBVIOUS
  <2> HIDE DEF at
  <2>3. Moves(f, at, x5[f].batch)
    BY <1>1, <2>1, <2>2, Moving, Zenon
  <2> QED BY <2>2, <2>3, NobodyDraws
<1>3. ASSUME Live!PopBatch(f)
      PROVE  \E k \in 1..Len(x2) :
                /\ Moves(f, "judge", SubSeq(x2, 1, k)) /\ x2' = SubSeq(x2, k + 1, Len(x2))
  <2> DEFINE k == Live!Smaller(Len(x2), BatchSize)
  <2>1. x2 \in Seq(Live!Reports) /\ x2 # <<>>
    BY <1>1, <1>3 DEF Live!ShapeInv, Live!PopBatch
  <2>2. k \in 1..Len(x2)
    BY <2>1, BatchAssumption DEF Live!Smaller
  <2>3. x5' = [x5 EXCEPT ![f].at = "judge", ![f].batch = SubSeq(x2, 1, k)] /\ x2' = SubSeq(x2, k + 1, Len(x2))
    BY <1>3 DEF Live!PopBatch
  <2> HIDE DEF k
  <2>4. SubSeq(x2, 1, k) \in Seq(Live!Reports)
    BY <2>1, <2>2, Popping
  <2>5. Moves(f, "judge", SubSeq(x2, 1, k))
    BY <1>1, <2>3, <2>4, Moving, Zenon
  <2> QED BY <2>2, <2>3, <2>5
<1>4. Live!Drained(f) => Moves(f, "ending", x5[f].batch) \/ Moves(f, "off", <<>>)
  <2> SUFFICES ASSUME Live!Drained(f) PROVE Moves(f, "ending", x5[f].batch) \/ Moves(f, "off", <<>>)
    OBVIOUS
  <2>1. CASE x5[f].timer
    <3>1. x5' = [x5 EXCEPT ![f].at = "ending"]
      BY <2>1 DEF Live!Drained
    <3> QED BY <1>1, <3>1, Moving, Zenon
  <2>2. CASE ~x5[f].timer
    <3>1. x5' = [x5 EXCEPT ![f] = Live!Idle]
      BY <2>2 DEF Live!Drained
    <3> QED BY <1>1, <3>1, Moving, Zenon
  <2> QED BY <2>1, <2>2
<1>5. Live!EndFlush(f) => Moves(f, "off", <<>>)
  BY <1>1, Moving, Zenon DEF Live!EndFlush
<1>6. \A popped \in 0..(BatchSize - 1) : Live!RedisFails(f, popped) => Moves(f, "off", <<>>)
  BY <1>1, Moving, Zenon DEF Live!RedisFails
<1>7. ASSUME Live!Judge(f)
      PROVE  \E at \in {"flag", "publish"} :
                /\ Moves(f, at, x5[f].batch)
                /\ at = "flag" => x7[Live!Item(f).driver] # Live!Item(f).kind
                /\ at = "publish" => x7[Live!Item(f).driver] = Live!Item(f).kind
  <2> DEFINE new == x7[Live!Item(f).driver] # Live!Item(f).kind
             at == IF new THEN "flag" ELSE "publish"
  <2>1. x5' = [x5 EXCEPT ![f].at = at]
    BY <1>7 DEF Live!Judge, Live!GoTo, Live!After
  <2>2. at \in {"flag", "publish"} /\ (at = "flag" => new) /\ (at = "publish" => ~new)
    OBVIOUS
  <2> HIDE DEF at
  <2>3. Moves(f, at, x5[f].batch)
    BY <1>1, <2>1, <2>2, Moving, Zenon
  <2> QED BY <2>2, <2>3
<1>8. Live!Flag(f) => Moves(f, "record", x5[f].batch)
  BY <1>1, Moving, Zenon DEF Live!Flag, Live!GoTo, Live!After
<1>9. Live!Record(f) => Moves(f, "publish", x5[f].batch)
  BY <1>1, Moving, Zenon DEF Live!Record, Live!GoTo, Live!After
<1>10. ASSUME Live!Publish(f) \/ Live!ItemFails(f)
       PROVE  \E at \in {"checking", "judge"} :
                /\ Moves(f, at, Tail(x5[f].batch)) /\ (at = "judge" => Tail(x5[f].batch) # <<>>)
  <2> DEFINE at == IF Len(x5[f].batch) = 1 THEN "checking" ELSE "judge"
  <2>1. Live!OnItem(f) /\ x5' = [x5 EXCEPT ![f].at = at, ![f].batch = Tail(x5[f].batch)]
    BY <1>10 DEF Live!Publish, Live!ItemFails, Live!NextItem, Live!OnItem
  <2>2. Tail(x5[f].batch) \in Seq(Live!Reports) /\ (Len(x5[f].batch) # 1 => Tail(x5[f].batch) # <<>>)
    BY <1>1, <2>1, InHand
  <2>3. at \in {"checking", "judge"} /\ (at = "judge" => Len(x5[f].batch) # 1)
    OBVIOUS
  <2> HIDE DEF at
  <2>4. Moves(f, at, Tail(x5[f].batch))
    BY <1>1, <2>1, <2>2, <2>3, Moving, Zenon
  <2> QED BY <2>2, <2>3, <2>4
<1>11. Live!Shutdown(f) => \/ x5' = x5
                           \/ Moves(f, "checking", x5[f].batch) /\ \A g \in Flushes : ~Live!Draws(g)
  BY <1>1, Moving, NobodyDraws, Zenon DEF Live!Shutdown
<1> QED BY <1>2, <1>3, <1>4, <1>5, <1>6, <1>7, <1>8, <1>9, <1>10, <1>11

\* The steps of a flush, by what they leave alone.
Handles(f) == Live!Judge(f) \/ Live!Flag(f) \/ Live!Record(f) \/ Live!Publish(f) \/ Live!ItemFails(f)
Turns(f)   == \/ Live!TimerFires(f) \/ Live!Drained(f) \/ Live!EndFlush(f) \/ Live!Shutdown(f)
              \/ \E popped \in 0..(BatchSize - 1) : Live!RedisFails(f, popped)

\* The steps, by who takes them.
LEMMA FleetSteps ==
    ASSUME [Live!Next]_(Live!vars)
    PROVE  \/ UNCHANGED Live!vars \/ Live!ScheduleFlush \/ Live!End \/ Live!StartServer
           \/ \E d \in Drivers, kind \in Live!Kinds : Live!Enqueue(d, kind)
           \/ \E f \in Flushes : Handles(f) \/ Turns(f) \/ Live!PopBatch(f)
BY DEF Live!Next, Handles, Turns

\* Every flush stays one of a kind, and those that draw on the queue one at most.
LEMMA DrawKept ==
    ASSUME Live!DrawInv, NEW f \in Flushes, NEW at, NEW batch, Moves(f, at, batch),
           at \in {"off", "ending"} \/ Live!Draws(f) \/ \A g \in Flushes : ~Live!Draws(g),
           at \in {"judge", "flag", "record", "publish"} => batch # <<>>
    PROVE  Live!DrawInv'
BY DEF Live!DrawInv, Live!Draws, Live!OnItem, Moves

\* No step lets a second flush draw on the queue.
LEMMA DrawNext == FleetInv /\ [Live!Next]_(Live!vars) => Live!DrawInv'
<1> SUFFICES ASSUME FleetInv, [Live!Next]_(Live!vars) PROVE Live!DrawInv'
  OBVIOUS
<1>1. Live!ShapeInv /\ Live!DrawInv
  BY DEF FleetInv
<1>2. CASE x5' = x5
  BY <1>1, <1>2 DEF Live!DrawInv, Live!Draws, Live!OnItem
<1>3. CASE Live!End
  BY <1>3 DEF Live!DrawInv, Live!Draws, Live!OnItem, Live!End, Live!Idle
<1>4. ASSUME NEW f \in Flushes, Handles(f) PROVE Live!DrawInv'
  <2>1. Live!Draws(f) /\ Live!OnItem(f)
    BY <1>4 DEF Handles, Live!Judge, Live!Flag, Live!Record, Live!Publish, Live!ItemFails, Live!Draws, Live!OnItem
  <2>2. x5[f].batch # <<>>
    BY <1>1, <2>1 DEF Live!DrawInv
  <2> QED BY <1>1, <1>4, <2>1, <2>2, FlushGoes, DrawKept DEF Handles
<1>5. ASSUME NEW f \in Flushes, Turns(f) PROVE Live!DrawInv'
  <2>1. \/ x5' = x5
        \/ \E at \in {"off", "ending", "checking"} : \E batch :
              Moves(f, at, batch) /\ (at = "checking" => \A g \in Flushes : ~Live!Draws(g))
    BY <1>5, FlushGoes DEF Turns
  <2> QED BY <1>1, <1>2, <2>1, DrawKept
<1>6. ASSUME NEW f \in Flushes, Live!PopBatch(f) PROVE Live!DrawInv'
  <2>1. PICK k \in 1..Len(x2) : Moves(f, "judge", SubSeq(x2, 1, k))
    BY <1>6, FlushGoes
  <2>2. SubSeq(x2, 1, k) # <<>>
    <3>1. k \in 0..Len(x2) /\ k > 0 /\ Len(<<>>) = 0
      BY <1>1 DEF Live!ShapeInv
    <3>2. Len(SubSeq(x2, 1, k)) = k
      BY <1>1, <3>1, Popping DEF Live!ShapeInv
    <3> QED BY <3>1, <3>2
  <2>3. Live!Draws(f)
    BY <1>6 DEF Live!PopBatch, Live!Draws
  <2> QED BY <1>1, <2>1, <2>2, <2>3, DrawKept
<1> QED
  BY <1>2, <1>3, <1>4, <1>5, <1>6, FleetSteps DEF Live!vars, Live!ScheduleFlush, Live!StartServer, Live!Enqueue

\* Every step keeps the types.
LEMMA ShapeNext == FleetInv /\ [Live!Next]_(Live!vars) => Live!ShapeInv'
<1> SUFFICES ASSUME FleetInv, [Live!Next]_(Live!vars) PROVE Live!ShapeInv'
  OBVIOUS
<1>1. Live!ShapeInv /\ Live!DrawInv
  BY DEF FleetInv
<1> USE DEF Live!ShapeInv
<1>2. CASE UNCHANGED Live!vars \/ Live!ScheduleFlush \/ Live!StartServer
  BY <1>1, <1>2 DEF Live!vars, Live!ScheduleFlush, Live!StartServer, Live!shared
<1>3. CASE Live!End
  <2>1. Live!Idle \in [at : Live!Places, batch : Seq(Live!Reports), timer : BOOLEAN]
    BY DEF Live!Idle, Live!Places
  <2> QED BY <1>1, <1>3, <2>1 DEF Live!End, Live!shared
<1>4. ASSUME NEW d \in Drivers, NEW kind \in Live!Kinds, Live!Enqueue(d, kind) PROVE Live!ShapeInv'
  <2>1. [driver |-> d, n |-> x1 + 1, kind |-> kind] \in Live!Reports
    BY <1>1 DEF Live!Reports
  <2>2. x2' \in Seq(Live!Reports)
    BY <1>1, <1>4, <2>1 DEF Live!Enqueue
  <2> QED BY <1>1, <1>4, <2>2 DEF Live!Enqueue, Live!shared
<1>5. ASSUME NEW f \in Flushes, Handles(f) PROVE Live!ShapeInv'
  <2>1. Live!Item(f) \in Live!Reports
    BY <1>1, <1>5, InHand
    DEF Handles, Live!Judge, Live!Flag, Live!Record, Live!Publish, Live!ItemFails, Live!OnItem
  <2>2. Live!Item(f).driver \in Drivers /\ Live!Item(f).kind \in Live!Kinds /\ Live!Item(f).n \in Nat
    BY <2>1 DEF Live!Reports
  <2>3. x5' \in [Flushes -> [at : Live!Places, batch : Seq(Live!Reports), timer : BOOLEAN]]
    BY <1>5, FlushGoes DEF Handles, Moves
  <2>4. UNCHANGED <<x1, x2, x3>>
    BY <1>5 DEF Handles, Live!Judge, Live!Flag, Live!Record, Live!Publish, Live!ItemFails
  <2>5. x7' \in [Drivers -> Live!Kinds] /\ x8' \in [Drivers -> Nat] /\ x9' \in [Drivers -> Live!Kinds]
    BY <1>1, <1>5, <2>2
    DEF Handles, Live!Judge, Live!Flag, Live!Record, Live!Publish, Live!ItemFails, Live!shared
  <2>6. x10' \in [Drivers -> Nat]
    <3>1. CASE x10' = x10
      BY <1>1, <3>1
    <3>2. ASSUME NEW n \in Nat, x10' = [x10 EXCEPT ![Live!Item(f).driver] = n] PROVE x10' \in [Drivers -> Nat]
      BY <1>1, <3>2
    <3>3. x10[Live!Item(f).driver] \in Nat
      BY <1>1, <2>2
    <3>4. CASE Live!Judge(f)
      <4>1. PICK n \in {x10[Live!Item(f).driver], 0} : x10' = [x10 EXCEPT ![Live!Item(f).driver] = n]
        BY <3>4 DEF Live!Judge
      <4>2. n \in Nat
        BY <3>3, <4>1
      <4> QED BY <3>2, <4>1, <4>2
    <3>5. CASE Live!Record(f)
      <4>1. x10' = [x10 EXCEPT ![Live!Item(f).driver] = x10[Live!Item(f).driver] + 1]
        BY <3>5 DEF Live!Record
      <4>2. x10[Live!Item(f).driver] + 1 \in Nat
        BY <3>3
      <4> QED BY <3>2, <4>1, <4>2
    <3> QED BY <1>5, <3>1, <3>4, <3>5 DEF Handles, Live!Flag, Live!Publish, Live!ItemFails, Live!shared
  <2> QED BY <1>1, <2>3, <2>4, <2>5, <2>6
<1>6. ASSUME NEW f \in Flushes, Turns(f) \/ Live!PopBatch(f) PROVE Live!ShapeInv'
  <2>1. x5' \in [Flushes -> [at : Live!Places, batch : Seq(Live!Reports), timer : BOOLEAN]]
    BY <1>1, <1>6, FlushGoes DEF Turns, Moves
  <2>2. x2' \in Seq(Live!Reports)
    <3>1. CASE x2' = x2
      BY <1>1, <3>1
    <3>2. ASSUME NEW k \in 0..Len(x2), x2' = SubSeq(x2, k + 1, Len(x2)) PROVE x2' \in Seq(Live!Reports)
      BY <1>1, <3>2, Popping
    <3>3. CASE Live!PopBatch(f)
      BY <1>1, <3>2, <3>3, FlushGoes
    <3>4. ASSUME NEW popped \in 0..(BatchSize - 1), Live!RedisFails(f, popped) PROVE x2' \in Seq(Live!Reports)
      <4>1. popped \in 0..Len(x2)
        BY <1>1, <3>4, BatchAssumption DEF Live!RedisFails
      <4> QED BY <3>2, <3>4, <4>1 DEF Live!RedisFails
    <3> QED BY <1>6, <3>1, <3>3, <3>4
            DEF Turns, Live!TimerFires, Live!Drained, Live!EndFlush, Live!Shutdown
  <2>3. UNCHANGED <<x1, x3, x7, x8, x9, x10>>
    BY <1>6 DEF Turns, Live!TimerFires, Live!Drained, Live!EndFlush, Live!Shutdown, Live!PopBatch,
                Live!RedisFails, Live!shared
  <2> QED BY <1>1, <2>1, <2>2, <2>3
<1> QED BY <1>2, <1>3, <1>4, <1>5, <1>6, FleetSteps

\* The order of the samples is kept by what neither handles one nor takes one in.
LEMMA OrderStays ==
    ASSUME Live!OrderInv, UNCHANGED <<x1, x8>>, Live!ShapeInv,
           NEW k \in 0..Len(x2), x2' = x2 \/ x2' = SubSeq(x2, k + 1, Len(x2)),
           \A f \in Flushes : Live!OnItem(f)' => Live!OnItem(f) /\ x5'[f].batch = x5[f].batch
    PROVE  Live!OrderInv'
<1>1. \A i \in DOMAIN x2' : \E j \in DOMAIN x2 : x2'[i] = x2[j]
  <2>1. x2 \in Seq(Live!Reports)
    BY DEF Live!ShapeInv
  <2>2. CASE x2' = x2
    BY <2>1, <2>2
  <2>3. CASE x2' = SubSeq(x2, k + 1, Len(x2))
    <3>1. \A i \in DOMAIN x2' : i + k \in DOMAIN x2 /\ i > 0 /\ x2'[i] = x2[i + k]
      BY <2>1, <2>3, Popping
    <3> QED BY <3>1
  <2> QED BY <2>2, <2>3
<1>2. Live!Rising(x2)'
  <2>1. x2 \in Seq(Live!Reports) /\ Live!Rising(x2)
    BY DEF Live!ShapeInv, Live!OrderInv
  <2>2. CASE x2' = x2
    BY <2>1, <2>2
  <2>3. CASE x2' = SubSeq(x2, k + 1, Len(x2))
    <3>1. \A i \in DOMAIN x2' : i + k \in DOMAIN x2 /\ i > 0 /\ x2'[i] = x2[i + k]
      BY <2>1, <2>3, Popping
    <3>2. DOMAIN x2' \subseteq Nat
      BY <2>1, <2>3, Popping
    <3>3. \A i, j \in DOMAIN x2' : i < j => i + k < j + k
      BY <3>2
    <3> QED BY <2>1, <3>1, <3>3 DEF Live!Rising
  <2> QED BY <2>2, <2>3
<1>3. \A f \in Flushes : Live!OnItem(f)' => Live!Rising(x5[f].batch)'
  BY DEF Live!OrderInv, Live!Rising
<1> QED BY <1>1, <1>2, <1>3 DEF Live!OrderInv

\* A report is newer than all before it.
LEMMA EnqueueOrders ==
    ASSUME FleetInv, NEW d \in Drivers, NEW kind \in Live!Kinds, Live!Enqueue(d, kind)
    PROVE  Live!OrderInv'
<1> DEFINE report == [driver |-> d, n |-> x1 + 1, kind |-> kind]
<1>1. /\ x1 \in Nat /\ x2 \in Seq(Live!Reports) /\ x8 \in [Drivers -> Nat]
      /\ x5 \in [Flushes -> [at : Live!Places, batch : Seq(Live!Reports), timer : BOOLEAN]]
  BY DEF FleetInv, Live!ShapeInv
<1>2. x1' = x1 + 1 /\ x2' = Append(x2, report) /\ x5' = x5 /\ x8' = x8
  BY DEF Live!Enqueue, Live!shared
<1>3. report.n = x1 + 1
  OBVIOUS
<1> HIDE DEF report
<1>4. \A i \in DOMAIN x2' : \/ i \in DOMAIN x2 /\ x2'[i] = x2[i]
                            \/ i = Len(x2) + 1 /\ x2'[i] = report
  BY <1>1, <1>2
<1>5. DOMAIN x2 = 1..Len(x2) /\ Len(x2) \in Nat /\ \A i \in DOMAIN x2 : x2[i].n \in Nat
  <2>1. \A i \in DOMAIN x2 : x2[i] \in Live!Reports
    BY <1>1
  <2> QED BY <1>1, <2>1 DEF Live!Reports
<1>6. Live!OrderInv
  BY DEF FleetInv
<1>7. Live!Rising(x2)'
  BY <1>1, <1>2, <1>3, <1>4, <1>5, <1>6 DEF Live!OrderInv, Live!Rising
<1>8. \A i \in DOMAIN x2' : x2'[i].n <= x1' /\ \A e \in Drivers : x8[e] < x2'[i].n
  <2>1. \A e \in Drivers : x8[e] \in Nat /\ x8[e] <= x1
    BY <1>1, <1>6 DEF Live!OrderInv
  <2> QED BY <1>1, <1>2, <1>3, <1>4, <1>5, <1>6, <2>1 DEF Live!OrderInv
<1>9. \A e \in Drivers : x8'[e] <= x1'
  BY <1>1, <1>2, <1>6 DEF Live!OrderInv
<1>10. ASSUME NEW f \in Flushes, Live!OnItem(f)'
       PROVE  /\ Live!Rising(x5[f].batch)'
              /\ \A i \in DOMAIN x5'[f].batch :
                   /\ x5'[f].batch[i].n <= x1'
                   /\ \A e \in Drivers : x8'[e] < x5'[f].batch[i].n
                   /\ \A j \in DOMAIN x2' : x5'[f].batch[i].n < x2'[j].n
  <2>1. x5'[f] = x5[f] /\ Live!OnItem(f) /\ x5[f].batch \in Seq(Live!Reports)
    BY <1>1, <1>2, <1>10 DEF Live!OnItem
  <2>2. \A i \in DOMAIN x5[f].batch : x5[f].batch[i] \in Live!Reports
    BY <2>1
  <2>3. \A i \in DOMAIN x5[f].batch : x5[f].batch[i].n \in Nat
    BY <2>2 DEF Live!Reports
  <2>4. Live!Rising(x5[f].batch)'
    BY <1>6, <2>1 DEF Live!OrderInv, Live!Rising
  <2>5. \A i \in DOMAIN x5[f].batch :
            /\ x5[f].batch[i].n <= x1
            /\ \A e \in Drivers : x8[e] < x5[f].batch[i].n
            /\ \A j \in DOMAIN x2 : x5[f].batch[i].n < x2[j].n
    BY <1>6, <2>1 DEF Live!OrderInv
  <2> QED BY <1>1, <1>2, <1>3, <1>4, <2>1, <2>3, <2>4, <2>5
<1> QED BY <1>2, <1>7, <1>8, <1>9, <1>10 DEF Live!OrderInv

\* A batch comes before what stays in the queue.
LEMMA PopOrders ==
    ASSUME FleetInv, NEW f \in Flushes, Live!PopBatch(f)
    PROVE  Live!OrderInv'
<1>1. x2 \in Seq(Live!Reports) /\ Live!OrderInv /\ Live!DrawInv
  BY DEF FleetInv, Live!ShapeInv
<1>2. PICK k \in 1..Len(x2) : Moves(f, "judge", SubSeq(x2, 1, k)) /\ x2' = SubSeq(x2, k + 1, Len(x2))
  BY FlushGoes
<1>3. k \in 0..Len(x2) /\ k \in Nat
  BY <1>1
<1>4. PICK batch : batch = SubSeq(x2, 1, k)
  OBVIOUS
<1>5. \A i \in DOMAIN batch : i \in DOMAIN x2 /\ i <= k /\ batch[i] = x2[i]
  BY <1>1, <1>3, <1>4, Popping
<1>6. \A i \in DOMAIN x2' : i + k \in DOMAIN x2 /\ i > 0 /\ x2'[i] = x2[i + k]
  BY <1>1, <1>2, <1>3, Popping
<1>7. DOMAIN x2 \subseteq Nat /\ DOMAIN x2' \subseteq Nat
  BY <1>1, <1>2, <1>3, Popping
<1>8. UNCHANGED <<x1, x8>>
  BY DEF Live!PopBatch, Live!shared
<1>9. Live!Rising(x2) /\ \A i \in DOMAIN x2 : x2[i].n <= x1 /\ \A e \in Drivers : x8[e] < x2[i].n
  BY <1>1 DEF Live!OrderInv
<1>10. Live!Rising(x2)'
  <2>1. \A i, j \in DOMAIN x2' : i < j => i + k < j + k
    BY <1>3, <1>7
  <2> QED BY <1>6, <1>9, <2>1 DEF Live!Rising
<1>11. \A i \in DOMAIN batch :
            /\ batch[i].n <= x1 /\ \A e \in Drivers : x8[e] < batch[i].n
            /\ \A j \in DOMAIN batch : i < j => batch[i].n < batch[j].n
            /\ \A j \in DOMAIN x2' : batch[i].n < x2'[j].n
  <2>1. \A i \in DOMAIN batch, j \in DOMAIN x2' : i < j + k
    BY <1>3, <1>5, <1>6, <1>7
  <2> QED BY <1>5, <1>6, <1>9, <2>1 DEF Live!Rising
<1>12. x5'[f].batch = batch /\ \A g \in Flushes : Live!OnItem(g)' => g = f
  BY <1>1, <1>2, <1>4 DEF Moves, Live!OnItem, Live!Draws, Live!DrawInv, Live!PopBatch
<1>13. Live!Rising(x5[f].batch)'
  BY <1>11, <1>12 DEF Live!Rising
<1> QED BY <1>6, <1>8, <1>9, <1>10, <1>11, <1>12, <1>13, <1>1 DEF Live!OrderInv

\* The next sample is newer than the one that was published, or given up.
LEMMA HandledOrders ==
    ASSUME FleetInv, NEW f \in Flushes, Live!Publish(f) \/ Live!ItemFails(f)
    PROVE  Live!OrderInv'
<1> DEFINE batch == x5[f].batch
           rest  == Tail(batch)
<1>1. Live!ShapeInv /\ Live!OrderInv /\ Live!DrawInv /\ Live!OnItem(f)
  BY DEF FleetInv, Live!Publish, Live!ItemFails, Live!OnItem
<1>2. /\ batch \in Seq(Live!Reports) /\ 1 \in DOMAIN batch /\ Live!Item(f) = batch[1]
      /\ rest \in Seq(Live!Reports)
      /\ \A i \in DOMAIN rest : i + 1 \in DOMAIN batch /\ rest[i] = batch[i + 1]
  BY <1>1, InHand
<1>3. \A i \in DOMAIN rest : i \in Nat /\ i > 0
  BY <1>2
<1>4. PICK at \in {"checking", "judge"} : Moves(f, at, rest)
  BY FlushGoes
<1>5. /\ Live!Rising(batch)
      /\ \A i \in DOMAIN batch :
            /\ batch[i].n <= x1
            /\ \A e \in Drivers : x8[e] < batch[i].n
            /\ \A j \in DOMAIN x2 : batch[i].n < x2[j].n
  BY <1>1 DEF Live!OrderInv
<1>6. UNCHANGED <<x1, x2>>
  BY DEF Live!Publish, Live!ItemFails
<1>7. \A e \in Drivers : x8'[e] = x8[e] \/ x8'[e] = batch[1].n
  BY <1>1, <1>2 DEF Live!Publish, Live!ItemFails, Live!shared, Live!ShapeInv
<1>8. x5'[f].batch = rest /\ \A g \in Flushes : Live!OnItem(g)' => g = f
  BY <1>1, <1>4 DEF Moves, Live!OnItem, Live!Draws, Live!DrawInv
<1> HIDE DEF batch, rest
<1>9. \A i \in DOMAIN rest : batch[1].n < rest[i].n
  BY <1>2, <1>3, <1>5 DEF Live!Rising
<1>10. Live!Rising(rest)
  <2>1. \A i, j \in DOMAIN rest : i < j => i + 1 < j + 1
    BY <1>3
  <2> QED BY <1>2, <1>5, <2>1 DEF Live!Rising
<1>11. \A i \in DOMAIN rest :
            /\ rest[i].n <= x1
            /\ \A e \in Drivers : x8'[e] < rest[i].n
            /\ \A j \in DOMAIN x2 : rest[i].n < x2[j].n
  BY <1>2, <1>5, <1>7, <1>9
<1>12. \A e \in Drivers : x8'[e] <= x1 /\ \A j \in DOMAIN x2 : x8'[e] < x2[j].n
  BY <1>1, <1>2, <1>5, <1>7 DEF Live!OrderInv
<1>13. Live!Rising(x5[f].batch)' /\ Live!Rising(x2)'
  BY <1>1, <1>6, <1>8, <1>10 DEF Live!Rising, Live!OrderInv
<1>14. \A i \in DOMAIN x2' : x2'[i].n <= x1'
  BY <1>1, <1>6 DEF Live!OrderInv
<1>15. ASSUME NEW g \in Flushes, Live!OnItem(g)'
       PROVE  /\ Live!Rising(x5[g].batch)'
              /\ \A i \in DOMAIN x5'[g].batch :
                   /\ x5'[g].batch[i].n <= x1'
                   /\ \A e \in Drivers : x8'[e] < x5'[g].batch[i].n
                   /\ \A j \in DOMAIN x2' : x5'[g].batch[i].n < x2'[j].n
  <2>1. x5'[g].batch = rest
    BY <1>8, <1>15
  <2>2. Live!Rising(x5[g].batch)'
    BY <1>10, <2>1 DEF Live!Rising
  <2>3. \A i \in DOMAIN x5'[g].batch : x5'[g].batch[i].n <= x1'
    BY <1>6, <1>11, <2>1
  <2>4. \A i \in DOMAIN x5'[g].batch : \A e \in Drivers : x8'[e] < x5'[g].batch[i].n
    BY <1>11, <2>1
  <2>5. \A i \in DOMAIN x5'[g].batch : \A j \in DOMAIN x2' : x5'[g].batch[i].n < x2'[j].n
    BY <1>6, <1>11, <2>1
  <2> QED BY <2>2, <2>3, <2>4, <2>5
<1> QED BY <1>6, <1>12, <1>13, <1>14, <1>15 DEF Live!OrderInv

\* Every step keeps the samples in order.
LEMMA OrderNext == FleetInv /\ [Live!Next]_(Live!vars) => Live!OrderInv'
<1> SUFFICES ASSUME FleetInv, [Live!Next]_(Live!vars) PROVE Live!OrderInv'
  OBVIOUS
<1>1. Live!ShapeInv /\ Live!OrderInv
  BY DEF FleetInv
<1>2. 0 \in 0..Len(x2)
  BY <1>1 DEF Live!ShapeInv
<1>3. CASE UNCHANGED <<x1, x2, x5, x8>>
  BY <1>1, <1>2, <1>3, OrderStays DEF Live!OnItem
<1>4. CASE Live!End
  BY <1>1, <1>2, <1>4, OrderStays DEF Live!End, Live!OnItem, Live!Idle, Live!shared
<1>5. ASSUME NEW f \in Flushes, Live!Judge(f) \/ Live!Flag(f) \/ Live!Record(f) PROVE Live!OrderInv'
  <2>1. \E at : Moves(f, at, x5[f].batch)
    BY <1>5, FlushGoes
  <2>2. Live!OnItem(f) /\ UNCHANGED <<x1, x2, x8>>
    BY <1>5 DEF Live!Judge, Live!Flag, Live!Record, Live!OnItem
  <2> QED BY <1>1, <1>2, <2>1, <2>2, OrderStays DEF Moves, Live!OnItem
<1>6. ASSUME NEW f \in Flushes, Turns(f) PROVE Live!OrderInv'
  <2>1. \A g \in Flushes : Live!OnItem(g)' => Live!OnItem(g) /\ x5'[g].batch = x5[g].batch
    <3>1. \/ x5' = x5
          \/ \E at \in {"off", "ending", "checking"} : \E batch : Moves(f, at, batch)
      BY <1>6, FlushGoes DEF Turns
    <3> QED BY <3>1 DEF Moves, Live!OnItem
  <2>2. UNCHANGED <<x1, x8>>
    BY <1>6 DEF Turns, Live!TimerFires, Live!Drained, Live!EndFlush, Live!Shutdown, Live!RedisFails, Live!shared
  <2>3. CASE x2' = x2
    BY <1>1, <1>2, <2>1, <2>2, <2>3, OrderStays
  <2>4. ASSUME NEW popped \in 0..(BatchSize - 1), Live!RedisFails(f, popped) PROVE Live!OrderInv'
    <3>1. popped \in 0..Len(x2)
      BY <1>1, <2>4, BatchAssumption DEF Live!RedisFails, Live!ShapeInv
    <3>2. x2' = SubSeq(x2, popped + 1, Len(x2))
      BY <2>4 DEF Live!RedisFails
    <3> QED BY <1>1, <2>1, <2>2, <3>1, <3>2, OrderStays
  <2> QED BY <1>6, <2>3, <2>4 DEF Turns, Live!TimerFires, Live!Drained, Live!EndFlush, Live!Shutdown
<1> QED
  BY <1>3, <1>4, <1>5, <1>6, FleetSteps, EnqueueOrders, PopOrders, HandledOrders
  DEF Handles, Live!vars, Live!ScheduleFlush, Live!StartServer, Live!shared

\* liveTelemetry.js: a place is never replaced by an older one.
LEMMA NewestIsKept == FleetInv /\ [Live!Next]_(Live!vars) => Live!NewestWins
<1> SUFFICES ASSUME FleetInv, [Live!Next]_(Live!vars), NEW d \in Drivers PROVE x8'[d] >= x8[d]
  BY DEF Live!NewestWins
<1>1. x8 \in [Drivers -> Nat]
  BY DEF FleetInv, Live!ShapeInv
<1>2. CASE x8' = x8
  BY <1>1, <1>2
<1>3. ASSUME NEW f \in Flushes, Live!Publish(f) PROVE x8'[d] >= x8[d]
  <2>1. Live!OnItem(f) /\ x8' = [x8 EXCEPT ![Live!Item(f).driver] = Live!Item(f).n]
    BY <1>3 DEF Live!Publish, Live!OnItem
  <2>2. 1 \in DOMAIN x5[f].batch /\ Live!Item(f) = x5[f].batch[1] /\ Live!Item(f).n \in Nat
    BY <2>1, InHand DEF FleetInv, Live!Reports
  <2>3. x8[d] < Live!Item(f).n
    BY <2>1, <2>2 DEF FleetInv, Live!OrderInv
  <2> QED BY <1>1, <2>1, <2>2, <2>3
<1> QED
  BY <1>2, <1>3, FleetSteps, Zenon
  DEF Handles, Turns, Live!vars, Live!ScheduleFlush, Live!StartServer, Live!End, Live!Enqueue, Live!TimerFires,
      Live!Drained, Live!EndFlush, Live!Shutdown, Live!RedisFails, Live!PopBatch, Live!Judge, Live!Flag, Live!Record,
      Live!ItemFails, Live!shared

\* A sample in hand names one driver, whose stay alone it is about.
LEMMA AlertNext == FleetInv /\ [Live!Next]_(Live!vars) => Live!AlertInv'
<1> SUFFICES ASSUME FleetInv, [Live!Next]_(Live!vars) PROVE Live!AlertInv'
  OBVIOUS
<1>1. Live!ShapeInv /\ Live!AlertInv /\ Live!DrawInv
  BY DEF FleetInv
<1>2. ASSUME UNCHANGED <<x7, x9, x10>>,
             \A f \in Flushes : x5'[f] = x5[f] \/ x5'[f].at \notin {"flag", "record"}
      PROVE  Live!AlertInv'
  BY <1>1, <1>2 DEF Live!AlertInv, Live!Item
<1>3. CASE UNCHANGED <<x5, x7, x9, x10>>
  BY <1>2, <1>3
<1>4. CASE Live!End
  BY <1>2, <1>4 DEF Live!End, Live!Idle, Live!shared
<1>5. ASSUME NEW f \in Flushes, Turns(f) \/ Live!PopBatch(f) \/ Live!Publish(f) \/ Live!ItemFails(f)
      PROVE  Live!AlertInv'
  <2>1. UNCHANGED <<x7, x9, x10>>
    BY <1>5 DEF Turns, Live!TimerFires, Live!Drained, Live!EndFlush, Live!Shutdown, Live!RedisFails, Live!PopBatch,
                Live!Publish, Live!ItemFails, Live!shared
  <2>2. \/ x5' = x5
        \/ \E at \in {"off", "ending", "checking", "judge"} : \E batch : Moves(f, at, batch)
    BY <1>5, FlushGoes DEF Turns
  <2> QED BY <1>2, <2>1, <2>2 DEF Moves
<1>6. ASSUME NEW f \in Flushes, Live!Judge(f) \/ Live!Flag(f) \/ Live!Record(f) PROVE Live!AlertInv'
  <2> DEFINE d == Live!Item(f).driver
             kind == Live!Item(f).kind
  <2>1. Live!OnItem(f) /\ Live!Draws(f)
    BY <1>6 DEF Live!Judge, Live!Flag, Live!Record, Live!OnItem, Live!Draws
  <2>2. d \in Drivers /\ kind \in Live!Kinds
    BY <1>1, <2>1, InHand DEF Live!Reports
  <2>3. PICK at \in {"flag", "record", "publish"} :
            /\ Moves(f, at, x5[f].batch)
            /\ at = "flag" => Live!Judge(f) /\ x7[d] # kind
            /\ at = "record" => Live!Flag(f)
            /\ Live!Judge(f) /\ at = "publish" => x7[d] = kind
    BY <1>6, FlushGoes DEF Live!Judge, Live!Flag, Live!Record
  <2>4. Live!Item(f)' = Live!Item(f) /\ x5'[f].at = at
    BY <2>3 DEF Moves, Live!Item
  <2>5. \A g \in Flushes : x5'[g].at \in {"flag", "record"} => g = f
    BY <1>1, <2>1, <2>3 DEF Moves, Live!DrawInv, Live!Draws
  <2>6. /\ x7 \in [Drivers -> Live!Kinds] /\ x9 \in [Drivers -> Live!Kinds] /\ x10 \in [Drivers -> Nat]
        /\ \A e \in Drivers : x10[e] <= 1 /\ (x10[e] > 0 => x7[e] = x9[e])
        /\ x5[f].at \in {"flag", "record"} => x9[d] = kind /\ x10[d] = 0
        /\ x5[f].at = "record" => x7[d] = kind
    BY <1>1 DEF Live!ShapeInv, Live!AlertInv
  <2> HIDE DEF d, kind
  <2>7. \A e \in Drivers \ {d} : x7'[e] = x7[e] /\ x9'[e] = x9[e] /\ x10'[e] = x10[e]
    BY <1>6, <2>6 DEF Live!Judge, Live!Flag, Live!Record, d
  <2>8. /\ x10'[d] <= 1 /\ (x10'[d] > 0 => x7'[d] = x9'[d])
        /\ at \in {"flag", "record"} => x9'[d] = kind /\ x10'[d] = 0
        /\ at = "record" => x7'[d] = kind
    <3>1. CASE Live!Judge(f)
      <4>1. /\ x7' = x7 /\ x9' = [x9 EXCEPT ![d] = kind]
            /\ x10' = [x10 EXCEPT ![d] = IF x9[d] = kind THEN @ ELSE 0] /\ x5[f].at = "judge"
        BY <3>1 DEF Live!Judge, d, kind
      <4> QED BY <2>2, <2>3, <2>6, <3>1, <4>1 DEF Live!Flag
    <3>2. CASE Live!Flag(f)
      <4>1. x7' = [x7 EXCEPT ![d] = kind] /\ UNCHANGED <<x9, x10>> /\ x5[f].at = "flag"
        BY <3>2 DEF Live!Flag, d, kind
      <4> QED BY <2>2, <2>6, <4>1
    <3>3. CASE Live!Record(f)
      <4>1. x10' = [x10 EXCEPT ![d] = @ + 1] /\ UNCHANGED <<x7, x9>> /\ x5[f].at = "record"
        BY <3>3 DEF Live!Record, d
      <4>2. at = "publish"
        BY <2>3, <4>1 DEF Live!Judge, Live!Flag
      <4> QED BY <2>2, <2>6, <4>1, <4>2
    <3> QED BY <1>6, <3>1, <3>2, <3>3
  <2>9. \A e \in Drivers : x10'[e] <= 1 /\ (x10'[e] > 0 => x7'[e] = x9'[e])
    BY <2>6, <2>7, <2>8
  <2> QED BY <2>4, <2>5, <2>8, <2>9 DEF Live!AlertInv, d, kind
<1> QED
  BY <1>3, <1>4, <1>5, <1>6, FleetSteps
  DEF Handles, Live!vars, Live!ScheduleFlush, Live!StartServer, Live!Enqueue, Live!shared

\* Whoever could see to the queue does, or something shook the router.
LEMMA WakeNext == FleetInv /\ [Live!Next]_(Live!vars) => Live!WakeInv'
<1> SUFFICES ASSUME FleetInv, [Live!Next]_(Live!vars) PROVE Live!WakeInv'
  OBVIOUS
<1> USE DEF Live!WakeInv, Live!NoSampleStranded
<1>1. Live!WakeInv /\ x3 \in Nat /\ Live!ShapeInv
  BY DEF FleetInv, Live!ShapeInv
<1>2. CASE UNCHANGED Live!vars
  BY <1>1, <1>2 DEF Live!vars, Live!Running
<1>3. CASE Live!ScheduleFlush \/ Live!End \/ Live!StartServer
  BY <1>1, <1>3 DEF Live!ScheduleFlush, Live!End, Live!StartServer, Live!Running
<1>4. ASSUME NEW d \in Drivers, NEW kind \in Live!Kinds, Live!Enqueue(d, kind) PROVE Live!WakeInv'
  BY <1>1, <1>4 DEF Live!Enqueue
<1>5. ASSUME NEW f \in Flushes, Handles(f) \/ Live!TimerFires(f) \/ Live!PopBatch(f) PROVE Live!WakeInv'
  <2>1. x5'[f].at # "off"
    BY <1>5, FlushGoes DEF Handles, Moves
  <2>2. Live!Running' # {}
    BY <2>1 DEF Live!Running
  <2>3. UNCHANGED <<x6, x12>>
    BY <1>5 DEF Handles, Live!Judge, Live!Flag, Live!Record, Live!Publish, Live!ItemFails, Live!TimerFires, Live!PopBatch
  <2> QED BY <1>1, <2>2, <2>3
<1>6. ASSUME NEW f \in Flushes,
             \/ Live!Drained(f) \/ Live!EndFlush(f) \/ Live!Shutdown(f)
             \/ \E popped \in 0..(BatchSize - 1) : Live!RedisFails(f, popped)
      PROVE  Live!WakeInv'
  BY <1>1, <1>6 DEF Live!Drained, Live!EndFlush, Live!More, Live!Shutdown, Live!RedisFails
<1> QED BY <1>2, <1>3, <1>4, <1>5, <1>6, FleetSteps DEF Turns

\* Every step keeps the invariant.
LEMMA FleetNext == FleetInv /\ [Live!Next]_(Live!vars) => FleetInv'
BY ShapeNext, DrawNext, OrderNext, AlertNext, WakeNext DEF FleetInv

-----------------------------------------------------------------------------
(* Compliance: the papers of a driver and a truck:
   x1 paper, x2 truck, x3 deleting, x4 uploads, x5 analyses, x6 row. *)

\* Every slot has its row, and an analysis is of the file it is shown with.
PapersInv == C!PaperRows /\ C!AnalysisFitsFile

\* It holds at first.
LEMMA PapersInit == C!Init => PapersInv
<1> SUFFICES ASSUME C!Init PROVE PapersInv
  OBVIOUS
<1>1. PICK old \in SUBSET Drivers :
          x1 = [s \in C!Slots |-> IF s[1] \in old THEN [C!NoRow EXCEPT !.status = "approved", !.by = s[1]]
                                  ELSE C!NoRow]
  BY Zenon DEF C!Init
<1>2. \A s \in C!Slots : x1[s] = C!NoRow \/ x1[s] = [C!NoRow EXCEPT !.status = "approved", !.by = s[1]]
  BY <1>1, Zenon
<1> QED BY <1>1, <1>2, Zenon DEF PapersInv, C!PaperRows, C!AnalysisFitsFile, C!NoRow

\* Every step keeps it.
LEMMA PapersNext == PapersInv /\ [C!Next]_(C!vars) => PapersInv'
<1> SUFFICES ASSUME PapersInv, [C!Next]_(C!vars) PROVE PapersInv'
  OBVIOUS
<1> USE DEF PapersInv, C!PaperRows, C!AnalysisFitsFile
<1> DEFINE Fits(r) == DOMAIN r = DOMAIN C!NoRow /\ r.analysis \in {0, r.file}
<1>1. SUFFICES DOMAIN x1' = C!Slots /\ \A s \in C!Slots : Fits(x1'[s])
  OBVIOUS
<1>2. DOMAIN x1 = C!Slots /\ \A s \in C!Slots : Fits(x1[s])
  OBVIOUS
<1>3. Fits(C!NoRow)
  BY DEF C!NoRow
<1>4. CASE x1' = x1
  BY <1>2, <1>4
<1>5. ASSUME NEW s, NEW r, x1' = [x1 EXCEPT ![s] = r], s \in C!Slots => Fits(r)
      PROVE  DOMAIN x1' = C!Slots /\ \A t \in C!Slots : Fits(x1'[t])
  <2> HIDE DEF Fits
  <2> QED BY <1>2, <1>5
<1>6. ASSUME NEW c \in Handlers, C!StoreUpload(c)
      PROVE  DOMAIN x1' = C!Slots /\ \A t \in C!Slots : Fits(x1'[t])
  <2>1. \A n, photo, by : Fits([C!NoRow EXCEPT !.status = "pending", !.file = n, !.photo = photo, !.by = by])
    BY DEF C!NoRow
  <2> HIDE DEF Fits
  <2> QED BY <1>5, <1>6, <2>1, Zenon DEF C!StoreUpload
<1>7. ASSUME NEW s \in C!Slots, NEW n, C!AnalysisLands(s, n)
      PROVE  DOMAIN x1' = C!Slots /\ \A t \in C!Slots : Fits(x1'[t])
  <2>1. CASE x1[s].file = n
    <3>1. x1' = [x1 EXCEPT ![s] = [x1[s] EXCEPT !.analysis = n]]
      BY <1>7, <2>1 DEF C!AnalysisLands, C!StillThere
    <3>2. Fits([x1[s] EXCEPT !.analysis = n])
      BY <1>2, <2>1 DEF C!NoRow
    <3> HIDE DEF Fits
    <3> QED BY <1>5, <3>1, <3>2
  <2>2. CASE x1[s].file # n
    BY <1>4, <1>7, <2>2 DEF C!AnalysisLands, C!StillThere
  <2> QED BY <2>1, <2>2
<1>8. CASE C!Restart
  <2>1. PICK done : x1' = [s \in C!Slots |-> IF <<s, x1[s].file>> \in done
                                             THEN [x1[s] EXCEPT !.analysis = x1[s].file] ELSE x1[s]]
    BY <1>8 DEF C!Restart
  <2>2. \A s \in C!Slots : Fits([x1[s] EXCEPT !.analysis = x1[s].file])
    BY <1>2 DEF C!NoRow
  <2> HIDE DEF Fits
  <2> QED BY <1>2, <2>1, <2>2
<1>9. ASSUME NEW verdict, C!Decide(verdict)
      PROVE  DOMAIN x1' = C!Slots /\ \A t \in C!Slots : Fits(x1'[t])
  <2>1. CASE x1' = x1
    BY <1>4, <2>1
  <2>2. CASE x1' = [x1 EXCEPT ![x6.slot] = [x1[x6.slot] EXCEPT !.status = verdict, !.lapsed = FALSE]]
    <3>1. \A s \in C!Slots : Fits([x1[s] EXCEPT !.status = verdict, !.lapsed = FALSE])
      BY <1>2 DEF C!NoRow
    <3> HIDE DEF Fits
    <3> QED BY <1>5, <2>2, <3>1, Zenon
  <2>3. x1' = x1 \/ x1' = [x1 EXCEPT ![x6.slot].status = verdict, ![x6.slot].lapsed = FALSE]
    BY <1>9 DEF C!Decide
  <2>4. [x1 EXCEPT ![x6.slot].status = verdict, ![x6.slot].lapsed = FALSE]
        = [x1 EXCEPT ![x6.slot] = [x1[x6.slot] EXCEPT !.status = verdict, !.lapsed = FALSE]]
    OBVIOUS
  <2> QED BY <2>1, <2>2, <2>3, <2>4
<1>10. ASSUME NEW s \in C!Slots, C!Lapse(s)
       PROVE  DOMAIN x1' = C!Slots /\ \A t \in C!Slots : Fits(x1'[t])
  <2>1. x1' = [x1 EXCEPT ![s] = [x1[s] EXCEPT !.lapsed = TRUE]]
    BY <1>10 DEF C!Lapse
  <2>2. Fits([x1[s] EXCEPT !.lapsed = TRUE])
    BY <1>2 DEF C!NoRow
  <2> HIDE DEF Fits
  <2> QED BY <1>5, <2>1, <2>2
<1>11. ASSUME NEW v \in Vehicles, C!DeleteVehicle(v)
       PROVE  DOMAIN x1' = C!Slots /\ \A t \in C!Slots : Fits(x1'[t])
  <2>1. x1' = [s \in C!Slots |-> IF s[1] = v THEN C!NoRow ELSE x1[s]]
    BY <1>11 DEF C!DeleteVehicle
  <2> HIDE DEF Fits
  <2> QED BY <1>2, <1>3, <2>1
<1> HIDE DEF Fits
<1> QED
  BY <1>4, <1>6, <1>7, <1>8, <1>9, <1>10, <1>11
  DEF C!Next, C!vars, C!StartUpload, C!UploadFails, C!OpenRow, C!Cancel, C!AssignVehicle, C!CheckDelete

\* An instance counts as FiniteSets does.
LEMMA SameCount == \A S : C!Cardinality(S) = Cardinality(S)
BY DEF Cardinality, C!Cardinality

\* What a count of one holder's good papers says.
LEMMA AllCounted ==
    ASSUME NEW h, NEW K, IsFiniteSet(K), NEW G, G \subseteq {h} \X K
    PROVE  Cardinality(G) = Cardinality(K) <=> G = {h} \X K
<1>1. IsFiniteSet({h}) /\ Cardinality({h}) = 1
  BY FS_Singleton
<1>2. IsFiniteSet({h} \X K) /\ Cardinality({h} \X K) = Cardinality({h}) * Cardinality(K)
  BY <1>1, FS_Product
<1>3. Cardinality(K) \in Nat
  BY FS_CardinalityType
<1>4. Cardinality({h} \X K) = Cardinality(K)
  BY <1>1, <1>2, <1>3
<1>5. Cardinality(G) = Cardinality({h} \X K) => G = {h} \X K
  BY <1>2, FS_Subset
<1> QED BY <1>4, <1>5

\* driverVerificationService.js:5, whatever the rows say.
LEMMA CountsAreRight == C!VerifiedByItsPapers
<1> SUFFICES ASSUME NEW d \in Drivers, Cardinality(C!TrucksOf(d)) <= 1
             PROVE  /\ C!IsDriverVerified(d) <=> C!TrucksOf(d) # {} /\ \A s \in C!Papers(d) : C!Good(s)
                    /\ C!IsDriverVerified(d) <=> C!Checklist(d)
  BY SameCount DEF C!VerifiedByItsPapers
<1> DEFINE trucks == C!TrucksOf(d)
<1>1. trucks = {} \/ \E v : trucks = {v}
  <2>1. IsFiniteSet(trucks)
    <3>1. trucks \subseteq Vehicles
      BY DEF C!TrucksOf
    <3> QED BY <3>1, PapersAssumption, FS_Subset
  <2>2. Cardinality(trucks) = 0 \/ Cardinality(trucks) = 1
    <3>1. Cardinality(trucks) \in Nat
      BY <2>1, FS_CardinalityType
    <3> QED BY <3>1
  <2>3. CASE Cardinality(trucks) = 0
    BY <2>1, <2>3, FS_EmptySet
  <2>4. CASE Cardinality(trucks) = 1
    BY <2>1, <2>4, FS_Singleton
  <2> QED BY <2>2, <2>3, <2>4
<1>2. Cardinality(C!DriverOk(d)) = Cardinality(DriverTypes) <=> \A k \in DriverTypes : C!Good(<<d, k>>)
  <2>1. C!DriverOk(d) \subseteq {d} \X DriverTypes
    BY DEF C!DriverOk
  <2>2. C!DriverOk(d) = {d} \X DriverTypes <=> \A k \in DriverTypes : C!Good(<<d, k>>)
    BY DEF C!DriverOk
  <2> QED BY <2>1, <2>2, AllCounted, PapersAssumption
<1>3. PICK k0 : k0 \in VehicleTypes
  BY PapersAssumption
<1>4. CASE trucks = {}
  <2>1. C!VehicleOk(d) = {}
    BY <1>4 DEF C!VehicleOk
  <2>2. Cardinality(C!VehicleOk(d)) # Cardinality(VehicleTypes)
    BY <1>3, <2>1, FS_EmptySet, PapersAssumption
  <2>3. ~C!Checklist(d)
    BY <1>3, <1>4, PapersAssumption DEF C!Checklist, C!ChecklistRows, C!Required
  <2> QED BY <1>4, <2>2, <2>3, SameCount DEF C!IsDriverVerified
<1>5. ASSUME NEW v, trucks = {v}
      PROVE  /\ C!IsDriverVerified(d) <=> trucks # {} /\ \A s \in C!Papers(d) : C!Good(s)
             /\ C!IsDriverVerified(d) <=> C!Checklist(d)
  <2>1. Cardinality(C!VehicleOk(d)) = Cardinality(VehicleTypes) <=> \A k \in VehicleTypes : C!Good(<<v, k>>)
    <3>1. C!VehicleOk(d) \subseteq {v} \X VehicleTypes
      BY <1>5 DEF C!VehicleOk
    <3>2. C!VehicleOk(d) = {v} \X VehicleTypes <=> \A k \in VehicleTypes : C!Good(<<v, k>>)
      BY <1>5 DEF C!VehicleOk
    <3> QED BY <3>1, <3>2, AllCounted, PapersAssumption
  <2>2. C!IsDriverVerified(d) <=> /\ \A k \in DriverTypes : C!Good(<<d, k>>)
                                  /\ \A k \in VehicleTypes : C!Good(<<v, k>>)
    BY <1>2, <2>1, SameCount DEF C!IsDriverVerified
  <2>3. (\A s \in C!Papers(d) : C!Good(s)) <=> /\ \A k \in DriverTypes : C!Good(<<d, k>>)
                                               /\ \A k \in VehicleTypes : C!Good(<<v, k>>)
    BY <1>5 DEF C!Papers
  <2>4. C!Checklist(d) <=> /\ \A k \in DriverTypes : C!Good(<<d, k>>)
                           /\ \A k \in VehicleTypes : C!Good(<<v, k>>)
    <3>1. \A k \in DriverTypes : k \notin VehicleTypes
      BY PapersAssumption
    <3>2. \A s \in C!ChecklistRows(d) : \/ s = <<d, s[2]>> /\ s[2] \in DriverTypes
                                        \/ s = <<v, s[2]>> /\ s[2] \in VehicleTypes
      BY <1>5 DEF C!ChecklistRows
    <3>3. /\ \A k \in DriverTypes : <<d, k>> \in C!ChecklistRows(d)
          /\ \A k \in VehicleTypes : <<v, k>> \in C!ChecklistRows(d)
      BY <1>5 DEF C!ChecklistRows
    <3>4. ASSUME C!Checklist(d), NEW k \in C!Required
          PROVE  \/ k \in DriverTypes /\ C!Good(<<d, k>>)
                 \/ k \in VehicleTypes /\ C!Good(<<v, k>>)
      <4>1. PICK s \in C!ChecklistRows(d) : s[2] = k /\ C!Good(s)
        BY <3>4 DEF C!Checklist
      <4> QED BY <3>2, <4>1
    <3>5. C!Checklist(d) => /\ \A k \in DriverTypes : C!Good(<<d, k>>)
                            /\ \A k \in VehicleTypes : C!Good(<<v, k>>)
      BY <3>1, <3>4 DEF C!Required
    <3>6. ASSUME \A k \in DriverTypes : C!Good(<<d, k>>), \A k \in VehicleTypes : C!Good(<<v, k>>)
          PROVE  C!Checklist(d)
      <4>1. \A k \in DriverTypes : <<d, k>>[2] = k
        OBVIOUS
      <4>2. \A k \in VehicleTypes : <<v, k>>[2] = k
        OBVIOUS
      <4> QED BY <3>3, <3>6, <4>1, <4>2 DEF C!Checklist, C!Required
    <3> QED BY <3>5, <3>6
  <2> QED BY <1>5, <2>2, <2>3, <2>4
<1> QED BY <1>1, <1>4, <1>5

\* The inductive invariant of the papers.
CallsInv == PapersInv /\ C!CallInv

\* It holds at first.
LEMMA CallsInit == C!Init => CallsInv
<1>1. C!Init => C!CallInv
  BY Zenon DEF C!Init, C!CallInv
<1> QED BY <1>1, PapersInit DEF CallsInv

\* Every step keeps it.
LEMMA CallsNext == CallsInv /\ [C!Next]_(C!vars) => CallsInv'
<1> SUFFICES ASSUME CallsInv, [C!Next]_(C!vars) PROVE C!CallInv'
  BY PapersNext DEF CallsInv
<1>1. C!CallInv
  BY DEF CallsInv
<1>2. CASE x4' = x4
  BY <1>1, <1>2 DEF C!CallInv
<1>3. ASSUME NEW c \in Handlers, NEW call, x4' = [x4 EXCEPT ![c] = call], call # C!NoCall => call.saw \in {"none", "rejected"}
      PROVE  C!CallInv'
  BY <1>1, <1>3 DEF C!CallInv
<1>4. ASSUME NEW c \in Handlers, NEW d, NEW k, NEW ph, C!StartUpload(c, d, k, ph)
      PROVE  C!CallInv'
  <2>1. PICK s \in C!Target(d, k) :
            /\ C!MayUpload(s) /\ ~C!SamePhoto(s, ph)
            /\ x4' = [x4 EXCEPT ![c] =
                   [at |-> "storing", slot |-> s, by |-> d, photo |-> ph, saw |-> x1[s].status]]
    BY <1>4, Zenon DEF C!StartUpload
  <2> DEFINE call == [at |-> "storing", slot |-> s, by |-> d, photo |-> ph, saw |-> x1[s].status]
  <2>2. call.saw \in {"none", "rejected"} /\ x4' = [x4 EXCEPT ![c] = call]
    BY <2>1 DEF C!MayUpload
  <2> HIDE DEF call
  <2> QED BY <1>3, <2>2
<1>5. ASSUME NEW c \in Handlers, C!StoreUpload(c) \/ C!UploadFails(c)
      PROVE  C!CallInv'
  BY <1>3, <1>5 DEF C!StoreUpload, C!UploadFails
<1>6. CASE C!Restart
  BY <1>6 DEF C!Restart, C!CallInv
<1> QED
  BY <1>2, <1>4, <1>5, <1>6
  DEF C!Next, C!vars, C!OpenRow, C!Cancel, C!AssignVehicle, C!CheckDelete, C!AnalysisLands, C!Decide, C!Lapse, C!DeleteVehicle

\* driverDocumentController.js:215.
LEMMA ReopenedOnlyFromOpen == CallsInv /\ [C!Next]_(C!vars) => C!ReopenedByRejection
<1> SUFFICES ASSUME CallsInv, [C!Next]_(C!vars), NEW s \in C!Slots, x1[s].status = "approved", x1'[s].status = "pending"
             PROVE  \E c \in Handlers : /\ x4[c] # C!NoCall /\ x4'[c] = C!NoCall /\ x4[c].slot = s
                                     /\ x4[c].saw \in {"none", "rejected"}
  BY DEF C!ReopenedByRejection
<1>1. /\ DOMAIN x1 = C!Slots
      /\ \A t \in C!Slots : DOMAIN x1[t] = DOMAIN C!NoRow
      /\ C!CallInv
  BY DEF CallsInv, PapersInv, C!PaperRows
<1>2. \A t \in C!Slots : "status" \in DOMAIN x1[t]
  BY <1>1 DEF C!NoRow
<1>3. x1' # x1
  OBVIOUS
<1>4. ASSUME NEW t, NEW r, x1' = [x1 EXCEPT ![t] = r], r.status = x1[t].status \/ r.status # "pending"
      PROVE  FALSE
  <2>1. CASE t = s
    BY <1>1, <1>4, <2>1
  <2>2. CASE t # s
    BY <1>1, <1>4, <2>2
  <2> QED BY <2>1, <2>2
<1>5. ASSUME NEW c \in Handlers, C!StoreUpload(c)
      PROVE  /\ x4[c] # C!NoCall /\ x4'[c] = C!NoCall /\ x4[c].slot = s
             /\ x4[c].saw \in {"none", "rejected"}
  <2>1. x4[c] # C!NoCall /\ x4' = [x4 EXCEPT ![c] = C!NoCall]
    BY <1>5 DEF C!StoreUpload
  <2>2. PICK r : x1' = [x1 EXCEPT ![x4[c].slot] = r]
    BY <1>5 DEF C!StoreUpload
  <2>3. x4[c].slot = s
    BY <1>1, <2>2
  <2> QED BY <1>1, <2>1, <2>3 DEF C!CallInv
<1>6. ASSUME NEW t \in C!Slots, NEW n, C!AnalysisLands(t, n)
      PROVE  FALSE
  <2>1. x1' = [x1 EXCEPT ![t] = [x1[t] EXCEPT !.analysis = n]]
    BY <1>3, <1>6 DEF C!AnalysisLands
  <2>2. [x1[t] EXCEPT !.analysis = n].status = x1[t].status
    BY <1>2
  <2> QED BY <1>4, <2>1, <2>2
<1>7. ASSUME C!Restart
      PROVE  FALSE
  <2>1. PICK done : x1' = [t \in C!Slots |-> IF <<t, x1[t].file>> \in done
                                             THEN [x1[t] EXCEPT !.analysis = x1[t].file] ELSE x1[t]]
    BY <1>7 DEF C!Restart
  <2>2. [x1[s] EXCEPT !.analysis = x1[s].file].status = x1[s].status
    BY <1>2
  <2>3. x1'[s].status = x1[s].status
    BY <2>1, <2>2
  <2> QED BY <2>3
<1>8. ASSUME NEW verdict \in {"approved", "rejected"}, C!Decide(verdict)
      PROVE  FALSE
  <2>1. x1' = [x1 EXCEPT ![x6.slot].status = verdict, ![x6.slot].lapsed = FALSE]
    BY <1>3, <1>8 DEF C!Decide
  <2>2. x1' = [x1 EXCEPT ![x6.slot] = [x1[x6.slot] EXCEPT !.status = verdict, !.lapsed = FALSE]]
    BY <2>1
  <2>3. CASE x6.slot \in C!Slots
    <3>1. [x1[x6.slot] EXCEPT !.status = verdict, !.lapsed = FALSE].status = verdict
      BY <1>2, <2>3
    <3> QED BY <1>4, <2>2, <3>1
  <2>4. CASE x6.slot \notin C!Slots
    BY <1>1, <2>2, <2>4
  <2> QED BY <2>3, <2>4
<1>9. ASSUME NEW t \in C!Slots, C!Lapse(t)
      PROVE  FALSE
  <2>1. x1' = [x1 EXCEPT ![t] = [x1[t] EXCEPT !.lapsed = TRUE]]
    BY <1>9 DEF C!Lapse
  <2>2. [x1[t] EXCEPT !.lapsed = TRUE].status = x1[t].status
    BY <1>2
  <2> QED BY <1>4, <2>1, <2>2
<1>10. ASSUME NEW v, C!DeleteVehicle(v)
       PROVE  FALSE
  <2>1. x1'[s] = C!NoRow \/ x1'[s] = x1[s]
    BY <1>10 DEF C!DeleteVehicle
  <2> QED BY <2>1 DEF C!NoRow
<1> QED
  BY <1>3, <1>5, <1>6, <1>7, <1>8, <1>9, <1>10
  DEF C!Next, C!vars, C!StartUpload, C!UploadFails, C!OpenRow, C!Cancel, C!AssignVehicle, C!CheckDelete

-----------------------------------------------------------------------------
(* Releases: from a commit to a router that serves:
   x1 origin, x2 laptops, x3 host, x4 image, x5 router, x6 db, x7 hubs, x8 down, x9 runs. *)

\* Every commit's list is among the migrations.
LEMMA ListsGrow ==
    /\ Rel!AllMigrations \subseteq Nat
    /\ \A c \in Commits : 1..List[c] \subseteq Rel!AllMigrations
BY CommitsAssumption DEF Rel!AllMigrations

\* One sequence after another.
LEMMA Joined ==
    ASSUME NEW S, NEW a \in Seq(S), NEW b \in Seq(S)
    PROVE  /\ a \o b \in Seq(S) /\ Len(a \o b) = Len(a) + Len(b)
           /\ \A i \in 1..Len(a) : (a \o b)[i] = a[i]
           /\ \A i \in 1..Len(b) : (a \o b)[i + Len(a)] = b[i]
<1>1. a \o b \in Seq(S)
  OBVIOUS
<1>2. Len(a \o b) = Len(a) + Len(b)
  OBVIOUS
<1>3. \A i \in 1..Len(a) : (a \o b)[i] = a[i]
  OBVIOUS
<1>4. \A i \in 1..Len(b) : (a \o b)[i + Len(a)] = b[i]
  OBVIOUS
<1> QED BY <1>1, <1>2, <1>3, <1>4

\* What follows the first elements of a sequence.
LEMMA Following ==
    ASSUME NEW S, NEW s \in Seq(S), NEW k \in 1..Len(s)
    PROVE  LET b == SubSeq(s, k + 1, Len(s)) IN b \in Seq(S) /\ Len(b) = Len(s) - k /\ \A i \in 1..Len(b) : b[i] = s[i + k]
<1> DEFINE b == SubSeq(s, k + 1, Len(s))
<1>1. b \in Seq(S)
  OBVIOUS
<1>2. Len(b) = Len(s) - k
  <2>1. CASE k = Len(s)
    BY <2>1
  <2>2. CASE k < Len(s)
    BY <2>2
  <2> QED BY <2>1, <2>2
<1>3. \A i \in 1..Len(b) : b[i] = s[i + k]
  BY <1>2
<1> QED BY <1>1, <1>2, <1>3

\* What is left of the ledger without one migration's row.
LEMMA RowDeleted ==
    ASSUME NEW S, NEW s \in Seq(S), NEW m, \A i, j \in DOMAIN s : s[i] = s[j] => i = j
    PROVE  LET t == Rel!Without(s, m) IN
           /\ t \in Seq(S)
           /\ \A i, j \in DOMAIN t : t[i] = t[j] => i = j
           /\ \A i \in DOMAIN t : t[i] # m /\ \E j \in DOMAIN s : t[i] = s[j]
<1>1. CASE m \notin Rel!Range(s)
  BY <1>1 DEF Rel!Without, Rel!Range
<1>2. CASE m \in Rel!Range(s)
  <2> DEFINE k == CHOOSE i \in DOMAIN s : s[i] = m
             n == Len(s)
  <2>1. k \in DOMAIN s /\ s[k] = m
    BY <1>2 DEF Rel!Range
  <2>2. n \in Nat /\ DOMAIN s = 1..n
    OBVIOUS
  <2>3. Rel!Without(s, m) = SubSeq(s, 1, k - 1) \o SubSeq(s, k + 1, n)
    BY <1>2 DEF Rel!Without
  <2> HIDE DEF k
  <2> DEFINE a == SubSeq(s, 1, k - 1)
             b == SubSeq(s, k + 1, n)
             t == a \o b
  <2>4. k \in 1..n
    BY <2>1, <2>2
  <2>5. a \in Seq(S) /\ Len(a) = k - 1 /\ \A i \in 1..(k - 1) : a[i] = s[i]
    BY <2>2, <2>4
  <2>6. b \in Seq(S) /\ Len(b) = n - k /\ \A i \in 1..(n - k) : b[i] = s[i + k]
    <3>1. k \in 1..Len(s)
      BY <2>4
    <3>2. b \in Seq(S) /\ Len(b) = Len(s) - k /\ \A i \in 1..Len(b) : b[i] = s[i + k]
      BY <3>1, Following
    <3> QED BY <3>2
  <2> HIDE DEF a, b
  <2>7. t \in Seq(S) /\ Len(t) = n - 1 /\ DOMAIN t = 1..(n - 1)
    <3>1. t \in Seq(S)
      BY <2>5, <2>6
    <3>2. Len(t) = Len(a) + Len(b)
      BY <2>5, <2>6, Joined
    <3>3. Len(t) = n - 1 /\ n - 1 \in Nat
      BY <3>2, <2>2, <2>4, <2>5, <2>6
    <3> QED BY <3>1, <3>3
  <2>8. \A i \in 1..(n - 1) : t[i] = IF i < k THEN s[i] ELSE s[i + 1]
    <3> SUFFICES ASSUME NEW i \in 1..(n - 1) PROVE t[i] = IF i < k THEN s[i] ELSE s[i + 1]
      OBVIOUS
    <3>1. CASE i < k
      <4>1. i \in 1..Len(a)
        BY <3>1, <2>2, <2>4, <2>5
      <4>2. t[i] = a[i]
        BY <4>1, <2>5, <2>6, Joined
      <4> QED BY <4>1, <4>2, <3>1, <2>5
    <3>2. CASE ~(i < k)
      <4>1. PICK j \in 1..Len(b) : j + Len(a) = i /\ j + k = i + 1
        <5>1. i - (k - 1) \in 1..(n - k) /\ (i - (k - 1)) + (k - 1) = i /\ (i - (k - 1)) + k = i + 1
          BY <3>2, <2>2, <2>4
        <5> QED BY <5>1, <2>5, <2>6
      <4>2. t[i] = b[j]
        BY <4>1, <2>5, <2>6, Joined
      <4> QED BY <4>1, <4>2, <3>2, <2>6
    <3> QED BY <3>1, <3>2
  <2> HIDE DEF t
  <2> DEFINE from(i) == IF i < k THEN i ELSE i + 1
  <2>9. \A i \in DOMAIN t : from(i) \in DOMAIN s /\ from(i) # k /\ t[i] = s[from(i)]
    BY <2>2, <2>4, <2>7, <2>8
  <2>10. \A i, j \in DOMAIN t : from(i) = from(j) => i = j
    BY <2>2, <2>4, <2>7
  <2> HIDE DEF from
  <2>11. \A i, j \in DOMAIN t : t[i] = t[j] => i = j
    BY <2>9, <2>10
  <2>12. \A i \in DOMAIN t : t[i] # m /\ \E j \in DOMAIN s : t[i] = s[j]
    BY <2>1, <2>9
  <2> QED BY <2>3, <2>7, <2>11, <2>12 DEF t, a, b
<1> QED BY <1>1, <1>2

\* The inductive invariant of a release.
ReleaseInv == Rel!TypeOK /\ Rel!SchemaInv

\* It holds at first.
LEMMA ReleasesInit == Rel!Init => ReleaseInv
<1> SUFFICES ASSUME Rel!Init PROVE ReleaseInv
  OBVIOUS
<1>1. 1 \in Commits /\ List[1] \in Nat
  BY CommitsAssumption
<1>2. 1..List[1] \subseteq Rel!AllMigrations
  BY <1>1, ListsGrow
<1> DEFINE ledger == [m \in 1..List[1] |-> m]
<1>3. ledger \in Seq(Rel!AllMigrations) /\ DOMAIN ledger = 1..List[1]
  BY <1>1, <1>2
<1>4. Rel!Range(ledger) \subseteq 1..List[1] /\ \A i, j \in DOMAIN ledger : ledger[i] = ledger[j] => i = j
  BY <1>3 DEF Rel!Range
<1> HIDE DEF ledger
<1>5. /\ x1 = 1 /\ x2 = [l \in Laptops |-> Rel!Idle] /\ x3 = [files |-> 1, edge |-> Edge[1], release |-> 1]
      /\ x4 = [code |-> 1, stamp |-> 1]
      /\ x5 = [code |-> 1, stamp |-> 1, at |-> "serving", known |-> 1..List[1]]
      /\ x6 = [schema |-> 1..List[1], ledger |-> ledger] /\ x7 = {"seed"}
      /\ x8 = [read |-> 0, ran |-> 0, undone |-> {}] /\ x9 = 0
  BY DEF Rel!Init, Rel!Boot, Rel!None, ledger
<1>6. Rel!SchemaInv
  BY <1>4, <1>5 DEF Rel!SchemaInv
<1>7. x2 \in [Laptops -> Rel!Scripts]
  BY <1>5 DEF Rel!Scripts, Rel!Idle
<1>8. x6 \in [schema : SUBSET Rel!AllMigrations, ledger : Seq(Rel!AllMigrations)]
  BY <1>2, <1>3, <1>5
<1>9. x3 \in [files : Commits, edge : {Edge[c] : c \in Commits}, release : Commits \union {Rel!None}]
  BY <1>1, <1>5
<1>10. x5 \in [code : Commits, stamp : Commits, known : SUBSET Rel!AllMigrations,
               at : {"booting", "migrating", "seeding", "serving", "exited"}]
  BY <1>1, <1>2, <1>5
<1>11. x8 \in [read : Rel!AllMigrations \union {Rel!None}, ran : 0..MaxDowns, undone : SUBSET Rel!AllMigrations]
  BY <1>5, BoundsAssumption DEF Rel!None
<1>12. x1 \in Commits /\ x9 \in 0..MaxRuns /\ x4 \in [code : Commits, stamp : Commits] /\ x7 \in {{"seed"}, {"renamed"}, {}}
  BY <1>1, <1>5, BoundsAssumption
<1> QED BY <1>6, <1>7, <1>8, <1>9, <1>10, <1>11, <1>12 DEF ReleaseInv, Rel!TypeOK

\* A script goes from one command to the next, or ends.
LEMMA ScriptGoes ==
    ASSUME x2 \in [Laptops -> Rel!Scripts], NEW l \in Laptops, x2[l].at # "-"
    PROVE  /\ x2[l].sha \in Commits /\ x2[l].script \in {"push", "rollback"}
           /\ \A step \in {"edge", "build", "up", "wait"} : Rel!Goto(l, step) => x2' \in [Laptops -> Rel!Scripts]
           /\ \A said \in {"verified", "failed"} : Rel!Ends(l, said) => x2' \in [Laptops -> Rel!Scripts]
<1>1. x2[l] \in [script : {"push", "rollback"}, at : {"-", "sync", "edge", "build", "up", "wait"},
                 sha : Commits, told : {"-", "verified", "failed"}]
  BY DEF Rel!Scripts
<1>2. ASSUME NEW step \in {"edge", "build", "up", "wait"}, Rel!Goto(l, step) PROVE x2' \in [Laptops -> Rel!Scripts]
  <2>1. [x2[l] EXCEPT !.at = step] \in Rel!Scripts
    BY <1>1 DEF Rel!Scripts
  <2> QED BY <1>2, <2>1 DEF Rel!Goto
<1>3. ASSUME NEW said \in {"verified", "failed"}, Rel!Ends(l, said) PROVE x2' \in [Laptops -> Rel!Scripts]
  <2>1. [[x2[l] EXCEPT !.at = "-"] EXCEPT !.told = said] \in Rel!Scripts
    BY <1>1 DEF Rel!Scripts
  <2> QED BY <1>3, <2>1 DEF Rel!Ends
<1> QED BY <1>1, <1>2, <1>3

\* The commands of the scripts up to the containers, which leave the schema alone.
LEMMA CommandsKeep ==
    ASSUME ReleaseInv, NEW l \in Laptops,
           \/ Rel!Push(l) \/ Rel!Rollback(l) \/ Rel!Sync(l) \/ Rel!RecreateEdge(l) \/ Rel!Build(l)
           \/ Rel!ScriptFails(l) \/ Rel!Heard(l) \/ Rel!GivesUp(l)
    PROVE  ReleaseInv'
<1> USE DEF ReleaseInv
<1>1. UNCHANGED <<x1, x5, x6, x7, x8>>
  BY DEF Rel!Push, Rel!Rollback, Rel!Begin, Rel!Sync, Rel!RecreateEdge, Rel!Build, Rel!ScriptFails, Rel!Heard, Rel!GivesUp
<1>2. Rel!SchemaInv'
  BY <1>1 DEF Rel!SchemaInv
<1>3. x2 \in [Laptops -> Rel!Scripts] /\ x1 \in Commits
  BY DEF Rel!TypeOK
<1>4. ASSUME Rel!Push(l) \/ Rel!Rollback(l) PROVE Rel!TypeOK'
  <2>1. PICK script \in {"push", "rollback"}, sha \in Commits : Rel!Begin(l, script, sha)
    BY <1>3, <1>4 DEF Rel!Push, Rel!Rollback
  <2>2. [script |-> script, at |-> "sync", sha |-> sha, told |-> "-"] \in Rel!Scripts
    BY DEF Rel!Scripts
  <2>3. x2' \in [Laptops -> Rel!Scripts] /\ x9' \in 0..MaxRuns
    BY <1>3, <2>1, <2>2, BoundsAssumption DEF Rel!Begin, Rel!TypeOK
  <2> QED BY <1>1, <2>1, <2>3 DEF Rel!Begin, Rel!TypeOK
<1>5. ASSUME Rel!Sync(l) PROVE Rel!TypeOK'
  <2>1. x2[l].sha \in Commits /\ x2' \in [Laptops -> Rel!Scripts]
    BY <1>3, <1>5, ScriptGoes DEF Rel!Sync, Rel!At
  <2>2. x3' \in [files : Commits, edge : {Edge[c] : c \in Commits}, release : Commits \union {Rel!None}]
    BY <1>5, <2>1 DEF Rel!Sync, Rel!TypeOK
  <2> QED BY <1>1, <1>5, <2>1, <2>2 DEF Rel!Sync, Rel!TypeOK
<1>6. ASSUME Rel!RecreateEdge(l) PROVE Rel!TypeOK'
  <2>1. x2' \in [Laptops -> Rel!Scripts] /\ (x3' = x3 \/ x3' = [x3 EXCEPT !.edge = Edge[x3.files]])
    BY <1>3, <1>6, ScriptGoes DEF Rel!RecreateEdge, Rel!At
  <2>2. x3' \in [files : Commits, edge : {Edge[c] : c \in Commits}, release : Commits \union {Rel!None}]
    BY <2>1 DEF Rel!TypeOK
  <2> QED BY <1>1, <1>6, <2>1, <2>2 DEF Rel!RecreateEdge, Rel!TypeOK
<1>7. ASSUME Rel!Build(l) PROVE Rel!TypeOK'
  <2>1. x2[l].sha \in Commits /\ x2' \in [Laptops -> Rel!Scripts]
    BY <1>3, <1>7, ScriptGoes DEF Rel!Build, Rel!At
  <2>2. x4' \in [code : Commits, stamp : Commits]
    BY <1>7, <2>1 DEF Rel!Build, Rel!TypeOK
  <2> QED BY <1>1, <1>7, <2>1, <2>2 DEF Rel!Build, Rel!TypeOK
<1>8. ASSUME Rel!ScriptFails(l) \/ Rel!Heard(l) \/ Rel!GivesUp(l) PROVE Rel!TypeOK'
  <2>1. x2' \in [Laptops -> Rel!Scripts]
    BY <1>3, <1>8, ScriptGoes DEF Rel!ScriptFails, Rel!Heard, Rel!GivesUp, Rel!At
  <2> QED BY <1>1, <1>8, <2>1 DEF Rel!ScriptFails, Rel!Heard, Rel!GivesUp, Rel!TypeOK
<1> QED BY <1>2, <1>4, <1>5, <1>6, <1>7, <1>8

\* The containers are recreated: the router boots, on the image there is.
LEMMA UpKeeps == ASSUME ReleaseInv, NEW l \in Laptops, Rel!Up(l) PROVE ReleaseInv'
<1> USE DEF ReleaseInv
<1>1. x2 \in [Laptops -> Rel!Scripts] /\ x2[l].at # "-"
  BY DEF Rel!TypeOK, Rel!Up, Rel!At
<1>2. x2[l].sha \in Commits /\ x2' \in [Laptops -> Rel!Scripts]
  BY <1>1, ScriptGoes DEF Rel!Up
<1>3. Rel!Release(l) \in Commits \union {Rel!None}
  BY <1>2 DEF Rel!Release
<1>4. x3' \in [files : Commits, edge : {Edge[c] : c \in Commits}, release : Commits \union {Rel!None}]
  BY <1>3 DEF Rel!Up, Rel!TypeOK
<1>5. /\ x5' = [code |-> x4.code, stamp |-> x4.stamp, at |-> "booting", known |-> {}]
      /\ x8' = [x8 EXCEPT !.undone = {}] /\ UNCHANGED <<x1, x4, x6, x7, x9>>
  BY DEF Rel!Up, Rel!Boot
<1>6. x5' \in [code : Commits, stamp : Commits, known : SUBSET Rel!AllMigrations,
               at : {"booting", "migrating", "seeding", "serving", "exited"}]
  BY <1>5 DEF Rel!TypeOK
<1>7. x8' \in [read : Rel!AllMigrations \union {Rel!None}, ran : 0..MaxDowns, undone : SUBSET Rel!AllMigrations]
  BY <1>5 DEF Rel!TypeOK
<1>8. Rel!SchemaInv'
  BY <1>5 DEF Rel!SchemaInv
<1> QED BY <1>2, <1>4, <1>5, <1>6, <1>7, <1>8 DEF Rel!TypeOK

\* A boot of the router, from the ledger it reads to the hubs it seeds.
LEMMA BootKeeps ==
    ASSUME ReleaseInv,
           Rel!ReadLedger \/ Rel!ApplyMigration \/ Rel!Migrated \/ Rel!SeedHubs \/ Rel!Exits \/ Rel!Restart
    PROVE  ReleaseInv'
<1> USE DEF ReleaseInv
<1> DEFINE Routers5 == [code : Commits, stamp : Commits, known : SUBSET Rel!AllMigrations,
                        at : {"booting", "migrating", "seeding", "serving", "exited"}]
<1>1. x5 \in Routers5 /\ 1..List[x5.code] \subseteq Rel!AllMigrations
  BY ListsGrow DEF Rel!TypeOK
<1>2. UNCHANGED <<x1, x2, x3, x4, x9>>
  BY DEF Rel!ReadLedger, Rel!ApplyMigration, Rel!Migrated, Rel!SeedHubs, Rel!Exits, Rel!Restart
<1>3. ASSUME Rel!ReadLedger PROVE ReleaseInv'
  <2>1. Rel!Range(x6.ledger) \subseteq Rel!AllMigrations
    BY DEF Rel!TypeOK, Rel!Range
  <2>2. /\ x5' = [x5 EXCEPT !.at = "migrating", !.known = Rel!Range(x6.ledger)]
        /\ x8' = [x8 EXCEPT !.undone = {}] /\ UNCHANGED <<x6, x7>>
    BY <1>3 DEF Rel!ReadLedger
  <2>3. x5' \in Routers5 /\ x5'.at = "migrating" /\ x5'.known = Rel!Range(x6.ledger)
    BY <1>1, <2>1, <2>2
  <2>4. x8' \in [read : Rel!AllMigrations \union {Rel!None}, ran : 0..MaxDowns, undone : SUBSET Rel!AllMigrations]
    BY <2>2 DEF Rel!TypeOK
  <2>5. Rel!TypeOK'
    BY <1>2, <2>2, <2>3, <2>4 DEF Rel!TypeOK
  <2>6. Rel!SchemaInv'
    BY <2>2, <2>3 DEF Rel!SchemaInv
  <2> QED BY <2>5, <2>6
<1>4. ASSUME Rel!ApplyMigration PROVE ReleaseInv'
  <2> DEFINE m == CHOOSE n \in Rel!Missing : \A k \in Rel!Missing : n <= k
  <2>1. m \in Rel!AllMigrations
    <3>1. Rel!Missing \subseteq Nat /\ Rel!Missing # {}
      BY <1>1, <1>4, ListsGrow DEF Rel!ApplyMigration, Rel!Missing
    <3>2. \E n \in Rel!Missing : \A k \in Rel!Missing : n <= k
      <4>1. PICK n \in Rel!Missing : \A k \in Rel!Missing : <<k, n>> \notin OpToRel(<, Nat)
        BY <3>1, NatLessThanWellFounded, WFMin, Zenon
      <4>2. \A k \in Rel!Missing : ~(k < n)
        BY <3>1, <4>1 DEF OpToRel
      <4> QED BY <3>1, <4>2
    <3> QED BY <1>1, <3>2 DEF Rel!Missing
  <2>2. /\ Rel!Applied(m) /\ x5' = [x5 EXCEPT !.known = @ \union {m}] /\ x5.at = "migrating" /\ UNCHANGED <<x7, x8>>
    BY <1>4 DEF Rel!ApplyMigration
  <2> HIDE DEF m
  <2>3. x5' \in Routers5 /\ x5'.at = "migrating" /\ x5'.known = x5.known \union {m}
    BY <1>1, <2>1, <2>2
  <2>4. x6 \in [schema : SUBSET Rel!AllMigrations, ledger : Seq(Rel!AllMigrations)]
    BY DEF Rel!TypeOK
  <2> DEFINE ledger == IF m \in Rel!Range(x6.ledger) THEN x6.ledger ELSE Append(x6.ledger, m)
  <2>5. /\ ledger \in Seq(Rel!AllMigrations)
        /\ \A i, j \in DOMAIN ledger : ledger[i] = ledger[j] => i = j
        /\ Rel!Range(ledger) \subseteq x6.schema \union {m}
    <3>1. CASE m \in Rel!Range(x6.ledger)
      BY <2>4, <3>1 DEF Rel!SchemaInv
    <3>2. CASE m \notin Rel!Range(x6.ledger)
      <4>1. \A i \in DOMAIN x6.ledger : x6.ledger[i] # m /\ x6.ledger[i] \in x6.schema
        BY <2>4, <3>2 DEF Rel!SchemaInv, Rel!Range
      <4> DEFINE s == x6.ledger
      <4>2. s \in Seq(Rel!AllMigrations) /\ \A i, j \in DOMAIN s : s[i] = s[j] => i = j
        BY <2>4 DEF Rel!SchemaInv
      <4> HIDE DEF s
      <4>3. /\ Append(s, m) \in Seq(Rel!AllMigrations) /\ DOMAIN Append(s, m) = 1..(Len(s) + 1)
            /\ \A i \in DOMAIN s : Append(s, m)[i] = s[i] /\ Append(s, m)[Len(s) + 1] = m
        BY <2>1, <4>2
      <4>4. \A i \in DOMAIN Append(s, m) : i \in DOMAIN s \/ (i = Len(s) + 1 /\ i \notin DOMAIN s)
        BY <4>2, <4>3
      <4>4a. Append(s, m)[Len(s) + 1] = m
        BY <4>2
      <4>5. \A i \in DOMAIN Append(s, m) : IF i \in DOMAIN s THEN Append(s, m)[i] = s[i]
                                           ELSE Append(s, m)[i] = m /\ i = Len(s) + 1
        BY <4>3, <4>4, <4>4a
      <4>6. \A i \in DOMAIN s : s[i] # m /\ s[i] \in x6.schema
        BY <4>1 DEF s
      <4>7. \A i, j \in DOMAIN Append(s, m) : Append(s, m)[i] = Append(s, m)[j] => i = j
        BY <4>2, <4>5, <4>6
      <4>8. Rel!Range(Append(s, m)) \subseteq x6.schema \union {m}
        BY <4>5, <4>6 DEF Rel!Range
      <4> QED BY <3>2, <4>3, <4>7, <4>8 DEF s
    <3> QED BY <3>1, <3>2
  <2>6. x6' = [schema |-> x6.schema \union {m}, ledger |-> ledger]
    BY <2>2 DEF Rel!Applied
  <2> HIDE DEF ledger
  <2>7. x6' \in [schema : SUBSET Rel!AllMigrations, ledger : Seq(Rel!AllMigrations)]
    BY <2>1, <2>4, <2>5, <2>6
  <2>8. Rel!SchemaInv'
    BY <2>2, <2>3, <2>5, <2>6 DEF Rel!SchemaInv
  <2> QED BY <1>2, <2>2, <2>3, <2>7, <2>8 DEF Rel!TypeOK
<1>5. ASSUME Rel!Migrated PROVE ReleaseInv'
  <2>1. x5' = [x5 EXCEPT !.at = "seeding"] /\ x5.at = "migrating" /\ UNCHANGED <<x6, x7, x8>>
    BY <1>5 DEF Rel!Migrated
  <2>2. x5' \in Routers5 /\ x5'.code = x5.code /\ x5'.known = x5.known
    BY <1>1, <2>1
  <2>3. 1..List[x5.code] \subseteq x5.known
    BY <1>5 DEF Rel!Migrated, Rel!Missing
  <2>4. Rel!SchemaInv'
    BY <2>1, <2>2, <2>3 DEF Rel!SchemaInv
  <2> QED BY <1>2, <2>1, <2>2, <2>4 DEF Rel!TypeOK
<1>6. ASSUME Rel!SeedHubs \/ Rel!Exits \/ Rel!Restart PROVE ReleaseInv'
  <2>1. PICK at \in {"exited", "serving", "booting"} :
            x5' = [x5 EXCEPT !.at = at] /\ (at = "serving" => x5.at = "seeding")
    BY <1>6 DEF Rel!SeedHubs, Rel!Exits, Rel!Restart
  <2>2. x5' \in Routers5 /\ x5'.at = at /\ x5'.code = x5.code /\ x5'.known = x5.known
    BY <1>1, <2>1
  <2>3. UNCHANGED <<x6, x8>> /\ x7' \in {{"seed"}, {"renamed"}, {}}
    BY <1>6 DEF Rel!SeedHubs, Rel!SeedFails, Rel!Exits, Rel!Restart, Rel!TypeOK
  <2>4. Rel!SchemaInv'
    BY <2>1, <2>2, <2>3 DEF Rel!SchemaInv
  <2> QED BY <1>2, <2>2, <2>3, <2>4 DEF Rel!TypeOK
<1> QED BY <1>3, <1>4, <1>5, <1>6

\* Reading the last row, and deleting it with what its migration had made.
LEMMA ByHandKeeps ==
    ASSUME ReleaseInv, Rel!Merge \/ Rel!UpdateHub \/ Rel!DeleteHub \/ Rel!ReadLast \/ Rel!RollbackOne
    PROVE  ReleaseInv'
<1> USE DEF ReleaseInv
<1>1. x6 \in [schema : SUBSET Rel!AllMigrations, ledger : Seq(Rel!AllMigrations)]
  BY DEF Rel!TypeOK
<1>2. ASSUME Rel!Merge \/ Rel!UpdateHub \/ Rel!DeleteHub PROVE ReleaseInv'
  <2>1. UNCHANGED <<x2, x3, x4, x5, x6, x8, x9>>
    BY <1>2 DEF Rel!Merge, Rel!UpdateHub, Rel!DeleteHub, Rel!EditHub
  <2>2. x1' \in Commits /\ x7' \in {{"seed"}, {"renamed"}, {}}
    BY <1>2 DEF Rel!Merge, Rel!UpdateHub, Rel!DeleteHub, Rel!EditHub, Rel!TypeOK
  <2>3. Rel!SchemaInv'
    BY <2>1 DEF Rel!SchemaInv
  <2> QED BY <2>1, <2>2, <2>3 DEF Rel!TypeOK
<1>3. ASSUME Rel!ReadLast PROVE ReleaseInv'
  <2> DEFINE last == x6.ledger[Len(x6.ledger)]
  <2>1. last \in Rel!AllMigrations
    BY <1>1, <1>3 DEF Rel!ReadLast
  <2>2. x8' = [x8 EXCEPT !.read = last, !.ran = @ + 1] /\ x8.ran < MaxDowns
        /\ UNCHANGED <<x1, x2, x3, x4, x5, x6, x7, x9>>
    BY <1>3 DEF Rel!ReadLast
  <2> HIDE DEF last
  <2>3. /\ x8' \in [read : Rel!AllMigrations \union {Rel!None}, ran : 0..MaxDowns, undone : SUBSET Rel!AllMigrations]
        /\ x8'.undone = x8.undone
    <3>1. x8 \in [read : Rel!AllMigrations \union {Rel!None}, ran : 0..MaxDowns, undone : SUBSET Rel!AllMigrations]
      BY DEF Rel!TypeOK
    <3>2. x8.ran + 1 \in 0..MaxDowns
      BY <2>2, <3>1, BoundsAssumption
    <3> QED BY <2>1, <2>2, <3>1, <3>2
  <2>4. Rel!SchemaInv'
    BY <2>2, <2>3 DEF Rel!SchemaInv
  <2> QED BY <2>2, <2>3, <2>4 DEF Rel!TypeOK
<1>4. ASSUME Rel!RollbackOne PROVE ReleaseInv'
  <2> DEFINE ledger == Rel!Without(x6.ledger, x8.read)
  <2>1. x8.read \in Rel!AllMigrations
    BY <1>4 DEF Rel!RollbackOne, Rel!TypeOK
  <2>2. /\ x6' = [schema |-> x6.schema \ {x8.read}, ledger |-> ledger]
        /\ x8' = [x8 EXCEPT !.read = Rel!None, !.undone = @ \union {x8.read}]
        /\ UNCHANGED <<x1, x2, x3, x4, x5, x7, x9>>
    BY <1>4 DEF Rel!RollbackOne
  <2>3. /\ ledger \in Seq(Rel!AllMigrations)
        /\ \A i, j \in DOMAIN ledger : ledger[i] = ledger[j] => i = j
        /\ \A i \in DOMAIN ledger : ledger[i] # x8.read /\ \E j \in DOMAIN x6.ledger : ledger[i] = x6.ledger[j]
    BY <1>1, RowDeleted DEF Rel!SchemaInv
  <2> HIDE DEF ledger
  <2>4. Rel!Range(ledger) \subseteq x6.schema \ {x8.read}
    BY <2>3 DEF Rel!SchemaInv, Rel!Range
  <2>5. x6' \in [schema : SUBSET Rel!AllMigrations, ledger : Seq(Rel!AllMigrations)]
    BY <1>1, <2>2, <2>3
  <2>6. /\ x8' \in [read : Rel!AllMigrations \union {Rel!None}, ran : 0..MaxDowns, undone : SUBSET Rel!AllMigrations]
        /\ x8'.undone = x8.undone \union {x8.read}
    BY <2>1, <2>2 DEF Rel!TypeOK
  <2>7. Rel!SchemaInv'
    BY <2>2, <2>3, <2>4, <2>6 DEF Rel!SchemaInv
  <2> QED BY <2>2, <2>5, <2>6, <2>7 DEF Rel!TypeOK
<1> QED BY <1>2, <1>3, <1>4

\* Every step keeps it.
LEMMA ReleasesNext == ReleaseInv /\ [Rel!Next]_(Rel!vars) => ReleaseInv'
<1> SUFFICES ASSUME ReleaseInv, [Rel!Next]_(Rel!vars) PROVE ReleaseInv'
  OBVIOUS
<1>1. CASE UNCHANGED Rel!vars
  BY <1>1 DEF Rel!vars, ReleaseInv, Rel!TypeOK, Rel!SchemaInv
<1>2. CASE \E l \in Laptops : \/ Rel!Push(l) \/ Rel!Rollback(l) \/ Rel!Sync(l) \/ Rel!RecreateEdge(l)
                              \/ Rel!Build(l) \/ Rel!ScriptFails(l) \/ Rel!Up(l) \/ Rel!Heard(l) \/ Rel!GivesUp(l)
  BY <1>2, CommandsKeep, UpKeeps
<1>3. CASE Rel!ReadLedger \/ Rel!ApplyMigration \/ Rel!Migrated \/ Rel!SeedHubs \/ Rel!Exits \/ Rel!Restart
  BY <1>3, BootKeeps
<1>4. CASE Rel!Merge \/ Rel!UpdateHub \/ Rel!DeleteHub \/ Rel!ReadLast \/ Rel!RollbackOne
  BY <1>4, ByHandKeeps
<1> QED BY <1>1, <1>2, <1>3, <1>4 DEF Rel!Next

-----------------------------------------------------------------------------
(* ExceptionWatch: what dispatch is told is going wrong:
   x1 order, x2 since, x3 phone, x4 prompt, x5 asked, x6 screen. *)

\* The inductive invariant of the exception watch.
WatchInv == Watch!TypeOK /\ Watch!SignalInv /\ Watch!ReportsInv

\* It holds at first.
LEMMA WatchInit == Watch!Init => WatchInv
<1> SUFFICES ASSUME Watch!Init PROVE WatchInv
  OBVIOUS
<1>1. x1 \in Watch!OrderRows
  BY Zenon DEF Watch!Init, Watch!OrderRows, Watch!Statuses
<1>2. x3 \in Watch!Phones
  <2>1. /\ [on |-> FALSE, reported |-> "never", live |-> FALSE] \in Watch!Phones
        /\ [on |-> TRUE, reported |-> "before", live |-> TRUE] \in Watch!Phones
    BY DEF Watch!Phones
  <2> QED BY <2>1, Zenon DEF Watch!Init
<1>3. x6 \in [says : {"nothing yet"} \union Watch!Says, error : BOOLEAN, loading : BOOLEAN] /\ x6.says # "wrong"
  BY Zenon DEF Watch!Init
<1> QED BY <1>1, <1>2, <1>3, Zenon DEF WatchInv, Watch!Init, Watch!TypeOK, Watch!SignalInv, Watch!ReportsInv

\* A step of the job touches its row, and the phone's reports are from before.
LEMMA TouchKeeps ==
    ASSUME WatchInv, NEW row \in Watch!OrderRows, x1' = row, Watch!Touch, UNCHANGED <<x5, x6>>,
           x4' \in {"none", "new", "old"}
    PROVE  WatchInv'
<1>1. x3' \in Watch!Phones /\ x2' = "now"
  BY Zenon DEF Watch!Touch, WatchInv, Watch!TypeOK, Watch!Phones
<1> QED BY <1>1, Zenon DEF WatchInv, Watch!TypeOK, Watch!SignalInv, Watch!ReportsInv

\* Whatever is done with the job.
LEMMA JobKeeps ==
    ASSUME WatchInv,
           \/ \E b \in BOOLEAN : Watch!Place(b) \/ Watch!AnswerOffer(b)
           \/ Watch!Offer \/ Watch!OfferSwept \/ Watch!Assign \/ Watch!Unassign \/ Watch!Reprioritise
           \/ \E to \in Watch!Statuses : Watch!Advance(to) \/ Watch!ForceStatus(to)
           \/ Watch!RequestPayment \/ Watch!TakeCash \/ Watch!HandIn \/ Watch!Adjust
           \/ \E verdict \in {"PAID", "FAILED"} : Watch!PromptSettled(verdict)
    PROVE  WatchInv'
<1> USE DEF WatchInv
<1>1. x1 \in Watch!OrderRows /\ x4 \in {"none", "new", "old"}
  BY Zenon DEF Watch!TypeOK
<1>2. ASSUME NEW row \in Watch!OrderRows, Watch!Becomes(row) PROVE WatchInv'
  BY <1>1, <1>2, TouchKeeps DEF Watch!Becomes
<1>3. ASSUME NEW status \in Watch!Statuses, NEW named \in BOOLEAN, NEW expiry \in {"none", "running", x1.expiry}
      PROVE  [x1 EXCEPT !.status = status, !.named = named, !.expiry = expiry] \in Watch!OrderRows
  BY <1>1 DEF Watch!OrderRows
<1>4. ASSUME NEW b \in BOOLEAN, Watch!Place(b) PROVE WatchInv'
  <2>1. [x1 EXCEPT !.placed = TRUE, !.price = IF b THEN "real" ELSE @] \in Watch!OrderRows
    BY <1>1 DEF Watch!OrderRows
  <2> QED BY <1>2, <1>4, <2>1, Zenon DEF Watch!Place
<1>5. ASSUME NEW b \in BOOLEAN, Watch!AnswerOffer(b) PROVE WatchInv'
  <2>1. [x1 EXCEPT !.status = IF b THEN "ASSIGNED" ELSE "PENDING", !.named = b, !.expiry = "none"] \in Watch!OrderRows
    BY <1>1 DEF Watch!OrderRows, Watch!Statuses
  <2> QED BY <1>2, <1>5, <2>1, Zenon DEF Watch!AnswerOffer
<1>6. ASSUME Watch!Offer \/ Watch!OfferSwept \/ Watch!Assign \/ Watch!Unassign PROVE WatchInv'
  <2>1. [x1 EXCEPT !.status = "OFFERED", !.named = TRUE, !.expiry = "running"] \in Watch!OrderRows
    BY <1>1 DEF Watch!OrderRows, Watch!Statuses
  <2>2. [x1 EXCEPT !.status = "PENDING", !.named = FALSE, !.expiry = "none"] \in Watch!OrderRows
    BY <1>1 DEF Watch!OrderRows, Watch!Statuses
  <2>3. [x1 EXCEPT !.status = "ASSIGNED", !.named = TRUE] \in Watch!OrderRows
    BY <1>1 DEF Watch!OrderRows, Watch!Statuses
  <2>4. [x1 EXCEPT !.status = "PENDING", !.named = FALSE] \in Watch!OrderRows
    BY <1>1 DEF Watch!OrderRows, Watch!Statuses
  <2> QED BY <1>2, <1>6, <2>1, <2>2, <2>3, <2>4 DEF Watch!Offer, Watch!OfferSwept, Watch!Assign, Watch!Unassign
<1>7. ASSUME NEW to \in Watch!Statuses, Watch!Advance(to) \/ Watch!ForceStatus(to) PROVE WatchInv'
  <2>1. [x1 EXCEPT !.status = to] \in Watch!OrderRows
    BY <1>1 DEF Watch!OrderRows
  <2> QED BY <1>2, <1>7, <2>1 DEF Watch!Advance, Watch!ForceStatus
<1>8. CASE Watch!Reprioritise
  BY <1>1, <1>2, <1>8 DEF Watch!Reprioritise
<1>9. CASE Watch!TakeCash \/ Watch!HandIn \/ Watch!Adjust
  <2>1. /\ [x1 EXCEPT !.payment = "PAID", !.holding = TRUE] \in Watch!OrderRows
        /\ [x1 EXCEPT !.holding = FALSE] \in Watch!OrderRows
        /\ [x1 EXCEPT !.adjusted = TRUE] \in Watch!OrderRows
    BY <1>1 DEF Watch!OrderRows
  <2> QED BY <1>2, <1>9, <2>1 DEF Watch!TakeCash, Watch!HandIn, Watch!Adjust
<1>10. ASSUME NEW verdict \in {"PENDING", "PAID", "FAILED"},
              x1' = [x1 EXCEPT !.payment = verdict], x4' \in {"none", "new"}, Watch!Touch, UNCHANGED <<x5, x6>>
       PROVE  WatchInv'
  <2>1. [x1 EXCEPT !.payment = verdict] \in Watch!OrderRows
    BY <1>1 DEF Watch!OrderRows
  <2> QED BY <1>10, <2>1, TouchKeeps
<1>11. CASE Watch!RequestPayment \/ \E verdict \in {"PAID", "FAILED"} : Watch!PromptSettled(verdict)
  BY <1>10, <1>11 DEF Watch!RequestPayment, Watch!PromptSettled
<1> QED BY <1>4, <1>5, <1>6, <1>7, <1>8, <1>9, <1>11

\* Time, the phone and the screen.
LEMMA OthersKeep ==
    ASSUME WatchInv,
           \/ Watch!Tick \/ Watch!Report \/ Watch!PhoneDies \/ Watch!PromptTimesOut
           \/ \E a \in Asks : \/ Watch!Ask(a) \/ Watch!Shown(a) \/ Watch!GetExceptions(a, {})
                              \/ \E g \in DOMAIN Watch!Groups : Watch!GetExceptions(a, {g})
    PROVE  WatchInv'
<1> USE DEF WatchInv
<1>1. CASE Watch!Tick
  <2>1. x2' \in {"half", "long"} /\ x4' \in {"none", "new", "old"} /\ UNCHANGED <<x5, x6>>
    BY <1>1 DEF Watch!Tick, Watch!Older
  <2>2. x1' \in Watch!OrderRows
    <3>1. x1 \in Watch!OrderRows
      BY Zenon DEF Watch!TypeOK
    <3>2. x1' = [x1 EXCEPT !.expiry = IF x1.expiry = "none" THEN "none" ELSE "past"]
      BY <1>1 DEF Watch!Tick
    <3> QED BY <3>1, <3>2 DEF Watch!OrderRows
  <2>3. x3' \in Watch!Phones /\ (x3'.live => x3'.reported = "since")
    BY <1>1, Zenon DEF Watch!Tick, Watch!TypeOK, Watch!Phones
  <2> QED BY <2>1, <2>2, <2>3, Zenon DEF Watch!TypeOK, Watch!SignalInv, Watch!ReportsInv
<1>2. CASE Watch!Report \/ Watch!PhoneDies
  <2>1. x3' \in Watch!Phones /\ (x3'.live => x3'.reported = "since" \/ (x3.live /\ x3'.reported = x3.reported))
    <3>1. CASE Watch!Report
      <4>1. x3' = [on |-> TRUE, reported |-> "since", live |-> TRUE]
        BY <3>1 DEF Watch!Report
      <4> QED BY <4>1 DEF Watch!Phones
    <3>2. CASE Watch!PhoneDies
      <4>1. x3 \in Watch!Phones /\ x3' = [x3 EXCEPT !.on = FALSE]
        BY <3>2, Zenon DEF Watch!PhoneDies, Watch!TypeOK
      <4>2. x3'.live = x3.live /\ x3'.reported = x3.reported /\ x3' \in Watch!Phones
        BY <4>1 DEF Watch!Phones
      <4> QED BY <4>2
    <3> QED BY <1>2, <3>1, <3>2
  <2>2. UNCHANGED <<x1, x2, x4, x5, x6>>
    BY <1>2 DEF Watch!Report, Watch!PhoneDies
  <2> QED BY <2>1, <2>2, Zenon DEF Watch!TypeOK, Watch!SignalInv, Watch!ReportsInv
<1>3. CASE Watch!PromptTimesOut
  BY <1>3, Zenon DEF Watch!PromptTimesOut, Watch!TypeOK, Watch!SignalInv, Watch!ReportsInv
<1>4. ASSUME NEW a \in Asks, Watch!Ask(a) \/ Watch!Shown(a) PROVE WatchInv'
  <2>1. UNCHANGED <<x1, x2, x3, x4>>
    BY <1>4 DEF Watch!Ask, Watch!Shown
  <2>2. x5' \in [Asks -> {"free", "sent", "failed"} \union Watch!Says] /\ \A b \in Asks : x5'[b] # "wrong"
    BY <1>4, Zenon DEF Watch!Ask, Watch!Shown, Watch!TypeOK, Watch!ReportsInv
  <2>3. /\ x6' \in [says : {"nothing yet"} \union Watch!Says, error : BOOLEAN, loading : BOOLEAN]
        /\ x6'.says # "wrong"
    <3>1. /\ x6 \in [says : {"nothing yet"} \union Watch!Says, error : BOOLEAN, loading : BOOLEAN]
          /\ x6.says # "wrong" /\ x5[a] # "wrong"
      BY Zenon DEF Watch!TypeOK, Watch!ReportsInv
    <3>2. \/ x6' = [x6 EXCEPT !.loading = TRUE] \/ x6' = [x6 EXCEPT !.error = TRUE, !.loading = FALSE]
          \/ x5[a] \in Watch!Says /\ x6' = [says |-> x5[a], error |-> FALSE, loading |-> FALSE]
      BY <1>4 DEF Watch!Ask, Watch!Shown
    <3> DEFINE S == [says : {"nothing yet"} \union Watch!Says, error : BOOLEAN, loading : BOOLEAN]
    <3>3. /\ [x6 EXCEPT !.loading = TRUE] \in S /\ [x6 EXCEPT !.loading = TRUE].says = x6.says
          /\ [x6 EXCEPT !.error = TRUE, !.loading = FALSE] \in S
          /\ [x6 EXCEPT !.error = TRUE, !.loading = FALSE].says = x6.says
      BY <3>1, Zenon
    <3>4. \A says \in Watch!Says : [says |-> says, error |-> FALSE, loading |-> FALSE] \in S
      OBVIOUS
    <3> HIDE DEF S
    <3>5. CASE x6' \in {[x6 EXCEPT !.loading = TRUE], [x6 EXCEPT !.error = TRUE, !.loading = FALSE]}
      BY <3>1, <3>3, <3>5, Zenon DEF S
    <3>6. CASE x5[a] \in Watch!Says /\ x6' = [says |-> x5[a], error |-> FALSE, loading |-> FALSE]
      BY <3>1, <3>4, <3>6, Zenon DEF S
    <3> QED BY <3>2, <3>5, <3>6, Zenon DEF S
  <2> QED BY <2>1, <2>2, <2>3, Zenon DEF Watch!TypeOK, Watch!SignalInv, Watch!ReportsInv
<1>5. ASSUME NEW a \in Asks, NEW failing, Watch!GetExceptions(a, failing) PROVE WatchInv'
  <2>1. UNCHANGED <<x1, x2, x3, x4, x6>>
    BY <1>5 DEF Watch!GetExceptions
  <2>2. Watch!AllOrNothing(failing) \in {"failed", "busy", "clear"}
    BY DEF Watch!AllOrNothing, Watch!Reading
  <2>3. x5' \in [Asks -> {"free", "sent", "failed"} \union Watch!Says] /\ \A b \in Asks : x5'[b] # "wrong"
    BY <1>5, <2>2, Zenon DEF Watch!GetExceptions, Watch!TypeOK, Watch!ReportsInv, Watch!Says
  <2> QED BY <2>1, <2>3, Zenon DEF Watch!TypeOK, Watch!SignalInv, Watch!ReportsInv
<1> QED BY <1>1, <1>2, <1>3, <1>4, <1>5

\* Every step keeps it.
LEMMA WatchNext == WatchInv /\ [Watch!Next]_(Watch!vars) => WatchInv'
<1> SUFFICES ASSUME WatchInv, [Watch!Next]_(Watch!vars) PROVE WatchInv'
  OBVIOUS
<1>1. CASE UNCHANGED Watch!vars
  BY <1>1, Zenon DEF Watch!vars, WatchInv, Watch!TypeOK, Watch!SignalInv, Watch!ReportsInv
<1>2. CASE Watch!Next
  BY <1>2, JobKeeps, OthersKeep DEF Watch!Next
<1> QED BY <1>1, <1>2

\* A job that nobody has touched for long is in a group by its own step, or by the phone's silence.
LEMMA SilenceIsSeen == WatchInv => Watch!SilentIsSeen /\ Watch!ClearWasTrue
<1> SUFFICES ASSUME WatchInv PROVE Watch!SilentIsSeen /\ Watch!ClearWasTrue
  OBVIOUS
<1>1. Watch!ClearWasTrue
  BY DEF WatchInv, Watch!ReportsInv, Watch!ClearWasTrue
<1>2. Watch!SilentIsSeen
  BY Zenon DEF WatchInv, Watch!TypeOK, Watch!SignalInv, Watch!SilentIsSeen, Watch!assigned_driver_dark, Watch!assigned_to_nobody,
         Watch!stalled_at_pickup, Watch!stale_signal, Watch!delivery_not_confirmed, Watch!Given, Watch!OrderRows, Watch!Phones
<1> QED BY <1>1, <1>2

-----------------------------------------------------------------------------
(* WallDisplays: the links of the screens on the wall:
   x1 devices, x2 made, x3 panel, x4 carried, x5 screen. *)

\* The inductive invariant of the wall displays.
WallInv == Wall!TypeOK /\ Wall!LinkInv

\* It holds at first.
LEMMA WallInit == Wall!Init => WallInv
<1> SUFFICES ASSUME Wall!Init PROVE WallInv
  OBVIOUS
<1>1. x1 \in [Wall!Ids -> Wall!Rows]
  BY DEF Wall!Init, Wall!Rows, Wall!Tokens
<1>2. x3 \in [Desks -> Wall!Views]
  BY DEF Wall!Init, Wall!NoCall, Wall!Kinds, Wall!Views, Wall!Tokens
<1>3. x5 \in [Screens -> Wall!Drawn]
  BY DEF Wall!Init, Wall!Drawn, Wall!Tokens
<1>4. x2 \in 0..MaxDevices /\ x4 = {}
  BY BoundsAssumption DEF Wall!Init
<1>5. Wall!LinkInv
  BY <1>4 DEF Wall!Init, Wall!LinkInv, Wall!NoCall
<1> QED BY <1>1, <1>2, <1>3, <1>4, <1>5 DEF WallInv, Wall!TypeOK

\* A link that opens: of a device whose row holds its hash.
Opens(i, rows) == rows[i].hash = i

\* What has to be true of a panel.
PanelHolds(p, rows) ==
    /\ p \in Wall!Views
    /\ p.call.kind \in {"inserted", "hashed"} => p.call.id # Wall!NoId
    /\ p.call.kind = "hashed" => Opens(p.call.id, rows)
    /\ p.link # Wall!NoId => Opens(p.link, rows)

\* It says of each panel what has to be true of it.
LEMMA PanelHeld == ASSUME WallInv, NEW d \in Desks PROVE PanelHolds(x3[d], x1)
BY DEF WallInv, Wall!TypeOK, Wall!LinkInv, PanelHolds, Opens

\* The fields of a panel.
LEMMA ViewFields == ASSUME NEW p \in Wall!Views
    PROVE /\ p.list \in SUBSET Wall!Ids /\ p.link \in Wall!Tokens /\ p.error \in BOOLEAN
          /\ p.call.kind \in Wall!Kinds /\ p.call.id \in Wall!Tokens
BY DEF Wall!Views

\* No link is a token, and not one of a device.
LEMMA NoToken == Wall!NoId \in Wall!Tokens /\ Wall!NoId \notin Wall!Ids /\ Wall!Ids \subseteq Wall!Tokens
BY DEF Wall!NoId, Wall!Tokens, Wall!Ids

\* Devices that lose no hash, and are never let in again.
RowsKeep == /\ x1' \in [Wall!Ids -> Wall!Rows]
            /\ \A i \in Wall!Ids : (Opens(i, x1) => Opens(i, x1')) /\ (x1[i].revoked => x1'[i].revoked)

\* A step of one panel.
LEMMA PanelKeeps ==
    ASSUME WallInv, NEW d \in Desks, NEW p, PanelHolds(p, x1'), x3' = [x3 EXCEPT ![d] = p],
           UNCHANGED <<x4, x5>>, x2' \in 0..MaxDevices, RowsKeep
    PROVE  WallInv'
<1>1. x3 \in [Desks -> Wall!Views] /\ x3' \in [Desks -> Wall!Views] /\ p \in Wall!Views /\ x3'[d] = p
  BY DEF WallInv, Wall!TypeOK, PanelHolds
<1>2. Wall!TypeOK'
  BY <1>1 DEF WallInv, Wall!TypeOK, RowsKeep
<1>3. ASSUME NEW e \in Desks PROVE PanelHolds(x3'[e], x1')
  <2>1. CASE e = d
    BY <1>1, <2>1
  <2>2. CASE e # d
    <3>1. x3'[e] = x3[e] /\ x3[e] \in Wall!Views /\ PanelHolds(x3[e], x1)
      BY <1>1, <2>2, PanelHeld
    <3>2. x3[e].link \in Wall!Tokens /\ x3[e].call.id \in Wall!Tokens
      BY <3>1, ViewFields
    <3> QED BY <3>1, <3>2 DEF PanelHolds, RowsKeep, Wall!Tokens
  <2> QED BY <2>1, <2>2
<1>4. \A i \in x4 : i \in Wall!Ids /\ x1[i].hash = i /\ x1'[i].hash = i
  BY DEF WallInv, Wall!TypeOK, Wall!LinkInv, RowsKeep, Opens
<1>5. ASSUME NEW s \in Screens
      PROVE  /\ x5[s].token # Wall!NoId => x5[s].token \in x4
             /\ x5[s].refused => x5[s].token # Wall!NoId /\ x1'[x5[s].token].revoked
  BY <1>4 DEF WallInv, Wall!LinkInv, RowsKeep
<1>6. Wall!LinkInv'
  BY <1>3, <1>4, <1>5 DEF Wall!LinkInv, PanelHolds, Opens
<1> QED BY <1>2, <1>6 DEF WallInv

\* The steps of the panels.
LEMMA PanelsKeep == ASSUME WallInv, NEW d \in Desks,
    \/ Wall!HandleCreate(d) \/ Wall!InsertDevice(d) \/ Wall!StoreHash(d) \/ Wall!Provisioned(d)
    \/ Wall!RevokeKioskDevice(d) \/ Wall!Revoked(d) \/ Wall!LoadDevices(d) \/ Wall!CallFails(d) \/ Wall!HandleCopy(d)
    \/ \E i \in Wall!Ids : Wall!HandleRevoke(d, i)
    PROVE WallInv'
<1> DEFINE p == x3[d]
<1>1. /\ p \in Wall!Views /\ x3 \in [Desks -> Wall!Views] /\ x1 \in [Wall!Ids -> Wall!Rows]
      /\ x2 \in 0..MaxDevices /\ x4 \subseteq Wall!Ids /\ MaxDevices \in Nat
  BY BoundsAssumption DEF WallInv, Wall!TypeOK
<1>2. /\ p.list \in SUBSET Wall!Ids /\ p.link \in Wall!Tokens /\ p.error \in BOOLEAN
      /\ p.call.kind \in Wall!Kinds /\ p.call.id \in Wall!Tokens
  BY <1>1, ViewFields
<1>3. PanelHolds(p, x1)
  BY PanelHeld
<1>4. UNCHANGED x1 => RowsKeep
  BY <1>1 DEF RowsKeep
<1>5. ASSUME NEW kind \in Wall!Kinds, NEW id \in Wall!Tokens, Wall!Calls(d, kind, id), UNCHANGED <<x4, x5>>,
             x2' \in 0..MaxDevices, RowsKeep,
             kind \in {"inserted", "hashed"} => id # Wall!NoId, kind = "hashed" => Opens(id, x1')
      PROVE  WallInv'
  <2> DEFINE q == [p EXCEPT !.call = [kind |-> kind, id |-> id]]
  <2>1. x3' = [x3 EXCEPT ![d] = q]
    BY <1>1, <1>5 DEF Wall!Calls
  <2>2. q \in Wall!Views
    BY <1>1 DEF Wall!Views
  <2>3. q.link = p.link /\ q.call.kind = kind /\ q.call.id = id
    BY <1>1 DEF Wall!Views
  <2>4. p.link # Wall!NoId => Opens(p.link, x1')
    BY <1>2, <1>3, <1>5 DEF PanelHolds, RowsKeep, Wall!Tokens
  <2> HIDE DEF q
  <2>5. PanelHolds(q, x1')
    BY <1>5, <2>2, <2>3, <2>4 DEF PanelHolds
  <2> QED BY <1>5, <2>1, <2>5, PanelKeeps
<1>6. ASSUME NEW q, q \in Wall!Views, x3' = [x3 EXCEPT ![d] = q], UNCHANGED <<x1, x2, x4, x5>>,
             q.call.kind \notin {"inserted", "hashed"}, q.link # Wall!NoId => Opens(q.link, x1)
      PROVE  WallInv'
  <2>1. PanelHolds(q, x1')
    BY <1>6 DEF PanelHolds
  <2> QED BY <1>1, <1>4, <1>6, <2>1, PanelKeeps
<1>7. p.link # Wall!NoId => Opens(p.link, x1)
  BY <1>3 DEF PanelHolds
<1>8. ASSUME Wall!HandleCreate(d) PROVE WallInv'
  <2> DEFINE q == [p EXCEPT !.link = Wall!NoId, !.error = FALSE, !.call.kind = "create"]
  <2>1. x3' = [x3 EXCEPT ![d] = q] /\ UNCHANGED <<x1, x2, x4, x5>>
    BY <1>1, <1>8 DEF Wall!HandleCreate
  <2>2. q \in Wall!Views
    BY <1>1, NoToken DEF Wall!Views, Wall!Kinds
  <2>3. q.call.kind = "create" /\ q.link = Wall!NoId
    BY <1>1 DEF Wall!Views
  <2> HIDE DEF q
  <2> QED BY <1>6, <2>1, <2>2, <2>3
<1>9. ASSUME Wall!InsertDevice(d) PROVE WallInv'
  <2>1. x2 + 1 \in Wall!Ids /\ x2' \in 0..MaxDevices
    BY <1>1, <1>9 DEF Wall!InsertDevice, Wall!Ids
  <2>2. x2 + 1 \in Wall!Tokens /\ x2 + 1 # Wall!NoId
    BY <2>1, NoToken
  <2> QED BY <1>4, <1>5, <1>9, <2>1, <2>2 DEF Wall!InsertDevice, Wall!Kinds
<1>10. ASSUME Wall!StoreHash(d) PROVE WallInv'
  <2>1. p.call.id \in Wall!Ids
    BY <1>2, <1>3, <1>10 DEF Wall!StoreHash, Wall!At, PanelHolds, Wall!Tokens
  <2>2. /\ Wall!Calls(d, "hashed", p.call.id) /\ UNCHANGED <<x2, x4, x5>>
        /\ x1' = [x1 EXCEPT ![p.call.id] = [x1[p.call.id] EXCEPT !.hash = p.call.id]]
    BY <1>10 DEF Wall!StoreHash
  <2>3. /\ [x1[p.call.id] EXCEPT !.hash = p.call.id] \in Wall!Rows
        /\ [x1[p.call.id] EXCEPT !.hash = p.call.id].hash = p.call.id
        /\ [x1[p.call.id] EXCEPT !.hash = p.call.id].revoked = x1[p.call.id].revoked
    <3> DEFINE row == x1[p.call.id]
               id == p.call.id
    <3>1. row \in Wall!Rows /\ id \in Wall!Tokens
      BY <1>1, <1>2, <2>1 DEF Wall!Tokens, RowsKeep, WallInv, Wall!TypeOK
    <3> HIDE DEF row, id
    <3>2. [row EXCEPT !.hash = id] \in Wall!Rows
      BY <3>1 DEF Wall!Rows
    <3>3. "hash" \in DOMAIN row /\ "revoked" \in DOMAIN row
      BY <3>1 DEF Wall!Rows
    <3>4. [row EXCEPT !.hash = id].hash = id /\ [row EXCEPT !.hash = id].revoked = row.revoked
      BY <3>3
    <3> QED BY <3>2, <3>4 DEF row, id
  <2>4. RowsKeep /\ Opens(p.call.id, x1')
    BY <1>1, <2>1, <2>2, <2>3 DEF RowsKeep, Opens
  <2>5. p.call.id # Wall!NoId
    BY <2>1, NoToken
  <2> QED BY <1>1, <1>2, <1>5, <2>2, <2>4, <2>5 DEF Wall!Kinds
<1>11. ASSUME Wall!Provisioned(d) PROVE WallInv'
  <2> DEFINE q == [p EXCEPT !.link = p.call.id, !.call = [kind |-> "list", id |-> Wall!NoId]]
  <2>1. x3' = [x3 EXCEPT ![d] = q] /\ UNCHANGED <<x1, x2, x4, x5>> /\ p.call.kind = "hashed"
    BY <1>1, <1>11 DEF Wall!Provisioned, Wall!Answerable, Wall!At
  <2>2. q \in Wall!Views
    BY <1>1, <1>2, NoToken DEF Wall!Views, Wall!Kinds
  <2>3. q.call.kind = "list" /\ q.link = p.call.id
    BY <1>1 DEF Wall!Views
  <2>4. Opens(p.call.id, x1)
    BY <1>3, <2>1 DEF PanelHolds
  <2> HIDE DEF q
  <2> QED BY <1>6, <2>1, <2>2, <2>3, <2>4
<1>12. ASSUME Wall!RevokeKioskDevice(d) PROVE WallInv'
  <2> DEFINE i == p.call.id
  <2>1. /\ Wall!Calls(d, "revoked", i) /\ UNCHANGED <<x2, x4, x5>>
        /\ x1' = [x1 EXCEPT ![i] = [x1[i] EXCEPT !.revoked = TRUE]]
    BY <1>12 DEF Wall!RevokeKioskDevice
  <2>2. i \in Wall!Ids => /\ [x1[i] EXCEPT !.revoked = TRUE] \in Wall!Rows
                          /\ [x1[i] EXCEPT !.revoked = TRUE].hash = x1[i].hash
                          /\ [x1[i] EXCEPT !.revoked = TRUE].revoked
    BY <1>1, Zenon DEF Wall!Rows
  <2> HIDE DEF i
  <2>3. RowsKeep
    BY <1>1, <2>1, <2>2 DEF RowsKeep, Opens
  <2>4. i \in Wall!Tokens
    BY <1>2 DEF i
  <2> QED BY <1>1, <1>5, <2>1, <2>3, <2>4 DEF Wall!Kinds
<1>13. ASSUME Wall!Revoked(d) PROVE WallInv'
  BY <1>1, <1>4, <1>5, <1>13, NoToken DEF Wall!Revoked, Wall!Kinds
<1>14. ASSUME NEW list \in SUBSET Wall!Ids, NEW error \in BOOLEAN,
              x3' = [x3 EXCEPT ![d] = [p EXCEPT !.list = list, !.error = error, !.call = Wall!NoCall]],
              UNCHANGED <<x1, x2, x4, x5>>
       PROVE  WallInv'
  <2> DEFINE q == [p EXCEPT !.list = list, !.error = error, !.call = Wall!NoCall]
  <2>1. Wall!NoCall \in [kind : Wall!Kinds, id : Wall!Tokens] /\ Wall!NoCall.kind = "-"
    BY NoToken DEF Wall!NoCall, Wall!Kinds
  <2>2. q \in Wall!Views /\ q.call = Wall!NoCall /\ q.link = p.link
    BY <1>1, <2>1 DEF Wall!Views
  <2>3. x3' = [x3 EXCEPT ![d] = q] /\ UNCHANGED <<x1, x2, x4, x5>>
    BY <1>14
  <2> HIDE DEF q
  <2> QED BY <1>6, <1>7, <2>1, <2>2, <2>3
<1>15. ASSUME Wall!LoadDevices(d) PROVE WallInv'
  <2>1. Wall!Active \subseteq Wall!Ids
    BY <1>1 DEF Wall!Active, Wall!Ids
  <2>2. [p EXCEPT !.list = Wall!Active, !.error = p.error, !.call = Wall!NoCall]
          = [p EXCEPT !.list = Wall!Active, !.call = Wall!NoCall]
    BY <1>1 DEF Wall!Views
  <2>3. x3' = [x3 EXCEPT ![d] = [p EXCEPT !.list = Wall!Active, !.call = Wall!NoCall]] /\ UNCHANGED <<x1, x2, x4, x5>>
    BY <1>1, <1>15 DEF Wall!LoadDevices
  <2> QED BY <1>2, <1>14, <2>1, <2>2, <2>3, Zenon
<1>16. ASSUME Wall!CallFails(d) PROVE WallInv'
  <2>1. [p EXCEPT !.list = p.list, !.error = TRUE, !.call = Wall!NoCall]
          = [p EXCEPT !.error = TRUE, !.call = Wall!NoCall]
    BY <1>1 DEF Wall!Views
  <2>2. x3' = [x3 EXCEPT ![d] = [p EXCEPT !.error = TRUE, !.call = Wall!NoCall]] /\ UNCHANGED <<x1, x2, x4, x5>>
    BY <1>1, <1>16 DEF Wall!CallFails
  <2> QED BY <1>2, <1>14, <2>1, <2>2, Zenon
<1>17. ASSUME Wall!HandleCopy(d) PROVE WallInv'
  <2>1. UNCHANGED <<x1, x2, x3, x5>> /\ x4' = x4 \union {p.link} /\ p.link # Wall!NoId
    BY <1>17 DEF Wall!HandleCopy
  <2>2. p.link \in Wall!Ids /\ x1[p.link].hash = p.link
    BY <1>2, <1>7, <2>1 DEF Opens, Wall!Tokens
  <2> QED BY <1>1, <2>1, <2>2 DEF WallInv, Wall!TypeOK, Wall!LinkInv
<1>18. ASSUME NEW i \in Wall!Ids, Wall!HandleRevoke(d, i) PROVE WallInv'
  BY <1>1, <1>4, <1>5, <1>18, NoToken DEF Wall!HandleRevoke, Wall!Kinds
<1> QED BY <1>8, <1>9, <1>10, <1>11, <1>12, <1>13, <1>15, <1>16, <1>17, <1>18

\* A display that shows what was carried to it, and devices stamped or not.
LEMMA DisplayKeeps ==
    ASSUME WallInv, NEW s \in Screens, NEW q \in Wall!Drawn, x5' = [x5 EXCEPT ![s] = q], UNCHANGED <<x2, x3, x4>>,
           q.token # Wall!NoId => q.token \in x4,
           q.refused => q.token # Wall!NoId /\ x1[q.token].revoked,
           NEW i, i \in Wall!Ids, NEW ok, Wall!Touched(i, ok)
    PROVE  WallInv'
<1>1. /\ x1 \in [Wall!Ids -> Wall!Rows] /\ x5 \in [Screens -> Wall!Drawn] /\ x3 \in [Desks -> Wall!Views]
      /\ x4 \subseteq Wall!Ids
  BY DEF WallInv, Wall!TypeOK
<1>2. /\ [x1[i] EXCEPT !.seen = "lately"] \in Wall!Rows
      /\ [x1[i] EXCEPT !.seen = "lately"].hash = x1[i].hash
      /\ [x1[i] EXCEPT !.seen = "lately"].revoked = x1[i].revoked
  BY <1>1, Zenon DEF Wall!Rows
<1>3. x1' = x1 \/ x1' = [x1 EXCEPT ![i] = [x1[i] EXCEPT !.seen = "lately"]]
  BY DEF Wall!Touched
<1>4. x1' \in [Wall!Ids -> Wall!Rows] /\ \A k \in Wall!Ids : x1'[k].hash = x1[k].hash /\ x1'[k].revoked = x1[k].revoked
  BY <1>1, <1>2, <1>3
<1>5. x5' \in [Screens -> Wall!Drawn] /\ x5'[s] = q /\ \A r \in Screens : r # s => x5'[r] = x5[r]
  BY <1>1
<1>6. Wall!TypeOK'
  BY <1>4, <1>5 DEF WallInv, Wall!TypeOK
<1>7. ASSUME NEW d \in Desks PROVE PanelHolds(x3[d], x1')
  <2>1. PanelHolds(x3[d], x1) /\ x3[d].link \in Wall!Tokens /\ x3[d].call.id \in Wall!Tokens
    BY <1>1, PanelHeld, ViewFields
  <2> QED BY <1>4, <2>1 DEF PanelHolds, Opens, Wall!Tokens
<1>8. ASSUME NEW r \in Screens
      PROVE  /\ x5'[r].token # Wall!NoId => x5'[r].token \in x4
             /\ x5'[r].refused => x5'[r].token # Wall!NoId /\ x1[x5'[r].token].revoked
  BY <1>5 DEF WallInv, Wall!LinkInv
<1>9. \A r \in Screens : x5'[r].refused => x1'[x5'[r].token].revoked
  BY <1>1, <1>4, <1>8
<1>10. \A k \in x4 : x1'[k].hash = k
  BY <1>1, <1>4 DEF WallInv, Wall!LinkInv
<1>11. Wall!LinkInv'
  BY <1>7, <1>8, <1>9, <1>10 DEF Wall!LinkInv, PanelHolds, Opens
<1> QED BY <1>6, <1>11 DEF WallInv

\* The steps of the displays.
LEMMA DisplaysKeep ==
    ASSUME WallInv, NEW s \in Screens,
           Wall!Reload(s) \/ Wall!Hydrate(s) \/ Wall!PingSelf(s) \/ \E i \in Wall!Ids : Wall!OpenLink(s, i)
    PROVE  WallInv'
<1> DEFINE p == x5[s]
<1>1. /\ x1 \in [Wall!Ids -> Wall!Rows] /\ x5 \in [Screens -> Wall!Drawn] /\ x4 \subseteq Wall!Ids /\ p \in Wall!Drawn
  BY DEF WallInv, Wall!TypeOK
<1>2. /\ p.token # Wall!NoId => p.token \in x4 /\ x1[p.token].hash = p.token
      /\ p.refused => p.token # Wall!NoId /\ x1[p.token].revoked
  BY DEF WallInv, Wall!LinkInv
<1>3. /\ p.token \in Wall!Tokens /\ p.named \in BOOLEAN /\ p.fleet \in BOOLEAN /\ p.refused \in BOOLEAN
  BY <1>1 DEF Wall!Drawn
<1>4. ASSUME Wall!Reload(s) PROVE WallInv'
  <2> DEFINE q == [p EXCEPT !.named = FALSE, !.fleet = FALSE, !.refused = FALSE]
  <2>1. x5' = [x5 EXCEPT ![s] = q] /\ UNCHANGED <<x1, x2, x3, x4>>
    BY <1>1, <1>4 DEF Wall!Reload
  <2>2. q \in Wall!Drawn /\ q.token = p.token /\ ~q.refused
    BY <1>1 DEF Wall!Drawn
  <2> HIDE DEF q
  <2>3. CASE p.token # Wall!NoId
    BY <1>1, <1>2, <2>1, <2>2, <2>3, DisplayKeeps DEF Wall!Touched
  <2>4. CASE p.token = Wall!NoId
    BY <1>1, <2>1, <2>2, <2>4 DEF WallInv, Wall!TypeOK, Wall!LinkInv
  <2> QED BY <2>3, <2>4
<1>5. ASSUME NEW i \in Wall!Ids, Wall!OpenLink(s, i) PROVE WallInv'
  <2> DEFINE q == [token |-> i, named |-> FALSE, fleet |-> FALSE, refused |-> FALSE]
  <2>1. x5' = [x5 EXCEPT ![s] = q] /\ UNCHANGED <<x1, x2, x3, x4>> /\ i \in x4
    BY <1>5 DEF Wall!OpenLink
  <2>2. q \in Wall!Drawn /\ q.token = i /\ ~q.refused
    BY NoToken DEF Wall!Drawn
  <2> HIDE DEF q
  <2>3. Wall!Touched(i, FALSE)
    BY <2>1 DEF Wall!Touched
  <2> QED BY <2>1, <2>2, <2>3, DisplayKeeps
<1>6. ASSUME NEW q \in Wall!Drawn, p.token # Wall!NoId, x5' = [x5 EXCEPT ![s] = q],
             q.token = p.token, q.refused = ~Wall!Verified(p.token),
             Wall!Touched(p.token, Wall!Verified(p.token)), UNCHANGED <<x2, x3, x4>>
      PROVE  WallInv'
  <2>1. p.token \in x4 /\ p.token \in Wall!Ids /\ x1[p.token].hash = p.token
    BY <1>1, <1>2, <1>6
  <2>2. ~Wall!Verified(p.token) => x1[p.token].revoked
    BY <2>1 DEF Wall!Verified
  <2> QED BY <1>6, <2>1, <2>2, DisplayKeeps
<1>7. Wall!Verified(p.token) \in BOOLEAN
  BY DEF Wall!Verified
<1>8. ASSUME Wall!Hydrate(s) PROVE WallInv'
  <2>1. PICK drawn \in {Wall!Verified(p.token), FALSE} :
            x5' = [x5 EXCEPT ![s].fleet = drawn, ![s].refused = ~Wall!Verified(p.token)]
    BY <1>8 DEF Wall!Hydrate
  <2>2. drawn \in BOOLEAN
    BY <1>7, <2>1
  <2> DEFINE q == [p EXCEPT !.fleet = drawn, !.refused = ~Wall!Verified(p.token)]
  <2>3. x5' = [x5 EXCEPT ![s] = q]
    BY <1>1, <2>1
  <2>4. q \in Wall!Drawn /\ q.token = p.token /\ q.refused = ~Wall!Verified(p.token)
    BY <1>1, <2>2 DEF Wall!Drawn
  <2>5. /\ p.token # Wall!NoId /\ Wall!Touched(p.token, Wall!Verified(p.token)) /\ UNCHANGED <<x2, x3, x4>>
    BY <1>8 DEF Wall!Hydrate
  <2> HIDE DEF q
  <2> QED BY <1>6, <2>3, <2>4, <2>5
<1>9. ASSUME Wall!PingSelf(s) PROVE WallInv'
  <2> DEFINE q == [p EXCEPT !.named = p.named \/ Wall!Verified(p.token), !.refused = ~Wall!Verified(p.token)]
  <2>1. x5' = [x5 EXCEPT ![s] = q]
    BY <1>1, <1>9 DEF Wall!PingSelf
  <2>2. (p.named \/ Wall!Verified(p.token)) \in BOOLEAN
    OBVIOUS
  <2>3. q \in Wall!Drawn /\ q.token = p.token /\ q.refused = ~Wall!Verified(p.token)
    BY <1>1, <2>2 DEF Wall!Drawn
  <2>4. /\ p.token # Wall!NoId /\ Wall!Touched(p.token, Wall!Verified(p.token)) /\ UNCHANGED <<x2, x3, x4>>
    BY <1>9 DEF Wall!PingSelf
  <2> HIDE DEF q
  <2> QED BY <1>6, <2>1, <2>3, <2>4
<1> QED BY <1>4, <1>5, <1>8, <1>9

\* Every step keeps the invariant.
LEMMA WallNext == WallInv /\ [Wall!Next]_(Wall!vars) => WallInv'
<1> SUFFICES ASSUME WallInv, [Wall!Next]_(Wall!vars) PROVE WallInv'
  OBVIOUS
<1>1. CASE UNCHANGED Wall!vars
  BY <1>1 DEF Wall!vars, WallInv, Wall!TypeOK, Wall!LinkInv
<1>2. CASE Wall!Panels
  BY <1>2, PanelsKeep DEF Wall!Panels
<1>3. CASE Wall!Displays
  BY <1>3, DisplaysKeep DEF Wall!Displays
<1>4. ASSUME NEW i \in Wall!Ids, Wall!GoesStale(i) PROVE WallInv'
  <2>1. x1' = [x1 EXCEPT ![i] = [x1[i] EXCEPT !.seen = "long ago"]] /\ UNCHANGED <<x2, x3, x4, x5>>
    BY <1>4, Zenon DEF Wall!GoesStale
  <2>2. x1 \in [Wall!Ids -> Wall!Rows] /\ x3 \in [Desks -> Wall!Views] /\ x4 \subseteq Wall!Ids
    BY DEF WallInv, Wall!TypeOK
  <2>3. /\ [x1[i] EXCEPT !.seen = "long ago"] \in Wall!Rows
        /\ [x1[i] EXCEPT !.seen = "long ago"].hash = x1[i].hash
        /\ [x1[i] EXCEPT !.seen = "long ago"].revoked = x1[i].revoked
    BY <2>2, Zenon DEF Wall!Rows
  <2>4. /\ x1' \in [Wall!Ids -> Wall!Rows]
        /\ \A k \in Wall!Ids : x1'[k].hash = x1[k].hash /\ x1'[k].revoked = x1[k].revoked
    BY <2>1, <2>2, <2>3, Zenon
  <2>5. ASSUME NEW d \in Desks PROVE PanelHolds(x3[d], x1')
    <3>1. PanelHolds(x3[d], x1) /\ x3[d].link \in Wall!Tokens /\ x3[d].call.id \in Wall!Tokens
      BY <2>2, PanelHeld, ViewFields
    <3> QED BY <2>4, <3>1 DEF PanelHolds, Opens, Wall!Tokens
  <2>6. \A k \in x4 : x1'[k].hash = k
    BY <2>2, <2>4 DEF WallInv, Wall!LinkInv
  <2>7. ASSUME NEW r \in Screens
        PROVE  /\ x5[r].token # Wall!NoId => x5[r].token \in x4
               /\ x5[r].refused => x5[r].token # Wall!NoId /\ x1'[x5[r].token].revoked
    BY <2>2, <2>4 DEF WallInv, Wall!LinkInv
  <2>8. Wall!LinkInv'
    BY <2>1, <2>5, <2>6, <2>7, Zenon DEF Wall!LinkInv, PanelHolds, Opens
  <2> QED BY <2>1, <2>4, <2>8, Zenon DEF WallInv, Wall!TypeOK
<1> QED BY <1>1, <1>2, <1>3, <1>4 DEF Wall!Next

\* WallDisplaysPanel.tsx: a link that is shown opens, until it is revoked.
LEMMA LinksOpen == WallInv => Wall!ShownLinkOpens
<1> SUFFICES ASSUME WallInv PROVE Wall!ShownLinkOpens
  OBVIOUS
<1> QED BY DEF WallInv, Wall!LinkInv, Wall!ShownLinkOpens, Wall!Verified

-----------------------------------------------------------------------------
(* StaffAccount: the second factor:
   x1 row, x2 app, x3 sheets, x4 spent, x5 tabs, x6 sent. *)

\* Rows and tabs with their fields, whatever these hold.
Shapes(V) == [screen : V, since : V, menu : V, qr : V, told : V, call : [kind : V, at : V, typed : V, got : V]]
RowShapes(V) == [secret : V, pending : V, made : V, hashes : V, changes : V]

\* The inductive invariant of the second factor.
StaffInv ==
    /\ \E V : x5 \in [Tabs -> Shapes(V)] /\ x1 \in RowShapes(V)
    /\ Staff!EnabledIsScanned /\ Staff!ScanInv

\* It holds at first.
LEMMA StaffInit == Staff!Init => StaffInv
<1> SUFFICES ASSUME Staff!Init PROVE StaffInv
  OBVIOUS
<1> DEFINE V == {"password", "closed", 0, "-", {}}
<1>1. Staff!SignedOut \in Shapes(V)
  BY DEF Shapes, Staff!SignedOut, Staff!NoCall, Staff!None
<1>2. x5 \in [Tabs -> Shapes(V)] /\ x1 \in RowShapes(V)
  BY <1>1 DEF Staff!Init, RowShapes, Staff!None
<1>3. \A t \in Tabs : x5[t].call.kind = "-"
  BY DEF Staff!Init, Staff!SignedOut, Staff!NoCall
<1> QED BY <1>2, <1>3 DEF StaffInv, Staff!Init, Staff!EnabledIsScanned, Staff!ScanInv, Staff!At

\* What a request for a confirmation holds.
Scanned(p, scanned) ==
    p.call.kind = "confirm" => /\ p.call.at = "sent" => p.call.typed \in scanned
                               /\ p.call.at = "checked" => p.call.got \in scanned

\* What fits some values fits more.
LEMMA Wider == ASSUME NEW V, NEW W, V \subseteq W
    PROVE Shapes(V) \subseteq Shapes(W) /\ RowShapes(V) \subseteq RowShapes(W)
BY DEF Shapes, RowShapes

\* A step of one tab.
LEMMA TabKeeps ==
    ASSUME StaffInv, NEW t \in Tabs, NEW W, NEW q \in Shapes(W), x5' = [x5 EXCEPT ![t] = q],
           NEW r \in RowShapes(W), x1' = r,
           x2 \subseteq x2', r.secret # Staff!None => r.secret \in x2', Scanned(q, x2')
    PROVE  StaffInv'
<1>1. PICK V : x5 \in [Tabs -> Shapes(V)]
  BY DEF StaffInv
<1> DEFINE U == V \union W
<1>2. Shapes(V) \subseteq Shapes(U) /\ Shapes(W) \subseteq Shapes(U) /\ RowShapes(W) \subseteq RowShapes(U)
  <2>1. V \subseteq U /\ W \subseteq U
    OBVIOUS
  <2> HIDE DEF U
  <2> QED BY <2>1, Wider
<1> HIDE DEF U
<1>3. x5' \in [Tabs -> Shapes(U)] /\ x1' \in RowShapes(U)
  BY <1>1, <1>2
<1>4. x5'[t] = q /\ \A u \in Tabs : u # t => x5'[u] = x5[u]
  BY <1>1
<1>5. Staff!EnabledIsScanned'
  BY DEF Staff!EnabledIsScanned
<1>6. Staff!ScanInv'
  BY <1>4 DEF StaffInv, Staff!ScanInv, Staff!At, Scanned
<1> QED BY <1>3, <1>5, <1>6 DEF StaffInv

\* Every step keeps the invariant.
LEMMA StaffNext == StaffInv /\ [Staff!Next]_(Staff!vars) => StaffInv'
<1> SUFFICES ASSUME StaffInv, [Staff!Next]_(Staff!vars) PROVE StaffInv'
  OBVIOUS
<1>1. CASE UNCHANGED Staff!vars
  BY <1>1 DEF Staff!vars, StaffInv, Staff!EnabledIsScanned, Staff!ScanInv, Staff!At
<1>2. SUFFICES ASSUME NEW t \in Tabs,
        \/ Staff!Login(t) \/ Staff!VerifyMfa(t) \/ Staff!CancelMfa(t) \/ Staff!OpenMenu(t) \/ Staff!CloseMenu(t)
        \/ Staff!StartEnroll(t) \/ Staff!Scan(t)
        \/ Staff!HandleConfirm(t) \/ Staff!Presses(t) \/ Staff!HandleDisable(t) \/ Staff!ChangePassword(t) \/ Staff!Logout(t)
        \/ Staff!Reads(t) \/ Staff!Enrolled(t) \/ Staff!ConfirmChecked(t) \/ Staff!Confirmed(t)
        \/ \E right \in BOOLEAN : Staff!PasswordChecked(t, right)
        \/ Staff!Disabled(t) \/ Staff!PasswordChanged(t) \/ Staff!CodeChecked(t) \/ Staff!RecoveryChecked(t)
        \/ Staff!RecoverySpent(t)
        \/ Staff!Fails(t) \/ Staff!TokenExpired(t) \/ Staff!Refused(t) \/ Staff!Failed(t) \/ Staff!SignsIn(t)
        \/ Staff!Answered(t)
      PROVE StaffInv'
  BY <1>1 DEF Staff!Next
<1> DEFINE p == x5[t]
<1>3. PICK V : x5 \in [Tabs -> Shapes(V)] /\ x1 \in RowShapes(V)
  BY DEF StaffInv
<1>4. p \in Shapes(V) /\ Scanned(p, x2)
  BY <1>3 DEF StaffInv, Staff!ScanInv, Staff!At, Scanned
<1>5. x1.secret # Staff!None => x1.secret \in x2
  BY DEF StaffInv, Staff!EnabledIsScanned
\* The row as it was, the authenticator too.
<1>6. ASSUME NEW W, V \subseteq W, NEW q \in Shapes(W), x5' = [x5 EXCEPT ![t] = q], UNCHANGED <<x1, x2>>, Scanned(q, x2)
      PROVE  StaffInv'
  <2>1. x1 \in RowShapes(W)
    BY <1>3, <1>6, Wider
  <2> QED BY <1>5, <1>6, <2>1, TabKeeps
<1>7. ASSUME NEW kind, NEW typed, NEW menu, Staff!Send(t, kind, typed, menu), kind = "confirm" => typed \in x2
      PROVE  StaffInv'
  <2> DEFINE q == [p EXCEPT !.menu = menu, !.call = [kind |-> kind, at |-> "sent", typed |-> typed, got |-> Staff!None]]
             W == V \union {kind, typed, menu, "sent", Staff!None}
  <2>1. x5' = [x5 EXCEPT ![t] = q] /\ UNCHANGED <<x1, x2>>
    BY <1>3, <1>7 DEF Staff!Send
  <2>2. p \in Shapes(W) /\ V \subseteq W
    BY <1>4, Wider
  <2>3. {kind, typed, menu, "sent", Staff!None} \subseteq W
    OBVIOUS
  <2> HIDE DEF W
  <2>4. q \in Shapes(W)
    BY <2>2, <2>3 DEF Shapes
  <2>5. q.call.kind = kind /\ q.call.at = "sent" /\ q.call.typed = typed
    BY <2>2 DEF Shapes
  <2> HIDE DEF q
  <2>6. Scanned(q, x2)
    BY <1>7, <2>5 DEF Scanned
  <2> QED BY <1>6, <2>1, <2>2, <2>4, <2>6
<1>8. ASSUME Staff!Login(t) \/ Staff!OpenMenu(t) \/ Staff!StartEnroll(t) \/ Staff!HandleDisable(t) \/ Staff!ChangePassword(t)
      PROVE  StaffInv'
  <2>1. PICK kind, menu : kind \in {"login", "me", "enroll", "disable", "password"} /\ Staff!Send(t, kind, Staff!None, menu)
    BY <1>8 DEF Staff!Login, Staff!OpenMenu, Staff!StartEnroll, Staff!HandleDisable, Staff!ChangePassword
  <2> QED BY <1>7, <2>1
<1>9. ASSUME Staff!VerifyMfa(t) PROVE StaffInv'
  <2>1. PICK kind, typed : kind \in {"code", "recovery"} /\ Staff!Send(t, kind, typed, "closed")
    BY <1>9 DEF Staff!VerifyMfa
  <2> QED BY <1>7, <2>1
<1>10. ASSUME Staff!HandleConfirm(t) PROVE StaffInv'
  BY <1>7, <1>10 DEF Staff!HandleConfirm
<1>11. Staff!SignedOut \in Shapes(V \union {"password", 0, "closed", "-"})
  BY DEF Staff!SignedOut, Staff!NoCall, Staff!None, Shapes
<1>12. ASSUME Staff!CancelMfa(t) \/ Staff!Logout(t) PROVE StaffInv'
  <2>1. x5' = [x5 EXCEPT ![t] = Staff!SignedOut] /\ UNCHANGED <<x1, x2>>
    BY <1>12 DEF Staff!CancelMfa, Staff!Logout
  <2>2. Scanned(Staff!SignedOut, x2)
    BY DEF Scanned, Staff!SignedOut, Staff!NoCall
  <2> QED BY <1>6, <1>11, <2>1, <2>2
\* What leaves the request alone.
<1>13. ASSUME NEW menu, NEW qr, x5' = [x5 EXCEPT ![t].menu = menu, ![t].qr = qr], UNCHANGED <<x1, x2>> PROVE StaffInv'
  <2> DEFINE q == [p EXCEPT !.menu = menu, !.qr = qr]
             W == V \union {menu, qr}
  <2>1. p \in Shapes(W) /\ V \subseteq W /\ menu \in W /\ qr \in W
    BY <1>4, Wider
  <2> HIDE DEF W
  <2>2. q \in Shapes(W) /\ q.call = p.call
    BY <2>1 DEF Shapes
  <2>3. x5' = [x5 EXCEPT ![t] = q]
    BY <1>3, <1>13
  <2> HIDE DEF q
  <2> QED BY <1>4, <1>6, <1>13, <2>1, <2>2, <2>3 DEF Scanned
<1>14. ASSUME Staff!CloseMenu(t) PROVE StaffInv'
  BY <1>13, <1>14 DEF Staff!CloseMenu
<1>15. ASSUME Staff!Presses(t) PROVE StaffInv'
  <2>1. PICK menu : x5' = [x5 EXCEPT ![t].menu = menu] /\ UNCHANGED <<x1, x2>>
    BY <1>15 DEF Staff!Presses, Staff!Press
  <2>2. [x5 EXCEPT ![t].menu = menu] = [x5 EXCEPT ![t].menu = menu, ![t].qr = p.qr]
    BY <1>3 DEF Shapes
  <2> QED BY <1>13, <2>1, <2>2
<1>16. ASSUME Staff!Scan(t) PROVE StaffInv'
  <2>1. UNCHANGED <<x1, x5>> /\ x2 \subseteq x2'
    BY <1>16 DEF Staff!Scan
  <2> QED BY <2>1 DEF StaffInv, Staff!EnabledIsScanned, Staff!ScanInv, Staff!At
\* The handlers.
<1>17. ASSUME NEW at, NEW got, Staff!Goto(t, at, got), x2' = x2, NEW W, V \subseteq W, at \in W, got \in W,
              x1' \in RowShapes(W), x1'.secret # Staff!None => x1'.secret \in x2,
              p.call.kind = "confirm" => at # "sent" /\ (at = "checked" => got \in x2)
       PROVE  StaffInv'
  <2> DEFINE q == [p EXCEPT !.call.at = at, !.call.got = got]
  <2>1. x5' = [x5 EXCEPT ![t] = q]
    BY <1>3, <1>17 DEF Staff!Goto
  <2>2. p \in Shapes(W)
    BY <1>4, <1>17, Wider
  <2>3. q \in Shapes(W)
    BY <1>17, <2>2 DEF Shapes
  <2>4. q.call.kind = p.call.kind /\ q.call.at = at /\ q.call.got = got
    BY <2>2 DEF Shapes
  <2> HIDE DEF q
  <2>5. Scanned(q, x2)
    BY <1>17, <2>4 DEF Scanned
  <2> QED BY <1>17, <2>1, <2>3, <2>5, TabKeeps
<1>18. ASSUME NEW at, NEW got, Staff!Goto(t, at, got), UNCHANGED <<x1, x2>>,
              p.call.kind = "confirm" => at # "sent" /\ (at = "checked" => got \in x2)
       PROVE  StaffInv'
  <2> DEFINE W == V \union {at, got}
  <2>1. V \subseteq W /\ at \in W /\ got \in W
    OBVIOUS
  <2> HIDE DEF W
  <2>2. x1 \in RowShapes(W)
    BY <1>3, <2>1, Wider
  <2> QED BY <1>5, <1>17, <1>18, <2>1, <2>2
<1>19. ASSUME Staff!Reads(t) \/ Staff!CodeChecked(t) \/ Staff!RecoveryChecked(t) \/ Staff!Fails(t) \/ Staff!TokenExpired(t)
       PROVE  StaffInv'
  <2>1. PICK at, got :
            /\ at \in {"done", "refused", "checked", "failed"}
            /\ Staff!Goto(t, at, got) /\ UNCHANGED <<x1, x2>>
            /\ p.call.kind = "confirm" => at # "checked"
    BY <1>19 DEF Staff!Reads, Staff!CodeChecked, Staff!RecoveryChecked, Staff!Fails, Staff!TokenExpired, Staff!At
  <2> QED BY <1>18, <2>1
<1>20. ASSUME Staff!ConfirmChecked(t) PROVE StaffInv'
  <2>1. UNCHANGED <<x1, x2>> /\ p.call.kind = "confirm" /\ p.call.at = "sent" /\ p.call.typed \in x2
    BY <1>4, <1>20 DEF Staff!ConfirmChecked, Staff!At, Scanned
  <2>2. \/ Staff!Goto(t, "failed", Staff!None) \/ Staff!Goto(t, "refused", Staff!None)
        \/ Staff!Goto(t, "checked", p.call.typed)
    BY <1>20 DEF Staff!ConfirmChecked
  <2> QED BY <1>18, <2>1, <2>2
<1>21. ASSUME NEW right \in BOOLEAN, Staff!PasswordChecked(t, right) PROVE StaffInv'
  <2>1. PICK at \in {"refused", "checked"} :
            Staff!Goto(t, at, Staff!None) /\ UNCHANGED <<x1, x2>> /\ p.call.kind # "confirm"
    BY <1>21 DEF Staff!PasswordChecked, Staff!At
  <2> QED BY <1>18, <2>1
\* Those that write the row.
<1>22. ASSUME NEW at \in {"done"}, NEW got, Staff!Goto(t, at, got), x2' = x2, NEW r, x1' = r, \E W : r \in RowShapes(W),
              r.secret # Staff!None => r.secret \in x2
       PROVE  StaffInv'
  <2>1. PICK U : r \in RowShapes(U)
    BY <1>22
  <2> DEFINE W == (V \union U) \union {at, got}
  <2>2. V \subseteq W /\ U \subseteq W /\ at \in W /\ got \in W
    OBVIOUS
  <2> HIDE DEF W
  <2>3. r \in RowShapes(W)
    BY <2>1, <2>2, Wider
  <2> QED BY <1>17, <1>22, <2>2, <2>3
<1>23. ASSUME Staff!Enrolled(t) PROVE StaffInv'
  <2> DEFINE n == x1.made + 1
             r == [x1 EXCEPT !.made = n, !.pending = n]
             W == V \union {n}
  <2>1. x1' = r /\ Staff!Goto(t, "done", n) /\ x2' = x2
    BY <1>23 DEF Staff!Enrolled
  <2>2. x1 \in RowShapes(W) /\ n \in W
    BY <1>3, Wider
  <2> HIDE DEF W, n
  <2>3. r \in RowShapes(W) /\ r.secret = x1.secret
    BY <2>2 DEF RowShapes
  <2> HIDE DEF r
  <2> QED BY <1>5, <1>22, <2>1, <2>3
<1>24. ASSUME Staff!PasswordChanged(t) PROVE StaffInv'
  <2> DEFINE n == x1.changes + 1
             r == [x1 EXCEPT !.changes = n]
             W == V \union {n}
  <2>1. x1' = r /\ Staff!Goto(t, "done", n) /\ x2' = x2
    BY <1>24 DEF Staff!PasswordChanged
  <2>2. x1 \in RowShapes(W) /\ n \in W
    BY <1>3, Wider
  <2> HIDE DEF W, n
  <2>3. r \in RowShapes(W) /\ r.secret = x1.secret
    BY <2>2 DEF RowShapes
  <2> HIDE DEF r
  <2> QED BY <1>5, <1>22, <2>1, <2>3
<1>34. ASSUME Staff!RecoverySpent(t) PROVE StaffInv'
  <2> DEFINE n == p.call.got
             r == [x1 EXCEPT !.hashes = n]
             W == V \union {n}
  <2>1. x1' = r /\ Staff!Goto(t, "done", Staff!None) /\ x2' = x2
    BY <1>34 DEF Staff!RecoverySpent
  <2>2. x1 \in RowShapes(W) /\ n \in W
    BY <1>3, Wider
  <2> HIDE DEF W, n
  <2>3. r \in RowShapes(W) /\ r.secret = x1.secret
    BY <2>2 DEF RowShapes
  <2> HIDE DEF r
  <2> QED BY <1>5, <1>22, <2>1, <2>3
<1>25. ASSUME Staff!Disabled(t) PROVE StaffInv'
  <2> DEFINE r == [x1 EXCEPT !.secret = Staff!None, !.pending = Staff!None, !.hashes = {}]
             W == V \union {Staff!None, {}}
  <2>1. x1' = r /\ Staff!Goto(t, "done", Staff!None) /\ x2' = x2
    BY <1>25 DEF Staff!Disabled
  <2>2. x1 \in RowShapes(W) /\ Staff!None \in W /\ {} \in W
    BY <1>3, Wider
  <2> HIDE DEF W
  <2>3. r \in RowShapes(W) /\ r.secret = Staff!None
    BY <2>2 DEF RowShapes
  <2> HIDE DEF r
  <2> QED BY <1>22, <2>1, <2>3
<1>26. ASSUME Staff!Confirmed(t) PROVE StaffInv'
  <2>1. PICK hashes, got : /\ x1' = [x1 EXCEPT !.secret = p.call.got, !.pending = Staff!None, !.hashes = hashes]
                           /\ Staff!Goto(t, "done", got) /\ x2' = x2
    BY <1>26, Zenon DEF Staff!Confirmed, Staff!Secret
  <2> DEFINE n == p.call.got
             r == [x1 EXCEPT !.secret = n, !.pending = Staff!None, !.hashes = hashes]
             W == V \union {Staff!None, hashes, n}
  <2>2. x1' = r
    BY <2>1
  <2>3. n \in x2
    BY <1>4, <1>26 DEF Staff!Confirmed, Staff!At, Scanned
  <2>4. x1 \in RowShapes(W) /\ {Staff!None, hashes, n} \subseteq W
    BY <1>3, Wider
  <2> HIDE DEF W, n
  <2>5. r \in RowShapes(W) /\ r.secret = n
    BY <2>4 DEF RowShapes
  <2> HIDE DEF r
  <2> QED BY <1>22, <2>1, <2>2, <2>3, <2>5
\* What the tab makes of its answer: no request is under way any more.
<1>27. ASSUME NEW W, V \subseteq W, NEW q \in Shapes(W), q.call = Staff!NoCall,
              x5' = [x5 EXCEPT ![t] = q], UNCHANGED <<x1, x2>>
       PROVE  StaffInv'
  <2>1. Staff!NoCall.kind = "-"
    BY DEF Staff!NoCall
  <2>2. Scanned(q, x2)
    BY <1>27, <2>1 DEF Scanned
  <2> QED BY <1>6, <1>27, <2>2
<1>28. ASSUME NEW menu, NEW qr, NEW said, NEW since,
              x5' = [x5 EXCEPT ![t] = [p EXCEPT !.call = Staff!NoCall, !.menu = menu, !.qr = qr, !.told = said, !.since = since]],
              UNCHANGED <<x1, x2>>
       PROVE  StaffInv'
  <2> DEFINE q == [p EXCEPT !.call = Staff!NoCall, !.menu = menu, !.qr = qr, !.told = said, !.since = since]
             W == V \union {menu, qr, said, since, "-", Staff!None}
  <2>1. p \in Shapes(W) /\ V \subseteq W /\ {menu, qr, said, since, "-", Staff!None} \subseteq W
    BY <1>4, Wider
  <2> HIDE DEF W
  <2>2. Staff!NoCall \in [kind : W, at : W, typed : W, got : W]
    BY <2>1 DEF Staff!NoCall
  <2>3. q \in Shapes(W) /\ q.call = Staff!NoCall
    BY <2>1, <2>2 DEF Shapes
  <2>4. x5' = [x5 EXCEPT ![t] = q]
    BY <1>28
  <2> HIDE DEF q
  <2> QED BY <1>27, <1>28, <2>1, <2>3, <2>4
<1>29. ASSUME x5' = [x5 EXCEPT ![t] = Staff!SignedOut], UNCHANGED <<x1, x2>> PROVE StaffInv'
  <2>1. Staff!SignedOut.call = Staff!NoCall
    BY DEF Staff!SignedOut
  <2> QED BY <1>11, <1>27, <1>29, <2>1
<1>35. ASSUME NEW menu, x5' = [x5 EXCEPT ![t] = [p EXCEPT !.call = Staff!NoCall, !.menu = menu]], UNCHANGED <<x1, x2>>
       PROVE  StaffInv'
  <2> DEFINE q == [p EXCEPT !.call = Staff!NoCall, !.menu = menu]
             W == V \union {menu, "-", Staff!None}
  <2>1. p \in Shapes(W) /\ V \subseteq W /\ {menu, "-", Staff!None} \subseteq W
    BY <1>4, Wider
  <2> HIDE DEF W
  <2>2. Staff!NoCall \in [kind : W, at : W, typed : W, got : W]
    BY <2>1 DEF Staff!NoCall
  <2>3. q \in Shapes(W) /\ q.call = Staff!NoCall
    BY <2>1, <2>2 DEF Shapes
  <2>4. x5' = [x5 EXCEPT ![t] = q]
    BY <1>35
  <2> HIDE DEF q
  <2> QED BY <1>27, <1>35, <2>1, <2>3, <2>4
<1>30. ASSUME Staff!Refused(t) PROVE StaffInv'
  <2>1. (x5' = [x5 EXCEPT ![t] = [p EXCEPT !.call = Staff!NoCall]] \/ x5' = [x5 EXCEPT ![t] = Staff!SignedOut])
        /\ UNCHANGED <<x1, x2>>
    BY <1>3, <1>30 DEF Staff!Refused
  <2>2. [p EXCEPT !.call = Staff!NoCall] = [p EXCEPT !.call = Staff!NoCall, !.menu = p.menu]
    BY <1>4 DEF Shapes
  <2> QED BY <1>29, <1>35, <2>1, <2>2, Zenon
<1>31. ASSUME Staff!Failed(t) PROVE StaffInv'
  <2>1. PICK menu : x5' = [x5 EXCEPT ![t].call = Staff!NoCall, ![t].menu = menu] /\ UNCHANGED <<x1, x2>>
    BY <1>31 DEF Staff!Failed
  <2>2. x5' = [x5 EXCEPT ![t] = [p EXCEPT !.call = Staff!NoCall, !.menu = menu]]
    BY <1>3, <2>1
  <2> QED BY <1>35, <2>1, <2>2, Zenon
<1>32. ASSUME Staff!SignsIn(t) PROVE StaffInv'
  <2> DEFINE a == [Staff!SignedOut EXCEPT !.screen = "code"]
             b == [Staff!SignedOut EXCEPT !.screen = "board", !.since = x1.changes]
             W == V \union {"password", 0, "closed", "-", "code", "board", x1.changes}
  <2>1. (x5' = [x5 EXCEPT ![t] = a] \/ x5' = [x5 EXCEPT ![t] = b]) /\ UNCHANGED <<x1, x2>>
    BY <1>3, <1>32 DEF Staff!SignsIn
  <2>2. a.call = Staff!NoCall /\ b.call = Staff!NoCall /\ a \in Shapes(W) /\ b \in Shapes(W) /\ V \subseteq W
    BY DEF Staff!SignedOut, Staff!NoCall, Staff!None, Shapes
  <2> HIDE DEF a, b, W
  <2> QED BY <1>27, <2>1, <2>2
<1>33. ASSUME Staff!Answered(t) PROVE StaffInv'
  <2> DEFINE c == x5[t].call
             open == x5[t].menu # "closed"
             menu == CASE ~open -> x5[t].menu
                       [] c.kind = "me" -> IF c.got = Staff!None THEN "off" ELSE "on"
                       [] c.kind = "enroll" -> "confirming"
                       [] c.kind = "confirm" -> "recovery-codes"
                       [] c.kind = "disable" -> "off"
                       [] OTHER -> x5[t].menu
             qr == IF open /\ c.kind = "enroll" THEN c.got ELSE p.qr
             said == IF open /\ c.kind = "password" THEN c.got ELSE p.told
             since == IF c.kind = "password" THEN c.got ELSE p.since
  <2>1. UNCHANGED <<x1, x2>>
    BY <1>33 DEF Staff!Answered
  <2>2. x5' = [x5 EXCEPT ![t].call = Staff!NoCall, ![t].menu = menu, ![t].qr = qr, ![t].told = said, ![t].since = since]
    BY <1>3, <1>4, <1>33 DEF Staff!Answered, Shapes
  <2> HIDE DEF menu, qr, said, since
  <2>3. x5' = [x5 EXCEPT ![t] = [p EXCEPT !.call = Staff!NoCall, !.menu = menu, !.qr = qr, !.told = said, !.since = since]]
    BY <1>3, <1>4, <2>2 DEF Shapes
  <2> QED BY <1>28, <2>1, <2>3, Zenon
<1> QED BY <1>2, <1>8, <1>9, <1>10, <1>12, <1>14, <1>15, <1>16, <1>19, <1>20, <1>21, <1>24, <1>25, <1>26,
           <1>23, <1>30, <1>31, <1>32, <1>33, <1>34

\* A secret that is on was scanned, and confirmed with its own code.
LEMMA SecondFactorScanned == StaffInv => Staff!EnabledIsScanned
BY DEF StaffInv

-----------------------------------------------------------------------------
(* Roster: invitations, codes and trucks:
   x1 invited, x2 holder, x3 open, x4 issued, x5 job, x6 admins, x7 tx, x8 left, x9 held,
   x10 need. *)

\* What has to be true of an admin's request and the rows it has locked.
AdminHolds(p, h, n, holder, open) ==
    /\ p.at = "idle" => h = {} /\ n = {}
    /\ p.at = "driver" => Ros!User \in h \union n
    /\ p.at \in {"truck", "codes", "commit"} => Ros!User \in h
    /\ p.at = "commit" => open \subseteq p.closing
    /\ p.at = "truck" => p.truck # NoOne
    /\ p.at \in {"assign", "delete", "count", "drop"} => p.truck \in Trucks
    /\ p.at \in {"truck", "assign", "drop"} => Ros!Truck(p.truck) \in h \union n
    /\ p.at \in {"codes", "commit"} /\ p.truck # NoOne => Ros!Truck(p.truck) \in h /\ holder[p.truck] = NoOne

\* The inductive invariant of the roster.
RosterInv ==
    /\ Ros!TypeOK /\ Ros!LatestCodeWorks
    /\ \A a, b \in Managers : a # b => x9[a] \intersect x9[b] = {}
    /\ \A a \in Managers : AdminHolds(x7[a], x9[a], x10[a], x2, x3)

\* The fields of a request.
LEMMA RequestFields == ASSUME NEW p \in Ros!Requests
    PROVE /\ p.at \in Ros!Places /\ p.truck \in Trucks \union {NoOne} /\ p.driver \in {NoOne, Invited, Other}
          /\ p.whom \in Managers \union {NoOne} /\ p.found \in BOOLEAN /\ p.closing \in SUBSET (1..MaxCodes)
BY DEF Ros!Requests, Ros!Admins

\* No request is one.
LEMMA IdleRequest == Ros!Idle \in Ros!Requests /\ Ros!Idle.at = "idle"
BY DEF Ros!Idle, Ros!Requests, Ros!Places, Ros!Admins

\* The invariant holds at first.
LEMMA RosterInit == Ros!Init => RosterInv
<1> SUFFICES ASSUME Ros!Init PROVE RosterInv
  OBVIOUS
<1>1. Ros!TypeOK
  BY BoundsAssumption, IdleRequest DEF Ros!Init, Ros!TypeOK, Ros!NoLocks, Ros!Admins
<1>2. \A a \in Managers : x7[a].at = "idle" /\ x9[a] = {} /\ x10[a] = {}
  BY IdleRequest DEF Ros!Init, Ros!NoLocks, Ros!Admins
<1> QED BY <1>1, <1>2 DEF RosterInv, AdminHolds, Ros!Init, Ros!LatestCodeWorks

\* A request's step, whatever it does to the tables.
LEMMA RequestKeeps ==
    ASSUME RosterInv, NEW a \in Managers, NEW q \in Ros!Requests, NEW h \in SUBSET Ros!Rows, NEW n \in SUBSET Ros!Rows,
           x7' = [x7 EXCEPT ![a] = q], x9' = [x9 EXCEPT ![a] = h], x10' = [x10 EXCEPT ![a] = n],
           \A b \in Managers : b # a => x9[b] \intersect h = {},
           AdminHolds(q, h, n, x2', x3'),
           \A b \in Managers : b # a => AdminHolds(x7[b], x9[b], x10[b], x2', x3'),
           x1' \in {"unknown", "invited", "accepted", "onboarded"},
           x2' \in [Trucks -> {NoOne, Invited, Other, "gone"}],
           x3' \subseteq 1..MaxCodes, x4' \in 0..MaxCodes, x3' \subseteq {x4'},
           x5' \in [truck : Trucks \union {NoOne}, live : BOOLEAN], x6' \subseteq Managers,
           x8' \in [Managers -> 0..MaxPresses]
    PROVE  RosterInv'
<1>1. /\ x7 \in [Managers -> Ros!Requests] /\ x9 \in [Managers -> SUBSET Ros!Rows] /\ x10 \in [Managers -> SUBSET Ros!Rows]
  BY DEF RosterInv, Ros!TypeOK, Ros!Admins
<1>2. /\ x7' \in [Managers -> Ros!Requests] /\ x9' \in [Managers -> SUBSET Ros!Rows] /\ x10' \in [Managers -> SUBSET Ros!Rows]
      /\ x7'[a] = q /\ x9'[a] = h /\ x10'[a] = n
      /\ \A b \in Managers : b # a => x7'[b] = x7[b] /\ x9'[b] = x9[b] /\ x10'[b] = x10[b]
  BY <1>1
<1>3. Ros!TypeOK'
  BY <1>2 DEF Ros!TypeOK, Ros!Admins
<1>4. \A b, c \in Managers : b # c => x9'[b] \intersect x9'[c] = {}
  <2> SUFFICES ASSUME NEW b \in Managers, NEW c \in Managers, b # c PROVE x9'[b] \intersect x9'[c] = {}
    OBVIOUS
  <2>1. b # a /\ c # a => x9[b] \intersect x9[c] = {}
    BY DEF RosterInv
  <2>2. CASE b = a
    BY <1>2, <2>2
  <2>3. CASE c = a
    BY <1>2, <2>3
  <2> QED BY <1>2, <2>1, <2>2, <2>3
<1>5. \A b \in Managers : AdminHolds(x7'[b], x9'[b], x10'[b], x2', x3')
  BY <1>2
<1>6. Ros!LatestCodeWorks'
  BY DEF Ros!LatestCodeWorks
<1> QED BY <1>3, <1>4, <1>5, <1>6 DEF RosterInv

\* The types of the tables and of the locks.
LEMMA RosterTyped == ASSUME RosterInv
    PROVE /\ x1 \in {"unknown", "invited", "accepted", "onboarded"}
          /\ x2 \in [Trucks -> {NoOne, Invited, Other, "gone"}]
          /\ x3 \subseteq 1..MaxCodes /\ x4 \in 0..MaxCodes /\ x3 \subseteq {x4}
          /\ x5 \in [truck : Trucks \union {NoOne}, live : BOOLEAN] /\ x6 \subseteq Managers
          /\ x8 \in [Managers -> 0..MaxPresses]
          /\ x7 \in [Managers -> Ros!Requests] /\ x9 \in [Managers -> SUBSET Ros!Rows] /\ x10 \in [Managers -> SUBSET Ros!Rows]
          /\ \A a \in Managers : AdminHolds(x7[a], x9[a], x10[a], x2, x3)
          /\ \A a, b \in Managers : a # b => x9[a] \intersect x9[b] = {}
BY DEF RosterInv, Ros!TypeOK, Ros!LatestCodeWorks, Ros!Admins

\* A statement that runs: what it waited for is locked, and nobody else has it.
LEMMA Ran ==
    ASSUME RosterInv, NEW a \in Managers, Ros!Granted(a)
    PROVE  \A b \in Managers : b # a => x9[b] \intersect (x9[a] \union x10[a]) = {}
<1> SUFFICES ASSUME NEW b \in Managers, b # a, NEW r \in x9[b], r \in x9[a] \union x10[a] PROVE FALSE
  OBVIOUS
<1>1. r \in x9[a] => FALSE
  BY RosterTyped
<1>2. r \in x10[a] => FALSE
  BY DEF Ros!Granted, Ros!HeldByOther
<1> QED BY <1>1, <1>2

\* The next statement asks for its rows, and the tables are as they were.
LEMMA AskKeeps ==
    ASSUME RosterInv, NEW a \in Managers, NEW q \in Ros!Requests, NEW rows \in SUBSET Ros!Rows,
           x7' = [x7 EXCEPT ![a] = q], Ros!Ask(a, rows), UNCHANGED <<x1, x2, x3, x4, x5, x6>>,
           x8' \in [Managers -> 0..MaxPresses],
           \A b \in Managers : b # a => x9[b] \intersect (x9[a] \union x10[a]) = {},
           q.at # "idle",
           AdminHolds(q, x9[a] \union x10[a], rows \ (x9[a] \union x10[a]), x2, x3)
    PROVE  RosterInv'
<1> DEFINE h == x9[a] \union x10[a]
           n == rows \ (x9[a] \union x10[a])
<1>1. h \in SUBSET Ros!Rows /\ n \in SUBSET Ros!Rows
  BY RosterTyped
<1>2. x9' = [x9 EXCEPT ![a] = h] /\ x10' = [x10 EXCEPT ![a] = n]
  BY DEF Ros!Ask
<1> HIDE DEF h, n
<1>3. AdminHolds(q, h, n, x2', x3')
  BY DEF h, n
<1>4. \A b \in Managers : b # a => x9[b] \intersect h = {}
  BY DEF h
<1> QED BY <1>1, <1>2, <1>3, <1>4, RequestKeeps, RosterTyped

\* The answer.
LEMMA EndKeeps ==
    ASSUME RosterInv, NEW a \in Managers, Ros!End(a),
           \A b \in Managers : b # a => AdminHolds(x7[b], x9[b], x10[b], x2', x3'),
           x1' \in {"unknown", "invited", "accepted", "onboarded"},
           x2' \in [Trucks -> {NoOne, Invited, Other, "gone"}],
           x3' \subseteq 1..MaxCodes, x4' \in 0..MaxCodes, x3' \subseteq {x4'},
           x5' \in [truck : Trucks \union {NoOne}, live : BOOLEAN], x6' \subseteq Managers, x8' = x8
    PROVE  RosterInv'
<1>1. x7' = [x7 EXCEPT ![a] = Ros!Idle] /\ x9' = [x9 EXCEPT ![a] = {}] /\ x10' = [x10 EXCEPT ![a] = {}]
  BY DEF Ros!End, Ros!Release
<1>2. AdminHolds(Ros!Idle, {}, {}, x2', x3')
  BY IdleRequest DEF AdminHolds
<1>3. {} \in SUBSET Ros!Rows /\ \A b \in Managers : b # a => x9[b] \intersect {} = {}
  OBVIOUS
<1>4. x8' \in [Managers -> 0..MaxPresses]
  BY RosterTyped
<1> QED BY <1>1, <1>2, <1>3, <1>4, RequestKeeps, IdleRequest

\* An answer that changes no table.
LEMMA EndsAlone ==
    ASSUME RosterInv, NEW a \in Managers, Ros!End(a), UNCHANGED <<x1, x2, x3, x4, x5, x8>>, x6' \subseteq Managers
    PROVE  RosterInv'
BY EndKeeps, RosterTyped

\* Pressed, with nothing locked yet.
LEMMA PressKeeps ==
    ASSUME RosterInv, NEW a \in Managers, NEW q \in Ros!Requests, NEW rows \in SUBSET Ros!Rows, Ros!Press(a, q, rows),
           q.at \in {"invite", "assign", "delete", "suspend", "role"},
           q.at \in {"assign", "delete"} => q.truck \in Trucks,
           q.at = "assign" => Ros!Truck(q.truck) \in rows
    PROVE  RosterInv'
<1>1. x7[a] = Ros!Idle /\ x9[a] = {} /\ x10[a] = {}
  BY RosterTyped, IdleRequest DEF Ros!Press, AdminHolds
<1>2. x8' \in [Managers -> 0..MaxPresses]
  BY RosterTyped, BoundsAssumption DEF Ros!Press
<1>3. AdminHolds(q, {}, rows, x2, x3)
  BY DEF AdminHolds
<1>4. x7' = [x7 EXCEPT ![a] = q] /\ Ros!Ask(a, rows) /\ UNCHANGED <<x1, x2, x3, x4, x5, x6>>
  BY DEF Ros!Press, Ros!tables
<1>5. x9[a] \union x10[a] = {} /\ rows \ (x9[a] \union x10[a]) = rows
  BY <1>1
<1>6. AdminHolds(q, x9[a] \union x10[a], rows \ (x9[a] \union x10[a]), x2, x3)
  BY <1>3, <1>5
<1>7. q.at # "idle" /\ \A b \in Managers : b # a => x9[b] \intersect (x9[a] \union x10[a]) = {}
  BY <1>1
<1> QED BY <1>2, <1>4, <1>6, <1>7, AskKeeps

\* A request that goes on is one.
LEMMA Moved == ASSUME NEW p \in Ros!Requests, NEW place \in Ros!Places
    PROVE /\ [p EXCEPT !.at = place] \in Ros!Requests
          /\ [p EXCEPT !.at = place].at = place
          /\ [p EXCEPT !.at = place].truck = p.truck
          /\ [p EXCEPT !.at = place].closing = p.closing
BY DEF Ros!Requests

\* A truck has a row to lock.
LEMMA TruckRow == ASSUME NEW t \in Trucks PROVE Ros!Truck(t) \in Ros!Rows
BY DEF Ros!Rows

\* What an administrator presses.
LEMMA PressesKeep ==
    ASSUME RosterInv, NEW a \in Managers,
           \/ \E t \in Trucks \union {NoOne} : Ros!PressInvite(a, t)
           \/ \E t \in Trucks : Ros!PressDelete(a, t) \/ \E driver \in {NoOne, Invited, Other} : Ros!PressAssign(a, t, driver)
           \/ \E whom \in Ros!Admins : Ros!PressSuspend(a, whom) \/ Ros!PressRole(a, whom)
    PROVE  RosterInv'
<1>1. ASSUME NEW t \in Trucks \union {NoOne}, Ros!PressInvite(a, t) PROVE RosterInv'
  <2> DEFINE q == [Ros!Idle EXCEPT !.at = "invite", !.truck = t]
  <2>1. q \in Ros!Requests /\ q.at = "invite"
    BY DEF Ros!Idle, Ros!Requests, Ros!Places, Ros!Admins
  <2>2. Ros!Press(a, q, {})
    BY <1>1, Zenon DEF Ros!PressInvite
  <2> HIDE DEF q
  <2> QED BY <2>1, <2>2, PressKeeps
<1>2. ASSUME NEW t \in Trucks, Ros!PressDelete(a, t) PROVE RosterInv'
  <2> DEFINE q == [Ros!Idle EXCEPT !.at = "delete", !.truck = t]
  <2>1. q \in Ros!Requests /\ q.at = "delete" /\ q.truck = t
    BY DEF Ros!Idle, Ros!Requests, Ros!Places, Ros!Admins
  <2>2. Ros!Press(a, q, {})
    BY <1>2, Zenon DEF Ros!PressDelete
  <2> HIDE DEF q
  <2> QED BY <2>1, <2>2, PressKeeps
<1>3. ASSUME NEW t \in Trucks, NEW driver \in {NoOne, Invited, Other}, Ros!PressAssign(a, t, driver) PROVE RosterInv'
  <2> DEFINE q == [Ros!Idle EXCEPT !.at = "assign", !.truck = t, !.driver = driver]
  <2>1. q \in Ros!Requests /\ q.at = "assign" /\ q.truck = t
    BY DEF Ros!Idle, Ros!Requests, Ros!Places, Ros!Admins
  <2>2. Ros!Press(a, q, {Ros!Truck(t)})
    BY <1>3, Zenon DEF Ros!PressAssign
  <2>3. {Ros!Truck(t)} \in SUBSET Ros!Rows
    BY TruckRow
  <2> HIDE DEF q
  <2> QED BY <2>1, <2>2, <2>3, PressKeeps
<1>4. ASSUME NEW whom \in Managers, NEW at \in {"suspend", "role"}, Ros!Press(a, [Ros!Idle EXCEPT !.at = at, !.whom = whom], {})
      PROVE  RosterInv'
  <2> DEFINE q == [Ros!Idle EXCEPT !.at = at, !.whom = whom]
  <2>1. q \in Ros!Requests /\ q.at = at
    BY DEF Ros!Idle, Ros!Requests, Ros!Places, Ros!Admins
  <2>2. Ros!Press(a, q, {})
    BY <1>4
  <2> HIDE DEF q
  <2> QED BY <2>1, <2>2, PressKeeps
<1> QED BY <1>1, <1>2, <1>3, <1>4, Zenon DEF Ros!PressSuspend, Ros!PressRole, Ros!Admins

\* The statements of a request.
LEMMA RequestsKeep ==
    ASSUME RosterInv, NEW a \in Managers,
           \/ Ros!FindDriver(a) \/ Ros!WriteDriver(a) \/ Ros!ClaimTruck(a) \/ Ros!InviteRefused(a) \/ Ros!CloseCodes(a)
           \/ Ros!CommitInvite(a) \/ Ros!Fails(a)
           \/ Ros!AssignVehicle(a) \/ Ros!FindVehicle(a) \/ Ros!CountJobs(a) \/ Ros!DropVehicle(a)
           \/ Ros!FindAdmin(a) \/ Ros!CountAdmins(a) \/ Ros!Suspend(a) \/ Ros!UpdateUserRole(a)
    PROVE  RosterInv'
<1> DEFINE p == x7[a]
           h == x9[a] \union x10[a]
<1>1. p \in Ros!Requests /\ AdminHolds(p, x9[a], x10[a], x2, x3) /\ x7 \in [Managers -> Ros!Requests]
  BY RosterTyped
<1>2. p.truck \in Trucks \union {NoOne} /\ p.driver \in {NoOne, Invited, Other} /\ p.closing \in SUBSET (1..MaxCodes)
  BY <1>1, RequestFields
<1>3. Ros!Granted(a) => \A b \in Managers : b # a => x9[b] \intersect h = {}
  BY Ran
<1>4. ASSUME NEW place \in Ros!Places, NEW rows \in SUBSET Ros!Rows, Ros!Goto(a, place, rows), Ros!Granted(a), place # "idle",
             UNCHANGED <<x1, x2, x3, x4, x5, x6, x8>>,
             AdminHolds([p EXCEPT !.at = place], h, rows \ h, x2, x3)
      PROVE  RosterInv'
  <2>1. [p EXCEPT !.at = place] \in Ros!Requests /\ [p EXCEPT !.at = place].at = place
    BY <1>1, Moved
  <2>2. x7' = [x7 EXCEPT ![a] = [p EXCEPT !.at = place]] /\ Ros!Ask(a, rows)
    BY <1>1, <1>4 DEF Ros!Goto
  <2> HIDE DEF p
  <2> QED BY <1>3, <1>4, <2>1, <2>2, AskKeeps, RosterTyped
<1>5. CASE Ros!FindDriver(a)
  <2> DEFINE found == x1 \in {"invited", "accepted"}
             q == [p EXCEPT !.at = "driver", !.found = found]
  <2>5. found \in BOOLEAN
    OBVIOUS
  <2>1. q \in Ros!Requests /\ q.at = "driver"
    BY <1>1, <2>5 DEF Ros!Requests, Ros!Places
  <2>2. x7' = [x7 EXCEPT ![a] = q] /\ Ros!Ask(a, {Ros!User}) /\ UNCHANGED <<x1, x2, x3, x4, x5, x6, x8>> /\ Ros!Granted(a)
    BY <1>1, <1>5 DEF Ros!FindDriver, Ros!DriverRow, Ros!At, Ros!tables
  <2>3. {Ros!User} \in SUBSET Ros!Rows
    BY DEF Ros!Rows
  <2>4. AdminHolds(q, h, {Ros!User} \ h, x2, x3)
    BY <2>1 DEF AdminHolds
  <2> HIDE DEF q, p
  <2> QED BY <1>3, <2>1, <2>2, <2>3, <2>4, AskKeeps, RosterTyped
<1>6. CASE Ros!WriteDriver(a)
  <2>1. p.at = "driver" /\ Ros!Granted(a) /\ UNCHANGED <<x1, x2, x3, x4, x5, x6, x8>> /\ Ros!User \in h
    BY <1>1, <1>6 DEF Ros!WriteDriver, Ros!At, Ros!tables, AdminHolds
  <2>2. CASE p.truck = NoOne
    <3>1. AdminHolds([p EXCEPT !.at = "codes"], h, {} \ h, x2, x3)
      BY <1>1, <2>1, <2>2, Moved DEF AdminHolds, Ros!Places
    <3>2. Ros!Goto(a, "codes", {})
      BY <1>6, <2>2 DEF Ros!WriteDriver
    <3>3. "codes" \in Ros!Places /\ "codes" # "idle" /\ {} \in SUBSET Ros!Rows
      BY DEF Ros!Places
    <3> HIDE DEF p, h
    <3> QED BY <1>4, <2>1, <3>1, <3>2, <3>3
  <2>3. CASE p.truck # NoOne
    <3>1. AdminHolds([p EXCEPT !.at = "truck"], h, {Ros!Truck(p.truck)} \ h, x2, x3)
      BY <1>1, <2>1, <2>3, Moved DEF AdminHolds, Ros!Places
    <3>2. {Ros!Truck(p.truck)} \in SUBSET Ros!Rows
      BY <1>2, <2>3, TruckRow
    <3>3. Ros!Goto(a, "truck", {Ros!Truck(p.truck)})
      BY <1>6, <2>3 DEF Ros!WriteDriver
    <3>4. "truck" \in Ros!Places /\ "truck" # "idle"
      BY DEF Ros!Places
    <3> HIDE DEF p, h
    <3> QED BY <1>4, <2>1, <3>1, <3>2, <3>3, <3>4
  <2> QED BY <2>2, <2>3
<1>7. CASE Ros!ClaimTruck(a)
  <2>1. p.at = "truck" /\ Ros!Granted(a) /\ UNCHANGED <<x1, x2, x3, x4, x5, x6, x8>> /\ x2[p.truck] = NoOne
        /\ Ros!Goto(a, "codes", {})
    BY <1>7 DEF Ros!ClaimTruck, Ros!At, Ros!Unassigned, Ros!tables
  <2>2. AdminHolds([p EXCEPT !.at = "codes"], h, {} \ h, x2, x3)
    BY <1>1, <2>1, Moved DEF AdminHolds, Ros!Places
  <2> HIDE DEF p, h
  <2> QED BY <1>4, <2>1, <2>2 DEF Ros!Places
<1>8. CASE Ros!CloseCodes(a)
  <2> DEFINE q == [p EXCEPT !.at = "commit", !.closing = x3]
  <2>1. q \in Ros!Requests /\ q.at = "commit" /\ q.closing = x3 /\ q.truck = p.truck
    BY <1>1, RosterTyped DEF Ros!Requests, Ros!Places
  <2>2. x7' = [x7 EXCEPT ![a] = q] /\ UNCHANGED <<x1, x2, x3, x4, x5, x6, x8, x9, x10>> /\ p.at = "codes"
    BY <1>1, <1>8 DEF Ros!CloseCodes, Ros!At, Ros!tables
  <2>3. AdminHolds(q, x9[a], x10[a], x2, x3)
    BY <1>1, <2>1, <2>2 DEF AdminHolds
  <2>4. x9' = [x9 EXCEPT ![a] = x9[a]] /\ x10' = [x10 EXCEPT ![a] = x10[a]]
    BY <2>2, RosterTyped
  <2>5. /\ x9[a] \in SUBSET Ros!Rows /\ x10[a] \in SUBSET Ros!Rows
        /\ \A b \in Managers : b # a => x9[b] \intersect x9[a] = {} /\ AdminHolds(x7[b], x9[b], x10[b], x2', x3')
        /\ AdminHolds(q, x9[a], x10[a], x2', x3')
    BY <2>2, <2>3, RosterTyped
  <2>6. /\ x1' \in {"unknown", "invited", "accepted", "onboarded"}
        /\ x2' \in [Trucks -> {NoOne, Invited, Other, "gone"}]
        /\ x3' \subseteq 1..MaxCodes /\ x4' \in 0..MaxCodes /\ x3' \subseteq {x4'}
        /\ x5' \in [truck : Trucks \union {NoOne}, live : BOOLEAN] /\ x6' \subseteq Managers
        /\ x8' \in [Managers -> 0..MaxPresses]
    BY <2>2, RosterTyped
  <2> DEFINE g == x9[a]
             n == x10[a]
  <2>7. g \in SUBSET Ros!Rows /\ n \in SUBSET Ros!Rows /\ \A b \in Managers : b # a => x9[b] \intersect g = {}
    BY <2>5
  <2>8. x9' = [x9 EXCEPT ![a] = g] /\ x10' = [x10 EXCEPT ![a] = n] /\ AdminHolds(q, g, n, x2', x3')
    BY <2>4, <2>5
  <2>9. \A b \in Managers : b # a => AdminHolds(x7[b], x9[b], x10[b], x2', x3')
    BY <2>5
  <2>10. q \in Ros!Requests /\ x7' = [x7 EXCEPT ![a] = q]
    BY <2>1, <2>2
  <2> HIDE DEF q, p, g, n
  <2> QED BY <2>6, <2>7, <2>8, <2>9, <2>10, RequestKeeps
<1>9. CASE Ros!CommitInvite(a)
  <2>1. p.at = "commit" /\ Ros!Granted(a) /\ x4 < MaxCodes /\ x4' = x4 + 1 /\ x3' = (x3 \ p.closing) \union {x4'}
        /\ x2' = [t \in Trucks |-> IF t = p.truck THEN Invited ELSE x2[t]]
        /\ x1' \in {x1, "invited"} /\ Ros!End(a) /\ UNCHANGED <<x5, x6, x8>>
    BY <1>9 DEF Ros!CommitInvite, Ros!At
  <2>2. x3 \subseteq p.closing /\ Ros!User \in x9[a] /\ (p.truck # NoOne => Ros!Truck(p.truck) \in x9[a])
    BY <1>1, <2>1 DEF AdminHolds
  <2>3. x3' = {x4'}
    BY <2>1, <2>2
  <2>4. x4' \in 1..MaxCodes /\ x4' \in 0..MaxCodes
    BY <2>1, BoundsAssumption, RosterTyped
  <2>5. x2' \in [Trucks -> {NoOne, Invited, Other, "gone"}] /\ \A t \in Trucks : t # p.truck => x2'[t] = x2[t]
    BY <2>1, RosterTyped
  <2>6. ASSUME NEW b \in Managers, b # a PROVE AdminHolds(x7[b], x9[b], x10[b], x2', x3')
    <3>1. /\ AdminHolds(x7[b], x9[b], x10[b], x2, x3) /\ Ros!User \notin x9[b]
          /\ p.truck # NoOne => Ros!Truck(p.truck) \notin x9[b]
      BY <2>2, <2>6, RosterTyped
    <3>2. x7[b].truck \in Trucks \union {NoOne} /\ p.truck \in Trucks \union {NoOne}
      BY <1>2, RosterTyped, RequestFields
    <3>3. x7[b].at # "commit" /\ x7[b].at # "codes"
      BY <3>1 DEF AdminHolds
    <3> QED BY <3>1, <3>3 DEF AdminHolds
  <2> QED BY <2>1, <2>3, <2>4, <2>5, <2>6, EndKeeps, RosterTyped
<1>10. ASSUME NEW t \in Trucks, NEW d \in {NoOne, Invited, Other, "gone"}, x2' = x2 \/ x2' = [x2 EXCEPT ![t] = d],
              Ros!Truck(t) \in h, Ros!Granted(a), Ros!End(a), UNCHANGED <<x1, x3, x4, x6, x8>>,
              x5' \in [truck : Trucks \union {NoOne}, live : BOOLEAN]
       PROVE  RosterInv'
  <2>1. x2' \in [Trucks -> {NoOne, Invited, Other, "gone"}] /\ \A u \in Trucks : u # t => x2'[u] = x2[u]
    BY <1>10, RosterTyped
  <2>2. ASSUME NEW b \in Managers, b # a PROVE AdminHolds(x7[b], x9[b], x10[b], x2', x3')
    <3>1. AdminHolds(x7[b], x9[b], x10[b], x2, x3) /\ Ros!Truck(t) \notin x9[b]
      BY <1>3, <1>10, <2>2, RosterTyped
    <3>2. x7[b].truck \in Trucks \union {NoOne}
      BY RosterTyped, RequestFields
    <3> QED BY <1>10, <2>1, <3>1, <3>2 DEF AdminHolds
  <2> QED BY <1>10, <2>1, <2>2, EndKeeps, RosterTyped
<1>11. CASE Ros!AssignVehicle(a)
  <2>1. p.at = "assign" /\ Ros!Granted(a) /\ Ros!End(a) /\ UNCHANGED <<x1, x3, x4, x5, x6, x8>>
        /\ (x2' = x2 \/ x2' = [x2 EXCEPT ![p.truck] = p.driver])
    BY <1>11 DEF Ros!AssignVehicle, Ros!At
  <2>2. p.truck \in Trucks /\ Ros!Truck(p.truck) \in h
    BY <1>1, <2>1 DEF AdminHolds
  <2> QED BY <1>2, <1>10, <2>1, <2>2, RosterTyped
<1>12. CASE Ros!DropVehicle(a)
  <2>1. p.at = "drop" /\ Ros!Granted(a) /\ Ros!End(a) /\ UNCHANGED <<x1, x3, x4, x6, x8>>
        /\ x2' = [x2 EXCEPT ![p.truck] = "gone"]
    BY <1>12 DEF Ros!DropVehicle, Ros!At
  <2>2. p.truck \in Trucks /\ Ros!Truck(p.truck) \in h
    BY <1>1, <2>1 DEF AdminHolds
  <2>3. x5' \in [truck : Trucks \union {NoOne}, live : BOOLEAN]
    BY <1>12, RosterTyped DEF Ros!DropVehicle
  <2> QED BY <1>10, <2>1, <2>2, <2>3
<1>13. CASE Ros!InviteRefused(a) \/ Ros!Fails(a)
  BY <1>13, EndsAlone, RosterTyped DEF Ros!InviteRefused, Ros!Fails, Ros!tables
<1>14. CASE Ros!FindVehicle(a)
  <2>1. p.at = "delete" /\ Ros!Granted(a) /\ UNCHANGED <<x1, x2, x3, x4, x5, x6, x8>>
        /\ (Ros!End(a) \/ Ros!Goto(a, "count", {}))
    BY <1>14 DEF Ros!FindVehicle, Ros!At, Ros!tables
  <2>2. AdminHolds([p EXCEPT !.at = "count"], h, {} \ h, x2, x3)
    BY <1>1, <2>1, Moved DEF AdminHolds, Ros!Places
  <2> QED BY <1>4, <2>1, <2>2, EndsAlone, RosterTyped DEF Ros!Places
<1>15. CASE Ros!CountJobs(a)
  <2>1. p.at = "count" /\ Ros!Granted(a) /\ UNCHANGED <<x1, x2, x3, x4, x5, x6, x8>>
        /\ (Ros!End(a) \/ Ros!Goto(a, "drop", {Ros!Truck(p.truck)}))
    BY <1>15 DEF Ros!CountJobs, Ros!At, Ros!tables
  <2>2. p.truck \in Trucks
    BY <1>1, <2>1 DEF AdminHolds
  <2>3. AdminHolds([p EXCEPT !.at = "drop"], h, {Ros!Truck(p.truck)} \ h, x2, x3)
    BY <1>1, <2>1, <2>2, Moved DEF AdminHolds, Ros!Places
  <2>4. {Ros!Truck(p.truck)} \in SUBSET Ros!Rows
    BY <2>2, TruckRow
  <2>5. CASE Ros!End(a)
    BY <2>1, <2>5, EndsAlone, RosterTyped
  <2>6. CASE Ros!Goto(a, "drop", {Ros!Truck(p.truck)})
    <3> DEFINE rows == {Ros!Truck(p.truck)}
    <3>1. rows \in SUBSET Ros!Rows /\ Ros!Goto(a, "drop", rows) /\ AdminHolds([p EXCEPT !.at = "drop"], h, rows \ h, x2, x3)
      BY <2>3, <2>4, <2>6
    <3> HIDE DEF p, h, rows
    <3> QED BY <1>4, <2>1, <3>1 DEF Ros!Places
  <2> QED BY <2>1, <2>5, <2>6
<1>16. CASE Ros!FindAdmin(a) \/ Ros!CountAdmins(a)
  <2>1. PICK place \in {"admins", "suspended"} : Ros!Granted(a) /\ UNCHANGED <<x1, x2, x3, x4, x5, x6, x8>>
        /\ (Ros!End(a) \/ Ros!Goto(a, place, {}))
    BY <1>16 DEF Ros!FindAdmin, Ros!CountAdmins, Ros!At, Ros!tables
  <2>2. AdminHolds([p EXCEPT !.at = place], h, {} \ h, x2, x3)
    BY <1>1, <2>1, Moved DEF AdminHolds, Ros!Places
  <2>5. CASE Ros!End(a)
    BY <2>1, <2>5, EndsAlone, RosterTyped
  <2>6. CASE Ros!Goto(a, place, {})
    <3>1. place \in Ros!Places /\ place # "idle"
      BY DEF Ros!Places
    <3> HIDE DEF p, h
    <3> QED BY <1>4, <2>1, <2>2, <2>6, <3>1
  <2> QED BY <2>1, <2>5, <2>6
<1>17. CASE Ros!Suspend(a) \/ Ros!UpdateUserRole(a)
  <2>1. x6' \subseteq Managers /\ Ros!End(a) /\ UNCHANGED <<x1, x2, x3, x4, x5, x8>>
    BY <1>17, RosterTyped DEF Ros!Suspend, Ros!UpdateUserRole
  <2> QED BY <2>1, EndsAlone
<1> QED BY <1>5, <1>6, <1>7, <1>8, <1>9, <1>11, <1>12, <1>13, <1>14, <1>15, <1>16, <1>17

\* Every step keeps the invariant.
LEMMA RosterNext == RosterInv /\ [Ros!Next]_(Ros!vars) => RosterInv'
<1> SUFFICES ASSUME RosterInv, [Ros!Next]_(Ros!vars) PROVE RosterInv'
  OBVIOUS
<1>1. ASSUME UNCHANGED <<x2, x4, x6, x7, x8, x9, x10>>, x3' \subseteq x3,
             x1' \in {"unknown", "invited", "accepted", "onboarded"}, x5' \in [truck : Trucks \union {NoOne}, live : BOOLEAN]
      PROVE  RosterInv'
  BY <1>1 DEF RosterInv, Ros!TypeOK, Ros!LatestCodeWorks, AdminHolds
<1>2. CASE UNCHANGED Ros!vars
  BY <1>1, <1>2, RosterTyped DEF Ros!vars
<1>3. ASSUME NEW code \in x3, Ros!VerifyInvite(code) PROVE RosterInv'
  BY <1>1, <1>3, RosterTyped DEF Ros!VerifyInvite
<1>4. CASE Ros!SetPin
  BY <1>1, <1>4, RosterTyped DEF Ros!SetPin
<1>5. ASSUME NEW t \in Trucks, Ros!AssignJob(t) PROVE RosterInv'
  BY <1>1, <1>5, RosterTyped DEF Ros!AssignJob
<1>6. CASE Ros!JobEnds
  <2>1. x5' \in [truck : Trucks \union {NoOne}, live : BOOLEAN]
    BY <1>6, RosterTyped, Zenon DEF Ros!JobEnds
  <2> QED BY <1>1, <1>6, <2>1, RosterTyped DEF Ros!JobEnds
<1> QED BY <1>2, <1>3, <1>4, <1>5, <1>6, PressesKeep, RequestsKeep DEF Ros!Next, Ros!Admins

\* The last code issued is the one that is open.
LEMMA CodesLatest == RosterInv => Ros!LatestCodeWorks
BY DEF RosterInv

\* A truck somebody drives is not given away by an invitation.
LEMMA TruckStays == RosterInv /\ [Ros!Next]_(Ros!vars) => Ros!InviteTakesNoTruck
<1> SUFFICES ASSUME RosterInv, [Ros!Next]_(Ros!vars), NEW t \in Trucks, x2[t] = Other, x2'[t] = Invited PROVE x4' = x4
  BY DEF Ros!InviteTakesNoTruck
<1>1. ASSUME NEW a \in Managers, Ros!CommitInvite(a) PROVE FALSE
  <2>1. x7[a].at = "commit" /\ x2' = [u \in Trucks |-> IF u = x7[a].truck THEN Invited ELSE x2[u]]
    BY <1>1 DEF Ros!CommitInvite, Ros!At
  <2>2. x7[a].truck # NoOne => x2[x7[a].truck] = NoOne
    BY <2>1, RosterTyped DEF AdminHolds
  <2> QED BY <2>1, <2>2, RosterAssumption
<1>2. CASE UNCHANGED Ros!vars
  BY <1>2 DEF Ros!vars
<1> QED BY <1>1, <1>2, Zenon DEF Ros!Next, Ros!Admins, Ros!PressInvite, Ros!PressDelete, Ros!PressAssign, Ros!PressSuspend,
           Ros!PressRole, Ros!Press, Ros!tables, Ros!FindDriver, Ros!WriteDriver, Ros!ClaimTruck, Ros!InviteRefused,
           Ros!CloseCodes, Ros!Fails, Ros!AssignVehicle, Ros!FindVehicle, Ros!CountJobs, Ros!DropVehicle, Ros!FindAdmin,
           Ros!CountAdmins, Ros!Suspend, Ros!UpdateUserRole, Ros!VerifyInvite, Ros!SetPin, Ros!AssignJob, Ros!JobEnds

-----------------------------------------------------------------------------
(* DispatchLocks: offers and assignments under row locks:
   x1 status, x2 assigned, x3 truck, x4 declined, x5 tx, x6 left, x7 held, x8 need. *)

\* What has to be true of a request and the rows it has locked.
The(p) == CHOOSE o \in p.orders : TRUE
ClientHolds(p, h, n, status) ==
    /\ p.at = "idle" => h = {} /\ n = {}
    /\ p.at = "load" => D!OrderRows(p.orders) \subseteq h \union n
    /\ p.at = "put" => D!OrderRows(p.orders) \subseteq h /\ \A o \in p.orders : status[o] = "PENDING"
    /\ p.at \in {"order", "swap", "move"} => p.orders # {} /\ D!OrderRow(The(p)) \in h \union n
    /\ p.at \in {"swap", "move"} => D!OrderRow(The(p)) \in h /\ status[The(p)] = "ASSIGNED"
    /\ p.at \in {"asked", "offer"} => p.driver \in Takers

\* The inductive invariant of the queue.
QueueInv ==
    /\ D!TypeOK
    /\ \A o \in Jobs : x1[o] = "OFFERED" => x2[o] \in Takers
    /\ \A a, b \in Dispatchers : a # b => x7[a] \intersect x7[b] = {}
    /\ \A a \in Dispatchers : ClientHolds(x5[a], x7[a], x8[a], x1)

\* The statuses of a job that dispatch has to do with.
JobStatuses == {"PENDING", "OFFERED", "ASSIGNED", "PICKED_UP"}

\* The types of the tables and of the locks.
LEMMA QueueTyped == ASSUME QueueInv
    PROVE /\ x1 \in [Jobs -> JobStatuses] /\ x2 \in [Jobs -> Takers \union {NoOne}] /\ x3 \in [Jobs -> Takers \union {NoOne}]
          /\ x4 \subseteq Jobs \X Takers /\ x6 \in 0..Budget
          /\ \A o \in Jobs : x1[o] = "OFFERED" => x2[o] \in Takers
          /\ x5 \in [Dispatchers -> D!Requests]
          /\ x7 \in [Dispatchers -> SUBSET D!LockRows] /\ x8 \in [Dispatchers -> SUBSET D!LockRows]
          /\ \A a \in Dispatchers : ClientHolds(x5[a], x7[a], x8[a], x1)
          /\ \A a, b \in Dispatchers : a # b => x7[a] \intersect x7[b] = {}
BY DEF QueueInv, D!TypeOK, JobStatuses

\* The fields of a request.
LEMMA AskFields == ASSUME NEW p \in D!Requests
    PROVE /\ p.at \in {"idle", "truck", "load", "put", "asked", "offer", "order", "swap", "move"}
          /\ p.orders \in SUBSET Jobs /\ p.driver \in Takers \union {NoOne}
          /\ p.orders # {} => The(p) \in p.orders /\ The(p) \in Jobs
BY DEF D!Requests, The

\* No request is one.
LEMMA IdleAsk == D!Idle \in D!Requests /\ D!Idle.at = "idle"
BY DEF D!Idle, D!Requests

\* The invariant holds at first.
LEMMA QueueInit == D!Init => QueueInv
<1> SUFFICES ASSUME D!Init PROVE QueueInv
  OBVIOUS
<1>1. D!TypeOK
  BY BoundsAssumption, IdleAsk DEF D!Init, D!TypeOK, D!NoLocks
<1>2. \A a \in Dispatchers : x5[a].at = "idle" /\ x7[a] = {} /\ x8[a] = {}
  BY IdleAsk DEF D!Init, D!NoLocks
<1>3. \A a \in Dispatchers : ClientHolds(x5[a], x7[a], x8[a], x1)
  BY <1>2 DEF ClientHolds
<1>4. \A o \in Jobs : x1[o] # "OFFERED"
  BY DEF D!Init
<1> QED BY <1>1, <1>2, <1>3, <1>4 DEF QueueInv

\* The orders' rows after a step: a row that changes its status was locked by nobody else.
OrdersKept(mine) ==
    /\ x1' \in [Jobs -> JobStatuses] /\ x2' \in [Jobs -> Takers \union {NoOne}] /\ x3' \in [Jobs -> Takers \union {NoOne}]
    /\ x4' \subseteq Jobs \X Takers /\ x6' \in 0..Budget
    /\ \A o \in Jobs : x1'[o] = "OFFERED" => x2'[o] \in Takers
    /\ \A o \in Jobs : x1'[o] # x1[o] => D!OrderRow(o) \in mine

\* What the other requests hold stays true.
LEMMA OthersHold ==
    ASSUME QueueInv, NEW mine, OrdersKept(mine), NEW b \in Dispatchers, x7[b] \intersect mine = {}
    PROVE  ClientHolds(x5[b], x7[b], x8[b], x1')
<1>1. ClientHolds(x5[b], x7[b], x8[b], x1) /\ x5[b] \in D!Requests
  BY QueueTyped
<1>2. \A o \in Jobs : D!OrderRow(o) \in x7[b] => x1'[o] = x1[o]
  BY DEF OrdersKept
<1>3. ASSUME x5[b].at = "put" PROVE \A o \in x5[b].orders : x1'[o] = "PENDING"
  BY <1>1, <1>2, <1>3, AskFields DEF ClientHolds, D!OrderRows
<1>4. ASSUME x5[b].at \in {"swap", "move"} PROVE x1'[The(x5[b])] = "ASSIGNED"
  BY <1>1, <1>2, <1>4, AskFields DEF ClientHolds
<1> QED BY <1>1, <1>3, <1>4 DEF ClientHolds

\* A step of one request.
LEMMA AskStep ==
    ASSUME QueueInv, NEW c \in Dispatchers, NEW q \in D!Requests, NEW h \in SUBSET D!LockRows, NEW n \in SUBSET D!LockRows,
           x5' = [x5 EXCEPT ![c] = q], x7' = [x7 EXCEPT ![c] = h], x8' = [x8 EXCEPT ![c] = n],
           NEW mine, OrdersKept(mine), \A b \in Dispatchers : b # c => x7[b] \intersect (h \union mine) = {},
           ClientHolds(q, h, n, x1')
    PROVE  QueueInv'
<1>1. /\ x5' \in [Dispatchers -> D!Requests] /\ x7' \in [Dispatchers -> SUBSET D!LockRows]
      /\ x8' \in [Dispatchers -> SUBSET D!LockRows] /\ x5'[c] = q /\ x7'[c] = h /\ x8'[c] = n
      /\ \A b \in Dispatchers : b # c => x5'[b] = x5[b] /\ x7'[b] = x7[b] /\ x8'[b] = x8[b]
  BY QueueTyped
<1>2. D!TypeOK'
  BY <1>1 DEF D!TypeOK, OrdersKept, JobStatuses
<1>3. ASSUME NEW b \in Dispatchers PROVE ClientHolds(x5'[b], x7'[b], x8'[b], x1')
  <2>1. CASE b = c
    BY <1>1, <2>1
  <2>2. CASE b # c
    <3>1. x7[b] \intersect mine = {}
      BY <2>2
    <3> QED BY <1>1, <2>2, <3>1, OthersHold
  <2> QED BY <2>1, <2>2
<1>4. \A a, b \in Dispatchers : a # b => x7'[a] \intersect x7'[b] = {}
  <2> SUFFICES ASSUME NEW a \in Dispatchers, NEW b \in Dispatchers, a # b PROVE x7'[a] \intersect x7'[b] = {}
    OBVIOUS
  <2>1. x7[a] \intersect x7[b] = {}
    BY QueueTyped
  <2>2. CASE a = c
    BY <1>1, <2>2
  <2>3. CASE b = c
    BY <1>1, <2>3
  <2> QED BY <1>1, <2>1, <2>2, <2>3
<1> QED BY <1>2, <1>3, <1>4 DEF QueueInv, OrdersKept

\* A statement that runs has locked what it waited for, and nobody else has it.
LEMMA Locked ==
    ASSUME QueueInv, NEW c \in Dispatchers, D!Granted(c)
    PROVE  \A b \in Dispatchers : b # c => x7[b] \intersect (x7[c] \union x8[c]) = {}
<1> SUFFICES ASSUME NEW b \in Dispatchers, b # c, NEW r \in x7[b], r \in x7[c] \union x8[c] PROVE FALSE
  OBVIOUS
<1>1. r \in x7[c] => FALSE
  BY QueueTyped
<1>2. r \in x8[c] => FALSE
  BY DEF D!Granted, D!HeldByOther
<1> QED BY <1>1, <1>2

\* Tables that stay as they were are kept so.
LEMMA TablesKept == QueueInv /\ UNCHANGED <<x1, x2, x3, x4>> /\ x6' \in 0..Budget => \A mine : OrdersKept(mine)
BY QueueTyped DEF OrdersKept

\* The next statement asks for its rows, and the tables are as they were.
LEMMA GoesOn ==
    ASSUME QueueInv, NEW c \in Dispatchers, NEW q \in D!Requests, NEW wanted \in SUBSET D!LockRows,
           x5' = [x5 EXCEPT ![c] = q], D!Ask(c, wanted), UNCHANGED <<x1, x2, x3, x4>>, x6' \in 0..Budget,
           \A b \in Dispatchers : b # c => x7[b] \intersect (x7[c] \union x8[c]) = {},
           ClientHolds(q, x7[c] \union x8[c], wanted \ (x7[c] \union x8[c]), x1)
    PROVE  QueueInv'
<1> DEFINE h == x7[c] \union x8[c]
           n == wanted \ (x7[c] \union x8[c])
<1>1. h \in SUBSET D!LockRows /\ n \in SUBSET D!LockRows
  BY QueueTyped
<1>2. x7' = [x7 EXCEPT ![c] = h] /\ x8' = [x8 EXCEPT ![c] = n]
  BY DEF D!Ask
<1>3. ClientHolds(q, h, n, x1')
  OBVIOUS
<1>4. \A b \in Dispatchers : b # c => x7[b] \intersect (h \union {}) = {}
  OBVIOUS
<1>5. OrdersKept({})
  BY TablesKept
<1> HIDE DEF h, n
<1> QED BY <1>1, <1>2, <1>3, <1>4, <1>5, AskStep

\* The answer.
LEMMA Ended ==
    ASSUME QueueInv, NEW c \in Dispatchers, D!End(c), NEW mine, OrdersKept(mine),
           \A b \in Dispatchers : b # c => x7[b] \intersect mine = {}
    PROVE  QueueInv'
<1>1. x5' = [x5 EXCEPT ![c] = D!Idle] /\ x7' = [x7 EXCEPT ![c] = {}] /\ x8' = [x8 EXCEPT ![c] = {}]
  BY DEF D!End, D!Release
<1>2. ClientHolds(D!Idle, {}, {}, x1')
  BY IdleAsk DEF ClientHolds
<1>3. {} \in SUBSET D!LockRows /\ \A b \in Dispatchers : b # c => x7[b] \intersect ({} \union mine) = {}
  OBVIOUS
<1> QED BY <1>1, <1>2, <1>3, IdleAsk, AskStep

\* A refusal.
LEMMA Refused == ASSUME QueueInv, NEW c \in Dispatchers, D!Refuse(c) PROVE QueueInv'
<1>1. OrdersKept({}) /\ D!End(c)
  BY TablesKept, QueueTyped DEF D!Refuse, D!rows
<1>2. \A b \in Dispatchers : b # c => x7[b] \intersect {} = {}
  OBVIOUS
<1> QED BY <1>1, <1>2, Ended

\* The rows of orders can be locked.
LEMMA OrderRowsLocked == ASSUME NEW os \in SUBSET Jobs
    PROVE D!OrderRows(os) \in SUBSET D!LockRows /\ \A o \in os : D!OrderRow(o) \in D!OrderRows(os)
BY DEF D!OrderRows, D!LockRows

\* The first statement of a request.
LEMMA StartKeeps == ASSUME QueueInv, NEW c \in Dispatchers, D!Start(c) PROVE QueueInv'
<1>1. ASSUME NEW place \in {"truck", "asked", "order"}, NEW os \in SUBSET Jobs, NEW d \in Takers \union {NoOne},
             NEW wanted \in SUBSET D!LockRows, D!Begin(c, place, os, d, wanted), UNCHANGED <<x1, x2, x3, x4>>,
             place = "order" => \E o \in os : os = {o} /\ D!OrderRow(o) \in wanted,
             place = "asked" => d \in Takers
      PROVE  QueueInv'
  <2> DEFINE q == [at |-> place, orders |-> os, driver |-> d]
  <2>1. q \in D!Requests /\ q.at = place /\ q.orders = os /\ q.driver = d
    BY DEF D!Requests
  <2>2. x7[c] = {} /\ x8[c] = {}
    BY <1>1, QueueTyped DEF D!Begin, ClientHolds
  <2>3. x6' \in 0..Budget /\ x5' = [x5 EXCEPT ![c] = q] /\ D!Ask(c, wanted)
    BY <1>1, QueueTyped, BoundsAssumption DEF D!Begin
  <2> HIDE DEF q
  <2>4. place = "order" => D!OrderRow(The(q)) \in wanted /\ q.orders # {}
    BY <1>1, <2>1 DEF The
  <2>5. ClientHolds(q, {}, wanted, x1)
    BY <1>1, <2>1, <2>4 DEF ClientHolds
  <2>6. x7[c] \union x8[c] = {} /\ wanted \ (x7[c] \union x8[c]) = wanted
    BY <2>2
  <2>7. ClientHolds(q, x7[c] \union x8[c], wanted \ (x7[c] \union x8[c]), x1)
    BY <2>5, <2>6
  <2>8. \A b \in Dispatchers : b # c => x7[b] \intersect (x7[c] \union x8[c]) = {}
    BY <2>6
  <2> QED BY <1>1, <2>1, <2>3, <2>7, <2>8, GoesOn
<1>2. UNCHANGED <<x1, x2, x3, x4>>
  BY DEF D!Start, D!rows
<1>3. ASSUME NEW os \in SUBSET Jobs \ {{}}, NEW d \in Takers, D!StartAssign(c, os, d) \/ D!StartOffer(c, os, d) PROVE QueueInv'
  <2>1. {D!Truck(d)} \in SUBSET D!LockRows /\ {} \in SUBSET D!LockRows
    BY DEF D!LockRows
  <2> QED BY <1>1, <1>2, <1>3, <2>1 DEF D!StartAssign, D!StartOffer
<1>4. ASSUME NEW o \in Jobs, NEW d \in Takers \union {NoOne}, D!StartReassign(c, o, d) PROVE QueueInv'
  <2>1. {D!OrderRow(o)} \in SUBSET D!LockRows /\ {o} \in SUBSET Jobs
    BY DEF D!LockRows
  <2> QED BY <1>1, <1>2, <1>4, <2>1 DEF D!StartReassign
<1> QED BY <1>3, <1>4 DEF D!Start

\* A request that goes on is one.
LEMMA MovedOn == ASSUME NEW p \in D!Requests, NEW place \in {"load", "put", "offer", "swap", "move"}
    PROVE /\ [p EXCEPT !.at = place] \in D!Requests
          /\ [p EXCEPT !.at = place].at = place
          /\ [p EXCEPT !.at = place].orders = p.orders
          /\ [p EXCEPT !.at = place].driver = p.driver
          /\ The([p EXCEPT !.at = place]) = The(p)
BY DEF D!Requests, The

\* The statements that follow.
LEMMA StepKeeps == ASSUME QueueInv, NEW c \in Dispatchers, D!Step(c) PROVE QueueInv'
<1> DEFINE p == x5[c]
           h == x7[c] \union x8[c]
<1>1. p \in D!Requests /\ ClientHolds(p, x7[c], x8[c], x1) /\ x5 \in [Dispatchers -> D!Requests]
  BY QueueTyped
<1>2. p.orders \in SUBSET Jobs /\ p.driver \in Takers \union {NoOne} /\ (p.orders # {} => The(p) \in p.orders /\ The(p) \in Jobs)
  BY <1>1, AskFields
<1>3. D!Granted(c) => \A b \in Dispatchers : b # c => x7[b] \intersect h = {}
  BY Locked
<1>4. D!TheOrder(c) = The(p)
  BY DEF D!TheOrder, The
<1>5. ASSUME NEW place \in {"load", "put", "offer", "swap", "move"}, NEW wanted \in SUBSET D!LockRows, D!Goto(c, place, wanted),
             D!Granted(c), UNCHANGED <<x1, x2, x3, x4, x6>>,
             ClientHolds([p EXCEPT !.at = place], h, wanted \ h, x1)
      PROVE  QueueInv'
  <2> DEFINE q == [p EXCEPT !.at = place]
  <2>1. q \in D!Requests
    BY <1>1, MovedOn
  <2>2. x5' = [x5 EXCEPT ![c] = q] /\ D!Ask(c, wanted)
    BY <1>1, <1>5 DEF D!Goto
  <2>3. ClientHolds(q, h, wanted \ h, x1)
    BY <1>5
  <2> HIDE DEF p, q
  <2> QED BY <1>3, <1>5, <2>1, <2>2, <2>3, GoesOn, QueueTyped
<1>6. CASE D!TakeTruck(c)
  <2> DEFINE wanted == D!OrderRows(p.orders)
  <2>1. D!Goto(c, "load", wanted) /\ D!Granted(c) /\ UNCHANGED <<x1, x2, x3, x4, x6>>
    BY <1>6 DEF D!TakeTruck, D!At, D!rows
  <2>2. wanted \in SUBSET D!LockRows
    BY <1>2, OrderRowsLocked
  <2>3. ClientHolds([p EXCEPT !.at = "load"], h, wanted \ h, x1)
    BY <1>1, MovedOn DEF ClientHolds
  <2> HIDE DEF p, h, wanted
  <2> QED BY <1>5, <2>1, <2>2, <2>3
<1>7. CASE D!WeighBundle(c)
  <2>1. D!Goto(c, "put", {}) /\ D!Granted(c) /\ UNCHANGED <<x1, x2, x3, x4, x6>> /\ p.at = "load"
        /\ \A o \in p.orders : x1[o] = "PENDING"
    BY <1>7 DEF D!WeighBundle, D!At, D!rows, D!AllPending
  <2>2. ClientHolds([p EXCEPT !.at = "put"], h, {} \ h, x1)
    BY <1>1, <2>1, MovedOn DEF ClientHolds
  <2> HIDE DEF p, h
  <2> QED BY <1>5, <2>1, <2>2
<1>8. CASE D!TakeOrder(c)
  <2> DEFINE wanted == {D!Truck(p.driver)}
  <2>1. D!Goto(c, "swap", wanted) /\ D!Granted(c) /\ UNCHANGED <<x1, x2, x3, x4, x6>> /\ p.at = "order"
        /\ p.driver # NoOne /\ x1[The(p)] = "ASSIGNED"
    BY <1>4, <1>8 DEF D!TakeOrder, D!At, D!rows, D!ReassignRefusal
  <2>2. wanted \in SUBSET D!LockRows
    BY <1>2, <2>1 DEF D!LockRows
  <2>3. ClientHolds([p EXCEPT !.at = "swap"], h, wanted \ h, x1)
    BY <1>1, <2>1, MovedOn DEF ClientHolds
  <2> HIDE DEF p, h, wanted
  <2> QED BY <1>5, <2>1, <2>2, <2>3
<1>9. CASE D!WeighOrder(c)
  <2>1. D!Goto(c, "move", {}) /\ D!Granted(c) /\ UNCHANGED <<x1, x2, x3, x4, x6>> /\ p.at = "swap"
    BY <1>9 DEF D!WeighOrder, D!At, D!rows
  <2>2. ClientHolds([p EXCEPT !.at = "move"], h, {} \ h, x1)
    BY <1>1, <2>1, MovedOn DEF ClientHolds
  <2> HIDE DEF p, h
  <2> QED BY <1>5, <2>1, <2>2
<1>10. CASE D!ReadDeclines(c)
  <2> DEFINE wanted == D!OrderRows({o \in p.orders : x1[o] = "PENDING"})
  <2>1. D!Goto(c, "offer", wanted) /\ D!Granted(c) /\ UNCHANGED <<x1, x2, x3, x4, x6>> /\ p.at = "asked"
    BY <1>10 DEF D!ReadDeclines, D!At, D!rows
  <2>2. wanted \in SUBSET D!LockRows
    BY <1>2, OrderRowsLocked
  <2>3. ClientHolds([p EXCEPT !.at = "offer"], h, wanted \ h, x1)
    BY <1>1, <2>1, MovedOn DEF ClientHolds
  <2> HIDE DEF p, h, wanted
  <2> QED BY <1>5, <2>1, <2>2, <2>3
<1>11. ASSUME D!Granted(c), D!End(c), OrdersKept(h) PROVE QueueInv'
  <2> HIDE DEF h
  <2> QED BY <1>3, <1>11, Ended
<1>12. CASE D!Assign(c)
  <2>1. /\ p.at = "put" /\ D!Granted(c) /\ D!End(c) /\ UNCHANGED <<x4, x6>>
        /\ x1' = [o \in Jobs |-> IF o \in p.orders THEN "ASSIGNED" ELSE x1[o]]
        /\ x2' = [o \in Jobs |-> IF o \in p.orders THEN p.driver ELSE x2[o]]
        /\ x3' = [o \in Jobs |-> IF o \in p.orders THEN p.driver ELSE x3[o]]
    BY <1>12 DEF D!Assign, D!At
  <2>2. \A o \in p.orders : D!OrderRow(o) \in h
    BY <1>1, <1>2, <2>1, OrderRowsLocked DEF ClientHolds
  <2>3. OrdersKept(h)
    BY <1>2, <2>1, <2>2, QueueTyped DEF OrdersKept, JobStatuses
  <2> QED BY <1>11, <2>1, <2>3
<1>13. CASE D!Unassign(c)
  <2>1. /\ p.at = "order" /\ D!Granted(c) /\ D!End(c) /\ UNCHANGED <<x4, x6>>
        /\ x1' = [x1 EXCEPT ![The(p)] = "PENDING"]
        /\ x2' = [x2 EXCEPT ![The(p)] = NoOne] /\ x3' = [x3 EXCEPT ![The(p)] = NoOne]
    BY <1>4, <1>13 DEF D!Unassign, D!At
  <2>2. The(p) \in Jobs /\ D!OrderRow(The(p)) \in h
    BY <1>1, <1>2, <2>1 DEF ClientHolds
  <2> HIDE DEF p, h
  <2>3. OrdersKept(h)
    BY <2>1, <2>2, QueueTyped DEF OrdersKept, JobStatuses
  <2> QED BY <1>11, <2>1, <2>3
<1>14. CASE D!Reassign(c)
  <2>1. /\ p.at = "move" /\ D!Granted(c) /\ D!End(c) /\ UNCHANGED <<x1, x4, x6>>
        /\ x2' = [x2 EXCEPT ![The(p)] = p.driver] /\ x3' = [x3 EXCEPT ![The(p)] = p.driver]
    BY <1>4, <1>14 DEF D!Reassign, D!At
  <2>2. The(p) \in Jobs /\ x1[The(p)] = "ASSIGNED" /\ p.driver \in Takers \union {NoOne}
    BY <1>1, <1>2, <2>1 DEF ClientHolds
  <2> HIDE DEF p, h
  <2>3. OrdersKept(h)
    BY <2>1, <2>2, QueueTyped DEF OrdersKept, JobStatuses
  <2> QED BY <1>11, <2>1, <2>3
<1>15. CASE D!Offer(c)
  <2>1. /\ p.at = "offer" /\ D!Granted(c) /\ D!End(c) /\ UNCHANGED <<x3, x4, x6>>
        /\ x1' = [o \in Jobs |-> IF o \in p.orders THEN "OFFERED" ELSE x1[o]]
        /\ x2' = [o \in Jobs |-> IF o \in p.orders THEN p.driver ELSE x2[o]]
        /\ D!OrderRows(p.orders) \subseteq h
    BY <1>15 DEF D!Offer, D!At
  <2>2. /\ \A o \in p.orders : D!OrderRow(o) \in h
        /\ p.driver \in Takers
    BY <1>1, <1>2, <2>1, OrderRowsLocked DEF ClientHolds
  <2>3. OrdersKept(h)
    BY <1>2, <2>1, <2>2, QueueTyped DEF OrdersKept, JobStatuses
  <2> QED BY <1>11, <2>1, <2>3
<1>16. CASE D!AssignRefused(c) \/ D!ReassignRefused(c) \/ D!OfferRefused(c) \/ D!DeadlockFound(c)
  BY <1>16, Refused DEF D!AssignRefused, D!ReassignRefused, D!OfferRefused, D!DeadlockFound
<1> QED BY <1>6, <1>7, <1>8, <1>9, <1>10, <1>12, <1>13, <1>14, <1>15, <1>16 DEF D!Step

\* A statement that locks one of several rows.
LEMMA LockKeeps == ASSUME QueueInv, NEW c \in Dispatchers, NEW r \in x8[c], D!Lock(c, r) PROVE QueueInv'
<1> DEFINE h == x7[c] \union {r}
           n == x8[c] \ {r}
<1>1. h \in SUBSET D!LockRows /\ n \in SUBSET D!LockRows /\ x5[c] \in D!Requests
  BY QueueTyped
<1>2. x7' = [x7 EXCEPT ![c] = h] /\ x8' = [x8 EXCEPT ![c] = n] /\ UNCHANGED <<x1, x2, x3, x4, x5, x6>>
  BY DEF D!Lock, D!Acquire, D!rows
<1>3. x5' = [x5 EXCEPT ![c] = x5[c]]
  BY <1>2, QueueTyped
<1>4. \A b \in Dispatchers : b # c => x7[b] \intersect (h \union {}) = {}
  <2> SUFFICES ASSUME NEW b \in Dispatchers, b # c PROVE r \notin x7[b] /\ x7[b] \intersect x7[c] = {}
    OBVIOUS
  <2> QED BY QueueTyped DEF D!Lock, D!Acquire, D!HeldByOther
<1>5. ClientHolds(x5[c], x7[c], x8[c], x1) /\ h \union n = x7[c] \union x8[c] /\ x7[c] \subseteq h /\ x8[c] # {}
  BY QueueTyped
<1> HIDE DEF h, n
<1>6. ClientHolds(x5[c], h, n, x1')
  BY <1>2, <1>5 DEF ClientHolds
<1>7. OrdersKept({})
  BY <1>2, TablesKept, QueueTyped
<1> QED BY <1>1, <1>2, <1>3, <1>4, <1>6, <1>7, AskStep

\* One UPDATE, of rows that nobody has locked.
LEMMA UpdateKeeps ==
    ASSUME QueueInv, UNCHANGED <<x3, x5, x6, x7, x8>>, NEW S \in SUBSET Jobs,
           x1' \in [Jobs -> JobStatuses], x2' \in [Jobs -> Takers \union {NoOne}], x4' \subseteq Jobs \X Takers,
           \A o \in Jobs : x1'[o] = "OFFERED" => x1[o] = "OFFERED" /\ x2'[o] = x2[o],
           \A o \in Jobs : x1'[o] # x1[o] => \A a \in Dispatchers : D!OrderRow(o) \notin x7[a]
    PROVE  QueueInv'
<1> DEFINE mine == {D!OrderRow(o) : o \in {q \in Jobs : x1'[q] # x1[q]}}
<1>1. OrdersKept(mine)
  BY QueueTyped DEF OrdersKept
<1>2. \A a \in Dispatchers : x7[a] \intersect mine = {}
  OBVIOUS
<1> HIDE DEF mine
<1>3. \A a \in Dispatchers : ClientHolds(x5[a], x7[a], x8[a], x1')
  BY <1>1, <1>2, OthersHold
<1> QED BY <1>1, <1>3 DEF QueueInv, D!TypeOK, OrdersKept, JobStatuses

\* What drivers do with their offers and jobs.
LEMMA DriversKeep ==
    ASSUME QueueInv, D!ExpireOffers \/ \E o \in Jobs : D!AcceptOffer(o) \/ D!DeclineOffer(o) \/ D!Collect(o)
    PROVE  QueueInv'
<1>1. ASSUME NEW o \in Jobs, D!AcceptOffer(o) \/ D!Collect(o) PROVE QueueInv'
  <2>1. PICK to \in {"ASSIGNED", "PICKED_UP"} : x1' = [x1 EXCEPT ![o] = to]
    BY <1>1 DEF D!AcceptOffer, D!Collect
  <2>2. UNCHANGED <<x2, x3, x4, x5, x6, x7, x8>> /\ \A a \in Dispatchers : D!OrderRow(o) \notin x7[a]
    BY <1>1 DEF D!AcceptOffer, D!Collect, D!Standing, D!Free, D!locks
  <2>3. x1' \in [Jobs -> JobStatuses] /\ x1'[o] = to /\ \A u \in Jobs : u # o => x1'[u] = x1[u]
    BY <2>1, QueueTyped DEF JobStatuses
  <2> QED BY <2>2, <2>3, UpdateKeeps, QueueTyped
<1>2. ASSUME NEW o \in Jobs, D!DeclineOffer(o) PROVE QueueInv'
  <2>1. x1' = [x1 EXCEPT ![o] = "PENDING"] /\ x2' = [x2 EXCEPT ![o] = NoOne] /\ x4' = x4 \union {<<o, x2[o]>>}
        /\ UNCHANGED <<x3, x5, x6, x7, x8>> /\ x1[o] = "OFFERED" /\ \A a \in Dispatchers : D!OrderRow(o) \notin x7[a]
    BY <1>2 DEF D!DeclineOffer, D!Standing, D!Free, D!locks
  <2>2. x1' \in [Jobs -> JobStatuses] /\ x1'[o] = "PENDING" /\ \A u \in Jobs : u # o => x1'[u] = x1[u]
    BY <2>1, QueueTyped DEF JobStatuses
  <2>3. x2' \in [Jobs -> Takers \union {NoOne}] /\ \A u \in Jobs : u # o => x2'[u] = x2[u]
    BY <2>1, QueueTyped
  <2>4. x4' \subseteq Jobs \X Takers
    BY <2>1, QueueTyped
  <2> QED BY <2>1, <2>2, <2>3, <2>4, UpdateKeeps
<1>3. ASSUME D!ExpireOffers PROVE QueueInv'
  <2>1. PICK S : /\ S \subseteq {o \in Jobs : D!Standing(o)}
                 /\ x1' = [o \in Jobs |-> IF o \in S THEN "PENDING" ELSE x1[o]]
                 /\ x2' = [o \in Jobs |-> IF o \in S THEN NoOne ELSE x2[o]]
    BY <1>3 DEF D!ExpireOffers
  <2>2. UNCHANGED <<x3, x4, x5, x6, x7, x8>>
    BY <1>3 DEF D!ExpireOffers, D!locks
  <2>3. x1' \in [Jobs -> JobStatuses] /\ x2' \in [Jobs -> Takers \union {NoOne}]
    BY <2>1, QueueTyped DEF JobStatuses
  <2>4. \A o \in Jobs : x1'[o] # x1[o] => \A a \in Dispatchers : D!OrderRow(o) \notin x7[a]
    BY <2>1 DEF D!Standing, D!Free
  <2>5. \A o \in Jobs : x1'[o] = "OFFERED" => x1[o] = "OFFERED" /\ x2'[o] = x2[o]
    BY <2>1
  <2> QED BY <2>2, <2>3, <2>4, <2>5, UpdateKeeps, QueueTyped
<1> QED BY <1>1, <1>2, <1>3

\* Every step keeps the invariant.
LEMMA QueueNext == QueueInv /\ [D!Next]_(D!vars) => QueueInv'
<1> SUFFICES ASSUME QueueInv, [D!Next]_(D!vars) PROVE QueueInv'
  OBVIOUS
<1>1. CASE UNCHANGED D!vars
  BY <1>1 DEF D!vars, D!rows, D!locks, QueueInv, D!TypeOK, ClientHolds
<1> QED BY <1>1, StartKeeps, StepKeeps, LockKeeps, DriversKeep DEF D!Next

\* An offer or an assignment is taken from its driver only by reassigning.
LEMMA OfferStaysKept == QueueInv /\ [D!Next]_(D!vars) => D!OfferKept
<1> SUFFICES ASSUME QueueInv, [D!Next]_(D!vars), NEW o \in Jobs, x1[o] # "PENDING", x1'[o] \in {"OFFERED", "ASSIGNED"},
                    x2'[o] # x2[o]
             PROVE  x1[o] = "ASSIGNED" /\ x1'[o] = "ASSIGNED"
  BY DEF D!OfferKept
<1>1. x2' # x2 /\ x1 \in [Jobs -> JobStatuses] /\ x2 \in [Jobs -> Takers \union {NoOne}]
  BY QueueTyped
<1>2. ASSUME NEW c \in Dispatchers, D!Assign(c) PROVE FALSE
  <2>1. x5[c].at = "put" /\ x2' = [u \in Jobs |-> IF u \in x5[c].orders THEN x5[c].driver ELSE x2[u]]
    BY <1>2 DEF D!Assign, D!At
  <2> QED BY <2>1, QueueTyped DEF ClientHolds
<1>3. ASSUME NEW c \in Dispatchers, D!Unassign(c) PROVE FALSE
  BY <1>1, <1>3 DEF D!Unassign
<1>4. ASSUME NEW c \in Dispatchers, D!Reassign(c) PROVE x1[o] = "ASSIGNED" /\ x1'[o] = "ASSIGNED"
  <2>1. x5[c].at = "move" /\ x2' = [x2 EXCEPT ![The(x5[c])] = x5[c].driver] /\ x1' = x1
    BY <1>4 DEF D!Reassign, D!At, D!TheOrder, The
  <2>2. x1[The(x5[c])] = "ASSIGNED"
    BY <2>1, QueueTyped DEF ClientHolds
  <2> QED BY <1>1, <2>1, <2>2
<1>5. ASSUME NEW c \in Dispatchers, D!Offer(c) PROVE FALSE
  <2>1. \A u \in x5[c].orders : x1[u] = "PENDING"
    BY <1>5 DEF D!Offer, D!AllPending
  <2> QED BY <1>5, <2>1 DEF D!Offer
<1>6. ASSUME NEW u \in Jobs, D!DeclineOffer(u) PROVE FALSE
  BY <1>1, <1>6 DEF D!DeclineOffer
<1>7. ASSUME D!ExpireOffers PROVE FALSE
  BY <1>7 DEF D!ExpireOffers
<1>8. ASSUME NEW c \in Dispatchers, D!Start(c) \/ (\E r \in x8[c] : D!Lock(c, r)) PROVE FALSE
  BY <1>1, <1>8 DEF D!Start, D!Lock, D!rows
<1>9. ASSUME NEW c \in Dispatchers, D!TakeTruck(c) \/ D!WeighBundle(c) \/ D!AssignRefused(c) \/ D!TakeOrder(c)
               \/ D!WeighOrder(c) \/ D!ReassignRefused(c) \/ D!ReadDeclines(c) \/ D!OfferRefused(c) \/ D!DeadlockFound(c)
      PROVE  FALSE
  BY <1>1, <1>9 DEF D!TakeTruck, D!WeighBundle, D!AssignRefused, D!TakeOrder, D!WeighOrder, D!ReassignRefused,
                    D!ReadDeclines, D!OfferRefused, D!DeadlockFound, D!Refuse, D!rows
<1>10. ASSUME NEW u \in Jobs, D!AcceptOffer(u) \/ D!Collect(u) PROVE FALSE
  BY <1>1, <1>10 DEF D!AcceptOffer, D!Collect
<1>11. CASE UNCHANGED D!vars
  BY <1>1, <1>11 DEF D!vars, D!rows
<1>12. ASSUME NEW c \in Dispatchers, D!Step(c) PROVE x1[o] = "ASSIGNED" /\ x1'[o] = "ASSIGNED"
  BY <1>2, <1>3, <1>4, <1>5, <1>9, <1>12 DEF D!Step
<1> QED BY <1>6, <1>7, <1>8, <1>10, <1>11, <1>12 DEF D!Next

-----------------------------------------------------------------------------
(* OrderBoard: the pins of a booking:
   x1 load, x2 listed, x3 cursor, x4 pane, x5 found, x6 asking, x7 map, x8 flow, x9 saves,
   x10 begun. *)

\* What the pins down on the map were asked for.
PinsFit(m, f) ==
    \A c \in {m.pickup, m.delivery} : c # Board!NoClick =>
        /\ m.order # NoOne => m.order \in c.asked
        /\ f.at = "walking" => Head(f.list) \in c.asked

\* No pin that the router has, or is being sent, or is kept for it, is stray.
NoneStray ==
    /\ \A o \in Bookings : x1[o].pins # "stray"
    /\ \A p \in x9 \union x8.banked : p.from # "stray"

\* The inductive invariant of the board.
BoardInv == Board!Keys /\ PinsFit(x7, x8) /\ NoneStray

\* It holds at first.
LEMMA BoardInit == Board!Init => BoardInv
<1> SUFFICES ASSUME Board!Init PROVE BoardInv
  OBVIOUS
<1>1. NoneStray
  BY DEF Board!Init, NoneStray, Board!NoFlow
<1>2. Board!Keys /\ PinsFit(x7, x8)
  BY DEF Board!Init, Board!Keys, PinsFit, Board!NoPlacement, Board!NoFlow, Board!NoClick
<1> QED BY <1>1, <1>2 DEF BoardInv

\* MapInteractionContext.tsx:249-271.
LEMMA NoPinIsStray == BoardInv => Board!PinsWereAskedFor
BY DEF BoardInv, NoneStray, Board!PinsWereAskedFor

\* A placement that begins, or is called off, has no pins yet.
LEMMA NoPins ==
    ASSUME NEW m, NEW f, m.pickup = Board!NoClick, m.delivery = Board!NoClick
    PROVE  PinsFit(m, f)
BY DEF PinsFit

\* Placing starts with no pins,
LEMMA Begins ==
    ASSUME NEW m, NEW o, NEW b
    PROVE  /\ DOMAIN Board!BeginPlacement(m, o, b) = DOMAIN Board!NoPlacement
           /\ Board!BeginPlacement(m, o, b).pickup = Board!NoClick
           /\ Board!BeginPlacement(m, o, b).delivery = Board!NoClick
BY DEF Board!BeginPlacement, Board!NoPlacement

\* and stops with none.
LEMMA CalledOff ==
    ASSUME NEW m
    PROVE  /\ DOMAIN Board!CancelPlacement(m) = DOMAIN Board!NoPlacement
           /\ Board!CancelPlacement(m).pickup = Board!NoClick
           /\ Board!CancelPlacement(m).delivery = Board!NoClick
BY DEF Board!CancelPlacement, Board!NoPlacement

\* What a row sends for the order whose pins are down was asked for.
LEMMA SentWasAsked ==
    ASSUME NEW rows, NEW m, NEW f, PinsFit(m, f), \A r \in rows : r.order # NoOne,
           NEW p \in Board!Sent(rows, m)
    PROVE  p.from # "stray"
<1>1. m.pickup # Board!NoClick /\ m.delivery # Board!NoClick
  BY DEF Board!Sent, Board!BothPins
<1>2. PICK r \in rows : r.order = m.order /\ p = [order |-> r.order, from |-> Board!Origin(r.order, m), by |-> r.by]
  BY <1>1 DEF Board!Sent, Board!BothPins
<1>3. m.order \in m.pickup.asked /\ m.order \in m.delivery.asked
  BY <1>1, <1>2 DEF PinsFit
<1>4. Board!Origin(m.order, m) # "stray"
  BY <1>3 DEF Board!Origin
<1> QED BY <1>2, <1>4

\* A row on the board is of a booking.
LEMMA RowsHaveOrders ==
    ASSUME NEW q, NEW open, NEW r \in Board!Rows(q, open)
    PROVE  r.order # NoOne
BY BookingsAssumption DEF Board!Rows

\* The router takes pins as they are sent.
LEMMA TakenAsSent ==
    ASSUME NEW placements, Board!PlaceOneOrder(placements), Board!Keys, NoneStray,
           \A p \in placements : p.from # "stray"
    PROVE  /\ DOMAIN x1' = Bookings
           /\ \A o \in Bookings : DOMAIN x1'[o] = {"queued", "pins"} /\ x1'[o].pins # "stray"
<1>1. ASSUME NEW o \in Bookings
      PROVE  DOMAIN x1'[o] = {"queued", "pins"} /\ x1'[o].pins # "stray"
  <2>1. CASE \E p \in placements : p.order = o
    <3> DEFINE p == CHOOSE p \in placements : p.order = o
    <3>1. p \in placements
      BY <2>1
    <3>2. x1'[o] = [x1[o] EXCEPT !.pins = p.from]
      BY <2>1 DEF Board!PlaceOneOrder
    <3> HIDE DEF p
    <3>3. DOMAIN x1[o] = {"queued", "pins"}
      BY DEF Board!Keys
    <3> QED BY <3>1, <3>2, <3>3
  <2>2. CASE ~\E p \in placements : p.order = o
    <3>1. x1'[o] = x1[o]
      BY <2>2 DEF Board!PlaceOneOrder
    <3> QED BY <3>1 DEF Board!Keys, NoneStray
  <2> QED BY <2>1, <2>2
<1>2. DOMAIN x1' = Bookings
  BY DEF Board!PlaceOneOrder
<1> QED BY <1>1, <1>2

\* Every step keeps the invariant.
LEMMA BoardNext == BoardInv /\ [Board!Next]_(Board!vars) => BoardInv'
<1> SUFFICES ASSUME BoardInv, [Board!Next]_(Board!vars) PROVE BoardInv'
  OBVIOUS
<1>1. Board!Keys /\ PinsFit(x7, x8) /\ NoneStray
  BY DEF BoardInv
\* The three things that a step may disturb.
<1> DEFINE Loads(l) == /\ DOMAIN l = Bookings
                       /\ \A o \in Bookings : DOMAIN l[o] = {"queued", "pins"} /\ l[o].pins # "stray"
           Maps(m, f) == /\ DOMAIN m = DOMAIN Board!NoPlacement /\ DOMAIN f = DOMAIN Board!NoFlow
                         /\ PinsFit(m, f)
           Asked(ps) == \A p \in ps : p.from # "stray"
<1>2. Loads(x1) /\ Maps(x7, x8) /\ Asked(x9) /\ Asked(x8.banked)
  BY <1>1 DEF Board!Keys, NoneStray
<1>3. (Loads(x1') /\ Maps(x7', x8') /\ Asked(x9') /\ Asked(x8'.banked)) => BoardInv'
  BY DEF BoardInv, Board!Keys, NoneStray
<1>4. \A q, open, m, f : PinsFit(m, f) => Asked(Board!Sent(Board!Rows(q, open), m))
  BY SentWasAsked, RowsHaveOrders
<1>5. \A q, open, m, f : PinsFit(m, f) => Asked(Board!Sent(Board!Rows(q, open) \ Board!Rows(x2, x4), m))
  <2>1. \A q, open, r : r \in Board!Rows(q, open) => r.order # NoOne
    BY RowsHaveOrders
  <2> QED BY SentWasAsked, <2>1
<1>6. \A ps : Board!PlaceOneOrder(ps) /\ Asked(ps) => Loads(x1')
  BY <1>1, TakenAsSent
<1>7. \A m, f : DOMAIN m = DOMAIN Board!NoPlacement /\ DOMAIN f = DOMAIN Board!NoFlow
                 /\ m.pickup = Board!NoClick /\ m.delivery = Board!NoClick => Maps(m, f)
  BY NoPins
<1>8. /\ DOMAIN Board!NoFlow = {"at", "list", "banked"} /\ Board!NoFlow.banked = {} /\ Board!NoFlow.at # "walking"
      /\ DOMAIN Board!NoPlacement = {"order", "step", "pickup", "delivery", "batch", "armed"}
  BY DEF Board!NoFlow, Board!NoPlacement
\* A stack that is no longer walked asks nothing of the map.
<1>9. ASSUME NEW f, DOMAIN f = DOMAIN Board!NoFlow, f.at # "walking"
      PROVE  Maps(x7, f)
  BY <1>2, <1>9 DEF PinsFit
<1>10. Asked({}) /\ \A S, T : Asked(S) /\ Asked(T) => Asked(S \union T)
  OBVIOUS
<1>11. \A S, T : Asked(S) /\ T \subseteq S => Asked(T)
  OBVIOUS
<1>12. \A m, o, b, f : DOMAIN f = DOMAIN Board!NoFlow => /\ Maps(Board!BeginPlacement(m, o, b), f)
                                                        /\ Maps(Board!CancelPlacement(m), f)
  BY <1>7, Begins, CalledOff
<1>13. \A l, b : Loads(l) => \A o \in Bookings : Loads([l EXCEPT ![o].queued = b])
  OBVIOUS
<1>14. ASSUME NEW o \in Bookings, Board!MovedElsewhere(o)
       PROVE  BoardInv'
  BY <1>2, <1>3, <1>13, <1>14 DEF Board!MovedElsewhere
<1>15. ASSUME NEW os, Board!AssignOrders(os)
       PROVE  BoardInv'
  <2>1. Loads(x1')
    BY <1>2, <1>15 DEF Board!AssignOrders
  <2> HIDE DEF Loads, Maps, Asked
  <2> QED BY <1>2, <1>3, <1>15, <2>1 DEF Board!AssignOrders
<1> HIDE DEF Loads, Maps, Asked
<1>16. ASSUME x1' = x1, x7' = x7, x8' = x8, x9' = x9
       PROVE  BoardInv'
  BY <1>2, <1>3, <1>16
<1>17. ASSUME NEW q, NEW open, x9' = x9 \union Board!Sent(Board!Rows(q, open) \ Board!Rows(x2, x4), x7),
              x1' = x1, x7' = x7, x8' = x8
       PROVE  BoardInv'
  BY <1>1, <1>2, <1>3, <1>5, <1>10, <1>17
<1>18. ASSUME NEW o \in Bookings, Board!Select(o)
       PROVE  BoardInv'
  BY <1>17, <1>18 DEF Board!Select, Board!Appear
<1>19. CASE Board!Hear
  BY <1>17, <1>19 DEF Board!Hear, Board!Appear
<1>20. CASE Board!PlaceOnMap
  <2>1. Maps(x7', x8)
    BY <1>2, <1>12, <1>20 DEF Board!PlaceOnMap, Maps
  <2>2. Asked(x9')
    <3>1. PinsFit(x7', x8)
      BY <2>1 DEF Maps
    <3>2. x9' = x9 \union Board!Sent(Board!Rows(x2, x4), x7')
      BY <1>20 DEF Board!PlaceOnMap
    <3> QED BY <1>2, <1>4, <1>10, <3>1, <3>2
  <2> QED BY <1>2, <1>3, <1>20, <2>1, <2>2 DEF Board!PlaceOnMap
<1>21. CASE Board!CancelPlacing
  <2>1. Maps(x7', x8)
    BY <1>2, <1>12, <1>21 DEF Board!CancelPlacing, Maps
  <2> QED BY <1>2, <1>3, <1>21, <2>1 DEF Board!CancelPlacing
<1>22. CASE Board!ArmAnother
  <2>1. x7' = [x7 EXCEPT !.armed = ~x7.armed]
    BY <1>22 DEF Board!ArmAnother, Board!Arm
  <2>2. /\ DOMAIN x7' = DOMAIN x7 /\ x7'.order = x7.order /\ x7'.pickup = x7.pickup /\ x7'.delivery = x7.delivery
    BY <1>2, <1>8, <2>1 DEF Maps
  <2>3. Maps(x7', x8)
    BY <1>2, <2>2 DEF Maps, PinsFit
  <2> QED BY <1>2, <1>3, <1>22, <2>3 DEF Board!ArmAnother
<1>23. ASSUME NEW s \in x9, Board!PlacementSaved(s)
       PROVE  BoardInv'
  <2>1. Asked({s})
    BY <1>2 DEF Asked
  <2>2. Loads(x1')
    BY <1>6, <1>23, <2>1 DEF Board!PlacementSaved
  <2>3. Maps(x7', x8)
    BY <1>2, <1>12, <1>23 DEF Board!PlacementSaved, Maps
  <2>4. x9' \subseteq x9 /\ x8' = x8
    BY <1>23 DEF Board!PlacementSaved
  <2> QED BY <1>2, <1>3, <1>11, <2>2, <2>3, <2>4
<1>24. ASSUME NEW s \in x9, NEW taken, Board!PlacementFailed(s, taken)
       PROVE  BoardInv'
  <2>1. Asked({s})
    BY <1>2 DEF Asked
  <2>2. Loads(x1')
    BY <1>2, <1>6, <1>24, <2>1 DEF Board!PlacementFailed
  <2>3. x9' \subseteq x9 /\ x8' = x8 /\ x7' = x7
    BY <1>24 DEF Board!PlacementFailed
  <2> QED BY <1>2, <1>3, <1>11, <2>2, <2>3
<1>25. ASSUME NEW os, Board!PlaceSelected(os)
       PROVE  BoardInv'
  <2>1. DOMAIN x8' = DOMAIN Board!NoFlow /\ x8'.banked = {}
    BY <1>8, <1>25 DEF Board!PlaceSelected
  <2>2. Maps(x7', x8')
    BY <1>12, <1>25, <2>1 DEF Board!PlaceSelected
  <2> QED BY <1>2, <1>3, <1>10, <1>25, <2>1, <2>2 DEF Board!PlaceSelected
\* On to the next booking.
<1>26. ASSUME NEW banked, NEW m, Board!MoveOn(banked, m), Asked(banked)
       PROVE  Maps(x7', x8') /\ Asked(x8'.banked)
  <2>1. CASE Tail(x8.list) # <<>>
    <3>1. x8' = [at |-> "walking", list |-> Tail(x8.list), banked |-> banked]
      BY <1>26, <2>1 DEF Board!MoveOn
    <3>2. x7' = Board!BeginPlacement(m, Head(Tail(x8.list)), TRUE)
      BY <1>26, <2>1 DEF Board!MoveOn
    <3>3. DOMAIN x8' = DOMAIN Board!NoFlow /\ x8'.banked = banked
      BY <1>8, <3>1
    <3> QED BY <1>12, <1>26, <3>2, <3>3
  <2>2. CASE Tail(x8.list) = <<>>
    <3>1. x8' = Board!NoFlow \/ x8' = [at |-> "saving", list |-> <<>>, banked |-> banked]
      BY <1>26, <2>2 DEF Board!MoveOn
    <3>2. x7' = Board!CancelPlacement(m)
      BY <1>26, <2>2 DEF Board!MoveOn
    <3>3. DOMAIN x8' = DOMAIN Board!NoFlow /\ x8'.banked \in {banked, {}}
      BY <1>8, <3>1
    <3> QED BY <1>10, <1>12, <1>26, <3>2, <3>3
  <2> QED BY <2>1, <2>2
<1>27. CASE Board!SkipThisOne
  BY <1>2, <1>3, <1>26, <1>27 DEF Board!SkipThisOne
<1>28. CASE Board!StopAndSave
  <2>1. x8' = Board!NoFlow \/ x8' = [x8 EXCEPT !.at = "saving", !.list = <<>>]
    BY <1>28 DEF Board!StopAndSave
  <2>2. DOMAIN x8 = DOMAIN Board!NoFlow
    BY <1>2 DEF Maps
  <2>3. DOMAIN x8' = DOMAIN Board!NoFlow /\ (x8'.banked = {} \/ x8'.banked = x8.banked)
    BY <1>8, <2>1, <2>2
  <2>4. Maps(x7', x8')
    BY <1>12, <1>28, <2>3 DEF Board!StopAndSave
  <2> QED BY <1>2, <1>3, <1>10, <1>28, <2>3, <2>4 DEF Board!StopAndSave
<1>29. ASSUME NEW placed \in SUBSET x8.banked, NEW heard, Board!BatchSaved(placed, heard)
       PROVE  BoardInv'
  <2>1. Loads(x1')
    BY <1>2, <1>6, <1>11, <1>29 DEF Board!BatchSaved
  <2>2. x8' = [x8 EXCEPT !.at = IF heard THEN "saved" ELSE "failed"]
    BY <1>29 DEF Board!BatchSaved
  <2>3. DOMAIN x8 = DOMAIN Board!NoFlow
    BY <1>2 DEF Maps
  <2>4. DOMAIN x8' = DOMAIN Board!NoFlow /\ x8'.banked = x8.banked /\ x8'.at # "walking"
    BY <1>8, <2>2, <2>3
  <2> QED BY <1>2, <1>3, <1>9, <1>29, <2>1, <2>4 DEF Board!BatchSaved
<1>30. CASE Board!Done
  BY <1>2, <1>3, <1>8, <1>9, <1>10, <1>30 DEF Board!Done
<1>31. ASSUME NEW placed \in SUBSET x8.banked, Board!ShowMonitor(placed)
       PROVE  BoardInv'
  <2>1. Loads(x1')
    BY <1>2, <1>6, <1>11, <1>31 DEF Board!ShowMonitor
  <2> QED BY <1>2, <1>3, <1>8, <1>9, <1>10, <1>31, <2>1 DEF Board!ShowMonitor
<1>32. CASE Board!ClickMap
  <2> DEFINE click == [for |-> x7.order, asked |-> Board!Asked]
             m == IF x7.step = "pickup" THEN [x7 EXCEPT !.pickup = click, !.step = "delivery"]
                  ELSE [x7 EXCEPT !.delivery = click, !.step = "none"]
  <2>1. /\ x9' = x9 \union Board!Sent(Board!Rows(x2, x4), m) /\ x1' = x1
        /\ \/ /\ Board!Walking /\ Board!BothPins(m)
              /\ Board!MoveOn(x8.banked \union {[order |-> Head(x8.list), from |-> Board!Origin(Head(x8.list), m)]}, m)
           \/ x7' = m /\ x8' = x8
    BY <1>32 DEF Board!ClickMap
  <2>2. /\ x7.order # NoOne => x7.order \in click.asked
        /\ x8.at = "walking" => Head(x8.list) \in click.asked
    BY DEF Board!Asked, Board!Walking
  <2>3. /\ DOMAIN m = DOMAIN x7 /\ m.order = x7.order
        /\ m.pickup \in {x7.pickup, click} /\ m.delivery \in {x7.delivery, click}
    <3> HIDE DEF click
    <3> QED BY <1>2, <1>8 DEF Maps
  <2> HIDE DEF m
  <2>4. Maps(m, x8)
    <3> HIDE DEF click
    <3> QED BY <1>2, <2>2, <2>3 DEF Maps, PinsFit
  <2>5. Asked(x9')
    BY <1>2, <1>4, <1>10, <2>1, <2>4 DEF Maps
  <2>6. CASE x7' = m /\ x8' = x8
    BY <1>2, <1>3, <2>1, <2>4, <2>5, <2>6
  <2>7. ASSUME Board!Walking, Board!BothPins(m)
        PROVE  Asked({[order |-> Head(x8.list), from |-> Board!Origin(Head(x8.list), m)]})
    <3>1. Head(x8.list) \in m.pickup.asked /\ Head(x8.list) \in m.delivery.asked
      BY <2>4, <2>7 DEF Maps, PinsFit, Board!Walking, Board!BothPins
    <3>2. Board!Origin(Head(x8.list), m) # "stray"
      BY <3>1 DEF Board!Origin
    <3> QED BY <3>2 DEF Asked
  <2> QED BY <1>2, <1>3, <1>10, <1>26, <2>1, <2>5, <2>6, <2>7
<1> QED
  BY <1>14, <1>15, <1>16, <1>18, <1>19, <1>20, <1>21, <1>22, <1>23, <1>24, <1>25, <1>27, <1>28, <1>29, <1>30, <1>31, <1>32
  DEF Board!Next, Board!vars, Board!ClosePane, Board!FindReturn, Board!ReturnLoadsFound

-----------------------------------------------------------------------------
(* The whole of it: what runs at the router and on the desk. *)

\* The part that runs starts and goes on as its module says.
LEMMA PartInits ==
    ASSUME AllInit
    PROVE  /\ part = "live"       => Live!Init
           /\ part = "queue"      => D!Init
           /\ part = "board"      => Board!Init
           /\ part = "watch"      => Watch!Init
           /\ part = "roster"     => Ros!Init
           /\ part = "compliance" => C!Init
           /\ part = "bill"       => R!Init
           /\ part = "cards"      => Cards!Init
           /\ part = "staff"      => Staff!Init
           /\ part = "walls"      => Wall!Init
           /\ part = "releases"   => Rel!Init
BY DEF AllInit

LEMMA PartSteps ==
    ASSUME [AllNext]_all
    PROVE  /\ part' = part
           /\ part = "live"       => [Live!Next]_(Live!vars)
           /\ part = "queue"      => [D!Next]_(D!vars)
           /\ part = "board"      => [Board!Next]_(Board!vars)
           /\ part = "watch"      => [Watch!Next]_(Watch!vars)
           /\ part = "roster"     => [Ros!Next]_(Ros!vars)
           /\ part = "compliance" => [C!Next]_(C!vars)
           /\ part = "bill"       => [R!Next]_(R!vars)
           /\ part = "cards"      => [Cards!Next]_(Cards!vars)
           /\ part = "staff"      => [Staff!Next]_(Staff!vars)
           /\ part = "walls"      => [Wall!Next]_(Wall!vars)
           /\ part = "releases"   => [Rel!Next]_(Rel!vars)
<1>1. CASE AllNext
  BY <1>1 DEF AllNext
<1>2. CASE UNCHANGED all
  BY <1>2 DEF all, others, Live!vars, D!vars, D!rows, D!locks, Board!vars, Watch!vars, Ros!vars, C!vars, R!vars,
              Cards!vars, Staff!vars, Wall!vars, Rel!vars
<1> QED BY <1>1, <1>2

\* Each part keeps its own invariant, whatever the others' values are.
OfficeInv ==
    /\ part = "live"       => FleetInv
    /\ part = "queue"      => QueueInv
    /\ part = "board"      => BoardInv
    /\ part = "watch"      => WatchInv
    /\ part = "roster"     => RosterInv
    /\ part = "compliance" => CallsInv
    /\ part = "bill"       => BillInv
    /\ part = "cards"      => Cards!PanelInv
    /\ part = "staff"      => StaffInv
    /\ part = "walls"      => WallInv
    /\ part = "releases"   => ReleaseInv

\* It holds at first.
LEMMA OfficeInit == AllInit => OfficeInv
BY PartInits, FleetInit, QueueInit, BoardInit, WatchInit, RosterInit, CallsInit, BillInit, DeskPanelsInit, StaffInit,
   WallInit, ReleasesInit
DEF OfficeInv

\* Every step keeps it.
LEMMA OfficeNext == OfficeInv /\ [AllNext]_all => OfficeInv'
<1> SUFFICES ASSUME OfficeInv, [AllNext]_all PROVE OfficeInv'
  OBVIOUS
<1>1. part' = part
  BY PartSteps
<1>2. (part = "live" => FleetInv)'
  BY <1>1, PartSteps, FleetNext DEF OfficeInv
<1>3. (part = "compliance" => CallsInv)'
  BY <1>1, PartSteps, CallsNext DEF OfficeInv
<1>4. (part = "bill" => BillInv)'
  BY <1>1, PartSteps, BillNext DEF OfficeInv
<1>5. (part = "cards" => Cards!PanelInv)'
  BY <1>1, PartSteps, DeskPanelsNext DEF OfficeInv
<1>6. (part = "queue" => QueueInv)'
  BY <1>1, PartSteps, QueueNext DEF OfficeInv
<1>7. (part = "board" => BoardInv)'
  BY <1>1, PartSteps, BoardNext DEF OfficeInv
<1>8. (part = "watch" => WatchInv)'
  BY <1>1, PartSteps, WatchNext DEF OfficeInv
<1>9. (part = "roster" => RosterInv)'
  BY <1>1, PartSteps, RosterNext DEF OfficeInv
<1>10. (part = "staff" => StaffInv)'
  BY <1>1, PartSteps, StaffNext DEF OfficeInv
<1>11. (part = "walls" => WallInv)'
  BY <1>1, PartSteps, WallNext DEF OfficeInv
<1>12. (part = "releases" => ReleaseInv)'
  BY <1>1, PartSteps, ReleasesNext DEF OfficeInv
<1> QED BY <1>2, <1>3, <1>4, <1>5, <1>6, <1>7, <1>8, <1>9, <1>10, <1>11, <1>12 DEF OfficeInv

\* RateCards: an order is billed on the version of the card it was quoted on, by
\* the minutes it waited, and the fee and the driver's share make the whole.
THEOREM BillsAddUp == AllSpec => []BillAddsUp
<1>1. OfficeInv => BillAddsUp
  BY DEF OfficeInv, BillInv, BillAddsUp
<1> QED BY OfficeInit, OfficeNext, <1>1, PTL DEF AllSpec

\* LiveFleet: however telemetry is queued, flushed late, lost or retried, a stay in
\* a zone raises one alert, and no sample is left in a batch that nobody will send.
THEOREM FleetFollowed == AllSpec => []FleetIsFollowed
<1>1. OfficeInv => FleetIsFollowed
  BY DEF OfficeInv, FleetInv, FleetIsFollowed, Live!OneAlertPerStay, Live!NoSampleStranded, Live!AlertInv, Live!WakeInv
<1> QED BY OfficeInit, OfficeNext, <1>1, PTL DEF AllSpec

\* Compliance: with one truck, isDriverVerified's counts say that every paper it
\* needs is approved and in force, and an analysis is of the file it is shown with.
THEOREM PapersSound == AllSpec => []PapersAreSound
<1>1. OfficeInv => PapersAreSound
  BY CountsAreRight DEF OfficeInv, CallsInv, PapersInv, PapersAreSound
<1> QED BY OfficeInit, OfficeNext, <1>1, PTL DEF AllSpec

\* Releases: wherever a deployment or a rollback stops, a router that serves knows
\* every migration its code was written for, save what was undone by hand.
THEOREM SchemaServed == AllSpec => []ServesOnItsSchema
<1>1. OfficeInv => ServesOnItsSchema
  <2> SUFFICES ASSUME ReleaseInv, x5.at = "serving"
               PROVE  1..List[x5.code] \subseteq x6.schema \union x8.undone
    BY DEF OfficeInv, ServesOnItsSchema, Rel!ServesOnItsSchema
  <2> QED BY DEF ReleaseInv, Rel!SchemaInv
<1> QED BY OfficeInit, OfficeNext, <1>1, PTL DEF AllSpec

\* OrderBoard, ExceptionWatch: a booking is given no pin that was clicked for
\* others, and "nothing is going wrong" is said only of a job that is not.
THEOREM BoardHonest == AllSpec => []BoardIsHonest
<1>1. OfficeInv => BoardIsHonest
  BY NoPinIsStray, SilenceIsSeen DEF OfficeInv, BoardIsHonest
<1> QED BY OfficeInit, OfficeNext, <1>1, PTL DEF AllSpec

\* Roster, StaffAccount, WallDisplays: the code on the administrator's screen, the
\* second factor that is on and the link on the panel are the ones that work.
THEOREM SecretsGood == AllSpec => []SecretsWork
<1>1. OfficeInv => SecretsWork
  BY CodesLatest, SecondFactorScanned, LinksOpen DEF OfficeInv, SecretsWork
<1> QED BY OfficeInit, OfficeNext, <1>1, PTL DEF AllSpec

\* DispatchLocks, Roster, Compliance: no step of anyone else takes back an offer,
\* a driver's truck or an approval.
THEOREM NothingTakenBack == AllSpec => GivenStaysGiven
<1>1. OfficeInv /\ [AllNext]_all => (part = "queue" => D!OfferKept)
  BY PartSteps, OfferStaysKept DEF OfficeInv
<1>2. OfficeInv /\ [AllNext]_all => (part = "roster" => Ros!InviteTakesNoTruck)
  BY PartSteps, TruckStays DEF OfficeInv
<1>3. OfficeInv /\ [AllNext]_all => (part = "compliance" => C!ReopenedByRejection)
  BY PartSteps, ReopenedOnlyFromOpen DEF OfficeInv
<1>4. OfficeInv /\ [AllNext]_all => [/\ part = "queue"      => D!OfferKept
                                     /\ part = "roster"     => Ros!InviteTakesNoTruck
                                     /\ part = "compliance" => C!ReopenedByRejection]_all
  BY <1>1, <1>2, <1>3
<1> QED BY OfficeInit, OfficeNext, <1>4, PTL DEF AllSpec, GivenStaysGiven

\* RateCards, LiveFleet: a field that nobody typed in is saved as the router read
\* it, and a vehicle's place is never replaced by an older one.
THEOREM NewerStaysOnTop == AllSpec => NewerStays
<1>1. OfficeInv /\ [AllNext]_all => (part = "cards" => Cards!UntouchedFieldsSurvive)
  BY PartSteps, OnlyWhatWasTyped DEF OfficeInv
<1>2. OfficeInv /\ [AllNext]_all => (part = "live" => Live!NewestWins)
  BY PartSteps, NewestIsKept DEF OfficeInv
<1>3. OfficeInv /\ [AllNext]_all => [/\ part = "cards" => Cards!UntouchedFieldsSurvive
                                     /\ part = "live"  => Live!NewestWins]_all
  BY <1>1, <1>2
<1> QED BY OfficeInit, OfficeNext, <1>3, PTL DEF AllSpec, NewerStays

-----------------------------------------------------------------------------
(* FleetWatch: one trouble is told once, however the rows of drivers and jobs
   change between two statements of a sweep, and wherever a sweep ends or the
   router restarts.  It is proved for one router process: two sweeps that read
   the flags side by side may both find the trouble new. *)

USE DEF vars

\* One process of the router runs the watches.
OneRouter == \A q, r \in Routers : q = r

-----------------------------------------------------------------------------
(* The invariant *)

SweepRecords == [at : {"off", "read", "walk", "flag", "tell", "clear"},
                 rows : [Subjects -> Verdicts], flagged : SUBSET Subjects,
                 todo : SUBSET Subjects, on : SUBSET Subjects]

\* The flags, the sweeps and the counts have their types.
ShapeInv ==
    /\ flags \in [Watches -> SUBSET Subjects]
    /\ sweep \in [Sweeps -> SweepRecords]
    /\ told \in [Watches -> [Subjects -> Nat]]

\* A trouble that has been told is flagged for as long as it lasts.
ToldInv ==
    \A w \in Watches, s \in Subjects :
        /\ told[w][s] <= 1
        /\ told[w][s] > 0 /\ InTrouble(w, s) => s \in flags[w]

\* What a sweep in progress may still rely on of what it read, with what has been
\* told and flagged of its watch: whoever it is about to tell has not been told, and
\* whoever it is about to clear is in no trouble that has been.
Relies(c, w, count, flagged, s) ==
    /\ c.at = "read" /\ c.rows[s] = "due" => count[s] = 0 \/ InTrouble(w, s)
    /\ c.at # "off" /\ c.rows[s] \in {"fine", "gone"} => count[s] = 0 \/ ~InTrouble(w, s)
    /\ c.at \in {"walk", "flag", "tell"} /\ s \in c.todo => count[s] = 0 /\ c.rows[s] = "due"
    /\ c.at \in {"flag", "tell"} /\ s \in c.on =>
           count[s] = 0 /\ c.rows[s] = "due" /\ s \notin c.todo
    /\ c.at = "tell" /\ s \in c.on => s \in flagged
    /\ c.at = "clear" /\ s \in c.todo => count[s] = 0 \/ ~InTrouble(w, s)

SweepInv == \A k \in Sweeps, s \in Subjects : Relies(sweep[k], k[2], told[k[2]], flags[k[2]], s)

IInv == ShapeInv /\ ToldInv /\ SweepInv

-----------------------------------------------------------------------------
(* Lemmas *)

\* A sweep at rest, and what a query answers.
LEMMA RowTypes ==
    /\ Off \in SweepRecords /\ Off.at = "off"
    /\ \A w \in Watches : Rows(w) \in [Subjects -> Verdicts]
<1>1. Off \in SweepRecords /\ Off.at = "off"
  BY DEF Off, SweepRecords, Verdicts
<1>2. ASSUME NEW w \in Watches PROVE Rows(w) \in [Subjects -> Verdicts]
  <2>1. \A s : DriverVerdict(s) \in Verdicts
    BY DEF DriverVerdict, Verdicts
  <2>2. \A s : OrderVerdict(s) \in Verdicts
    BY DEF OrderVerdict, Verdicts
  <2>3. \A s : Verdict(w, s) \in Verdicts
    BY <2>1, <2>2 DEF Verdict
  <2> QED BY <2>3 DEF Rows, Verdicts
<1> QED BY <1>1, <1>2

\* With one router there is one sweep of each watch.
LEMMA OneSweep ==
    ASSUME OneRouter
    PROVE  \A j, k \in Sweeps : j[2] = k[2] => j = k
BY DEF OneRouter, Sweeps

\* Nothing is flagged, told or under way.
LEMMA InitSafe == Init => IInv
<1> SUFFICES ASSUME Init PROVE IInv
  OBVIOUS
<1>1. ShapeInv
  BY RowTypes DEF Init, ShapeInv
<1>2. \A w \in Watches, s \in Subjects : told[w][s] = 0
  BY DEF Init
<1>3. ToldInv
  BY <1>2 DEF ToldInv
<1>4. \A k \in Sweeps : sweep[k].at = "off"
  BY RowTypes DEF Init
<1>5. SweepInv
  BY <1>4 DEF SweepInv, Relies
<1> QED BY <1>1, <1>3, <1>5 DEF IInv

\* Whatever becomes of a driver or of a job: a count goes on only while its
\* trouble does.
LEMMA WorldSafe ==
    ASSUME IInv, Retold, UNCHANGED <<flags, sweep>>
    PROVE  IInv'
<1>1. ShapeInv'
  BY DEF IInv, ShapeInv, Retold
<1>2. \A w \in Watches, s \in Subjects :
          \/ told'[w][s] = 0
          \/ told'[w][s] = told[w][s] /\ InTrouble(w, s) /\ InTrouble(w, s)'
  BY DEF Retold
<1>3. ToldInv'
  BY <1>2 DEF IInv, ToldInv
<1>4. \A k \in Sweeps : k[2] \in Watches
  BY DEF Sweeps
<1>5. SweepInv'
  BY <1>2, <1>4 DEF IInv, SweepInv, Relies
<1> QED BY <1>1, <1>3, <1>5 DEF IInv

\* A step of a sweep leaves who is in trouble as it was.
LEMMA TroubleStays ==
    ASSUME UNCHANGED <<order, quiet>>
    PROVE  \A w, s : InTrouble(w, s)' <=> InTrouble(w, s)
BY DEF InTrouble, Rows, Verdict, DriverVerdict, OrderVerdict, Carries

-----------------------------------------------------------------------------
(* The steps of a sweep *)

\* One sweep moves on, with what it sets of its own watch's flags and counts.
LEMMA SweepMoves ==
    ASSUME OneRouter, IInv, NEW k \in Sweeps, NEW c \in SweepRecords,
           NEW flagged \in SUBSET Subjects, NEW count \in [Subjects -> Nat],
           sweep' = [sweep EXCEPT ![k] = c],
           flags' = [flags EXCEPT ![k[2]] = flagged],
           told' = [told EXCEPT ![k[2]] = count],
           UNCHANGED <<order, quiet>>,
           \A s \in Subjects :
               /\ count[s] <= 1
               /\ count[s] > 0 /\ InTrouble(k[2], s) => s \in flagged
               /\ Relies(c, k[2], count, flagged, s)
    PROVE  IInv'
<1>1. k[2] \in Watches /\ \A j \in Sweeps : j[2] \in Watches /\ (j[2] = k[2] => j = k)
  BY OneSweep DEF Sweeps
<1>2. \A j \in Sweeps : sweep'[j] = IF j = k THEN c ELSE sweep[j]
  BY DEF IInv, ShapeInv
<1>3. \A w \in Watches : /\ flags'[w] = IF w = k[2] THEN flagged ELSE flags[w]
                         /\ told'[w] = IF w = k[2] THEN count ELSE told[w]
  BY DEF IInv, ShapeInv
<1>4. ShapeInv'
  BY DEF IInv, ShapeInv
<1>5. \A w, s : InTrouble(w, s)' <=> InTrouble(w, s)
  BY TroubleStays
<1>6. ToldInv'
  BY <1>1, <1>3, <1>5 DEF IInv, ToldInv
<1>7. SweepInv'
  <2> SUFFICES ASSUME NEW j \in Sweeps, NEW s \in Subjects
               PROVE  Relies(sweep'[j], j[2], told'[j[2]], flags'[j[2]], s)
    BY <1>5 DEF SweepInv, Relies
  <2>1. CASE j = k
    BY <1>1, <1>2, <1>3, <2>1
  <2>2. CASE j # k
    BY <1>1, <1>2, <1>3, <2>2 DEF IInv, SweepInv
  <2> QED BY <2>1, <2>2
<1> QED BY <1>4, <1>6, <1>7 DEF IInv

\* The same where neither a flag nor a count changes.
LEMMA OneMoves ==
    ASSUME OneRouter, IInv, NEW k \in Sweeps, NEW c \in SweepRecords,
           sweep' = [sweep EXCEPT ![k] = c], UNCHANGED <<order, quiet, flags, told>>,
           \A s \in Subjects : Relies(c, k[2], told[k[2]], flags[k[2]], s)
    PROVE  IInv'
<1>1. k[2] \in Watches
  BY DEF Sweeps
<1>2. flags[k[2]] \in SUBSET Subjects /\ told[k[2]] \in [Subjects -> Nat]
  BY <1>1 DEF IInv, ShapeInv
<1>3. flags' = [flags EXCEPT ![k[2]] = flags[k[2]]] /\ told' = [told EXCEPT ![k[2]] = told[k[2]]]
  BY DEF IInv, ShapeInv
<1>4. \A s \in Subjects : told[k[2]][s] <= 1 /\ (told[k[2]][s] > 0 /\ InTrouble(k[2], s) => s \in flags[k[2]])
  BY <1>1 DEF IInv, ToldInv
<1> QED BY <1>2, <1>3, <1>4, SweepMoves

\* The rows are read: they say who is in trouble now.
LEMMA QuerySafe == ASSUME OneRouter, IInv, NEW k \in Sweeps, Query(k) PROVE IInv'
<1> DEFINE c == [Off EXCEPT !.at = "read", !.rows = Rows(k[2])]
<1>1. k[2] \in Watches
  BY DEF Sweeps
<1>2. c \in SweepRecords /\ c.at = "read" /\ c.rows = Rows(k[2])
  BY <1>1, RowTypes DEF SweepRecords, Off
<1>3. sweep' = [sweep EXCEPT ![k] = c] /\ UNCHANGED <<order, quiet, flags, told>>
  BY DEF Query
<1>4. \A s \in Subjects : /\ c.rows[s] = "due" => InTrouble(k[2], s)
                          /\ c.rows[s] \in {"fine", "gone"} => ~InTrouble(k[2], s)
  BY <1>2 DEF InTrouble
<1> HIDE DEF c
<1>5. \A s \in Subjects : Relies(c, k[2], told[k[2]], flags[k[2]], s)
  BY <1>2, <1>4 DEF Relies
<1> QED BY <1>2, <1>3, <1>5, OneMoves

\* Whoever is new has not been told: a trouble that lasts and was told is flagged.
LEMMA ReadFlagsSafe == ASSUME OneRouter, IInv, NEW k \in Sweeps, ReadFlags(k) PROVE IInv'
<1> DEFINE todo == {s \in About(k[2]) : sweep[k].rows[s] = "due"} \ flags[k[2]]
           c == [sweep[k] EXCEPT !.at = "walk", !.flagged = flags[k[2]], !.todo = todo]
<1>1. k[2] \in Watches
  BY DEF Sweeps
<1>2. sweep[k] \in SweepRecords /\ flags[k[2]] \in SUBSET Subjects /\ todo \in SUBSET Subjects
  BY <1>1 DEF IInv, ShapeInv, About, Subjects
<1>3. c \in SweepRecords /\ c.at = "walk" /\ c.rows = sweep[k].rows /\ c.todo = todo
  <2> HIDE DEF todo
  <2> QED BY <1>2 DEF SweepRecords
<1>4. sweep' = [sweep EXCEPT ![k] = c] /\ UNCHANGED <<order, quiet, flags, told>> /\ At(k, "read")
  BY DEF ReadFlags
<1>5. \A s \in todo : told[k[2]][s] = 0 /\ sweep[k].rows[s] = "due"
  <2> SUFFICES ASSUME NEW s \in todo PROVE told[k[2]][s] = 0 /\ sweep[k].rows[s] = "due"
    OBVIOUS
  <2>1. s \in Subjects /\ sweep[k].rows[s] = "due" /\ s \notin flags[k[2]]
    BY <1>2
  <2>2. told[k[2]][s] = 0 \/ InTrouble(k[2], s)
    BY <1>4, <2>1 DEF IInv, SweepInv, Relies, At
  <2>3. told[k[2]][s] \in Nat /\ ~(told[k[2]][s] > 0 /\ InTrouble(k[2], s))
    BY <1>1, <2>1 DEF IInv, ShapeInv, ToldInv
  <2> QED BY <2>1, <2>2, <2>3
<1>6. \A s \in Subjects : c.rows[s] \in {"fine", "gone"} => told[k[2]][s] = 0 \/ ~InTrouble(k[2], s)
  BY <1>3, <1>4 DEF IInv, SweepInv, Relies, At
<1> HIDE DEF c, todo
<1>7. \A s \in Subjects : Relies(c, k[2], told[k[2]], flags[k[2]], s)
  BY <1>3, <1>5, <1>6 DEF Relies
<1> QED BY <1>3, <1>4, <1>7, OneMoves

\* The next of those to be told of.
LEMMA TakeSafe == ASSUME OneRouter, IInv, NEW k \in Sweeps, NEW x \in Subjects, Take(k, x) PROVE IInv'
<1> DEFINE c == [sweep[k] EXCEPT !.at = "flag", !.on = {x}, !.todo = @ \ {x}]
<1>1. sweep[k] \in SweepRecords /\ At(k, "walk") /\ x \in sweep[k].todo
  BY DEF IInv, ShapeInv, Take
<1>2. c \in SweepRecords /\ c.at = "flag" /\ c.rows = sweep[k].rows /\ c.todo = sweep[k].todo \ {x} /\ c.on = {x}
  BY <1>1 DEF SweepRecords
<1>3. sweep' = [sweep EXCEPT ![k] = c] /\ UNCHANGED <<order, quiet, flags, told>>
  BY DEF Take
<1>4. \A s \in Subjects : /\ s \in sweep[k].todo => told[k[2]][s] = 0 /\ sweep[k].rows[s] = "due"
                          /\ sweep[k].rows[s] \in {"fine", "gone"} => told[k[2]][s] = 0 \/ ~InTrouble(k[2], s)
  BY <1>1 DEF IInv, SweepInv, Relies, At
<1> HIDE DEF c
<1>5. \A s \in Subjects : Relies(c, k[2], told[k[2]], flags[k[2]], s)
  BY <1>1, <1>2, <1>4 DEF Relies
<1> QED BY <1>2, <1>3, <1>5, OneMoves

\* The flag, which only ever adds to what is flagged.
LEMMA FlagSafe == ASSUME OneRouter, IInv, NEW k \in Sweeps, Flag(k) PROVE IInv'
<1> DEFINE c == [sweep[k] EXCEPT !.at = "tell"]
           flagged == flags[k[2]] \union sweep[k].on
<1>1. k[2] \in Watches /\ sweep[k] \in SweepRecords /\ At(k, "flag")
  BY DEF IInv, ShapeInv, Sweeps, Flag
<1>2. /\ c \in SweepRecords /\ c.at = "tell" /\ c.rows = sweep[k].rows
      /\ c.todo = sweep[k].todo /\ c.on = sweep[k].on
  BY <1>1 DEF SweepRecords
<1>3. flagged \in SUBSET Subjects /\ told[k[2]] \in [Subjects -> Nat]
  BY <1>1 DEF IInv, ShapeInv, SweepRecords
<1>4. /\ sweep' = [sweep EXCEPT ![k] = c] /\ flags' = [flags EXCEPT ![k[2]] = flagged]
      /\ told' = [told EXCEPT ![k[2]] = told[k[2]]] /\ UNCHANGED <<order, quiet>>
  BY DEF Flag, IInv, ShapeInv
<1>5. \A s \in Subjects : told[k[2]][s] <= 1 /\ (told[k[2]][s] > 0 /\ InTrouble(k[2], s) => s \in flagged)
  BY <1>1 DEF IInv, ToldInv
<1>6. \A s \in Subjects : Relies(c, k[2], told[k[2]], flagged, s)
  BY <1>1, <1>2 DEF IInv, SweepInv, Relies, At
<1> HIDE DEF c, flagged
<1> QED BY <1>2, <1>3, <1>4, <1>5, <1>6, SweepMoves

\* The alert, of a trouble that is flagged and was not told.
LEMMA TellSafe == ASSUME OneRouter, IInv, NEW k \in Sweeps, Tell(k) PROVE IInv'
<1> DEFINE c == [sweep[k] EXCEPT !.at = "walk", !.on = {}]
           count == [s \in Subjects |-> IF s \in sweep[k].on THEN told[k[2]][s] + 1 ELSE told[k[2]][s]]
<1>1. k[2] \in Watches /\ sweep[k] \in SweepRecords /\ At(k, "tell")
  BY DEF IInv, ShapeInv, Sweeps, Tell
<1>2. /\ c \in SweepRecords /\ c.at = "walk" /\ c.rows = sweep[k].rows
      /\ c.todo = sweep[k].todo /\ c.on = {}
  BY <1>1 DEF SweepRecords
<1>3. /\ flags[k[2]] \in SUBSET Subjects /\ told[k[2]] \in [Subjects -> Nat]
      /\ count \in [Subjects -> Nat]
  BY <1>1 DEF IInv, ShapeInv
<1>4. /\ sweep' = [sweep EXCEPT ![k] = c] /\ flags' = [flags EXCEPT ![k[2]] = flags[k[2]]]
      /\ told' = [told EXCEPT ![k[2]] = count] /\ UNCHANGED <<order, quiet>>
  BY DEF Tell, IInv, ShapeInv
<1>5. \A s \in Subjects : /\ Relies(sweep[k], k[2], told[k[2]], flags[k[2]], s)
                          /\ told[k[2]][s] <= 1
                          /\ told[k[2]][s] > 0 /\ InTrouble(k[2], s) => s \in flags[k[2]]
  BY <1>1 DEF IInv, SweepInv, ToldInv
<1>6. \A s \in Subjects : count[s] <= 1 /\ (count[s] > 0 /\ InTrouble(k[2], s) => s \in flags[k[2]])
  BY <1>1, <1>3, <1>5 DEF Relies, At
<1>7. \A s \in Subjects : Relies(c, k[2], count, flags[k[2]], s)
  BY <1>1, <1>2, <1>5 DEF Relies, At
<1> HIDE DEF c, count
<1> QED BY <1>2, <1>3, <1>4, <1>6, <1>7, SweepMoves

\* Who is over: by the drivers' rows of the first query, or by the jobs' new ones.
LEMMA ReconcileSafe == ASSUME OneRouter, IInv, NEW k \in Sweeps, Reconcile(k) PROVE IInv'
<1> DEFINE rows == IF k[2] = "stuck" THEN Rows("stuck") ELSE sweep[k].rows
           todo == {s \in sweep[k].flagged : IsOver(k, s, rows)}
           c == [sweep[k] EXCEPT !.at = "clear", !.todo = todo]
<1>1. k[2] \in Watches /\ sweep[k] \in SweepRecords /\ At(k, "walk")
  BY DEF IInv, ShapeInv, Sweeps, Reconcile
<1>2. todo \in SUBSET Subjects
  BY <1>1 DEF SweepRecords
<1>3. c \in SweepRecords /\ c.at = "clear" /\ c.rows = sweep[k].rows /\ c.todo = todo
  <2> HIDE DEF todo
  <2> QED BY <1>1, <1>2 DEF SweepRecords
<1>4. sweep' = [sweep EXCEPT ![k] = c] /\ UNCHANGED <<order, quiet, flags, told>>
  BY DEF Reconcile
<1>5. \A s \in Subjects : Relies(sweep[k], k[2], told[k[2]], flags[k[2]], s)
  BY DEF IInv, SweepInv
<1>6. \A s \in todo : told[k[2]][s] = 0 \/ ~InTrouble(k[2], s)
  <2>1. CASE k[2] = "stuck"
    BY <2>1 DEF IsOver, InTrouble
  <2>2. CASE k[2] # "stuck"
    BY <1>1, <1>2, <1>5, <2>2 DEF IsOver, Relies, At
  <2> QED BY <2>1, <2>2
<1>7. \A s \in Subjects : Relies(c, k[2], told[k[2]], flags[k[2]], s)
  <2> HIDE DEF todo, c
  <2> QED BY <1>1, <1>3, <1>5, <1>6 DEF Relies, At
<1> HIDE DEF c
<1> QED BY <1>3, <1>4, <1>7, OneMoves

\* The flag of a trouble that is over, or that is new and was never told, goes.
LEMMA ClearSafe == ASSUME OneRouter, IInv, NEW k \in Sweeps, NEW x \in Subjects, Clear(k, x) PROVE IInv'
<1> DEFINE c == [sweep[k] EXCEPT !.todo = @ \ {x}]
           flagged == flags[k[2]] \ {x}
<1>1. k[2] \in Watches /\ sweep[k] \in SweepRecords /\ At(k, "clear") /\ x \in sweep[k].todo
  BY DEF IInv, ShapeInv, Sweeps, Clear
<1>2. /\ c \in SweepRecords /\ c.at = "clear" /\ c.rows = sweep[k].rows
      /\ c.todo = sweep[k].todo \ {x}
  BY <1>1 DEF SweepRecords, At
<1>3. flagged \in SUBSET Subjects /\ told[k[2]] \in [Subjects -> Nat]
  BY <1>1 DEF IInv, ShapeInv
<1>4. /\ sweep' = [sweep EXCEPT ![k] = c] /\ flags' = [flags EXCEPT ![k[2]] = flagged]
      /\ told' = [told EXCEPT ![k[2]] = told[k[2]]] /\ UNCHANGED <<order, quiet>>
  BY DEF Clear, IInv, ShapeInv
<1>5. \A s \in Subjects : Relies(sweep[k], k[2], told[k[2]], flags[k[2]], s)
  BY DEF IInv, SweepInv
<1>6. told[k[2]][x] = 0 \/ ~InTrouble(k[2], x)
  BY <1>1, <1>5 DEF Relies, At
<1>7. \A s \in Subjects : told[k[2]][s] <= 1 /\ (told[k[2]][s] > 0 /\ InTrouble(k[2], s) => s \in flagged)
  BY <1>1, <1>6 DEF IInv, ToldInv
<1>8. \A s \in Subjects : Relies(c, k[2], told[k[2]], flagged, s)
  BY <1>1, <1>2, <1>5 DEF Relies, At
<1> HIDE DEF c, flagged
<1> QED BY <1>2, <1>3, <1>4, <1>7, <1>8, SweepMoves

\* A sweep is over, or fails half way, or the process starts again.
LEMMA StopSafe ==
    ASSUME IInv, UNCHANGED <<order, quiet, flags, told>>,
           \A k \in Sweeps : sweep'[k] \in {Off, sweep[k]},
           sweep' \in [Sweeps -> SweepRecords]
    PROVE  IInv'
<1>1. ShapeInv'
  BY DEF IInv, ShapeInv
<1>2. \A w, s : InTrouble(w, s)' <=> InTrouble(w, s)
  BY TroubleStays
<1>3. ToldInv'
  BY <1>2 DEF IInv, ToldInv
<1>4. Off.at = "off"
  BY RowTypes
<1>5. SweepInv'
  <2> SUFFICES ASSUME NEW j \in Sweeps, NEW s \in Subjects
               PROVE  Relies(sweep'[j], j[2], told[j[2]], flags[j[2]], s)
    BY <1>2 DEF SweepInv, Relies
  <2>1. CASE sweep'[j] = Off
    BY <1>4, <2>1 DEF Relies
  <2>2. CASE sweep'[j] = sweep[j]
    BY <2>2 DEF IInv, SweepInv
  <2> QED BY <2>1, <2>2
<1> QED BY <1>1, <1>3, <1>5 DEF IInv

\* Every step keeps the invariant.
LEMMA Inductive ==
    ASSUME OneRouter
    PROVE  IInv /\ [Next]_vars => IInv'
<1> SUFFICES ASSUME IInv, [Next]_vars PROVE IInv'
  OBVIOUS
<1>1. CASE \E o \in Orders : GrowOld(o) \/ \E status \in Statuses, d \in Drivers : Change(o, status, d)
  BY <1>1, WorldSafe DEF GrowOld, Change
<1>2. CASE \E d \in Drivers : GoQuiet(d) \/ Report(d)
  BY <1>2, WorldSafe DEF GoQuiet, Report
<1>3. ASSUME NEW k \in Sweeps, EndSweep(k) PROVE IInv'
  BY <1>3, StopSafe, RowTypes DEF EndSweep, IInv, ShapeInv
<1>4. ASSUME NEW r \in Routers, Restart(r) PROVE IInv'
  BY <1>4, StopSafe, RowTypes DEF Restart, IInv, ShapeInv
<1>5. CASE UNCHANGED vars
  <2>1. \A k \in Sweeps : sweep'[k] = sweep[k]
    BY <1>5
  <2> QED BY <1>5, <2>1, StopSafe DEF IInv, ShapeInv
<1>6. ASSUME NEW k \in Sweeps,
             \/ Query(k) \/ ReadFlags(k) \/ Flag(k) \/ Tell(k) \/ Reconcile(k)
             \/ \E s \in Subjects : Take(k, s) \/ Clear(k, s)
      PROVE  IInv'
  BY <1>6, QuerySafe, ReadFlagsSafe, FlagSafe, TellSafe, ReconcileSafe, TakeSafe, ClearSafe
<1> QED BY <1>1, <1>2, <1>3, <1>4, <1>5, <1>6 DEF Next

\* telemetryQueue.js:267, 306: with one router, one trouble is told once, however
\* many sweeps see it, whatever its row goes through between their statements, and
\* wherever they fail: the flags in Redis outlive the sweep, are set before anybody
\* is told, and go only with the trouble.
THEOREM TroubleToldOnce ==
    ASSUME OneRouter
    PROVE  Spec => []ToldOnce
<1>1. IInv => ToldOnce
  BY DEF IInv, ToldInv, ToldOnce
<1> QED BY InitSafe, Inductive, <1>1, PTL DEF Spec
=============================================================================
