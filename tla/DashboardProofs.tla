-------------------------- MODULE DashboardProofs --------------------------
(***************************************************************************)
(* Theorems about Dashboard, for every set of documents, every time zone,  *)
(* set of windows and length of the day.                                   *)
(***************************************************************************)
EXTENDS Dashboard, FoldFacts

-----------------------------------------------------------------------------
(* Sums of samples.                                                        *)

\* The second components of a set of samples, added up.
Sums(h, S) == h = [s \in SUBSET S |->
    IF s = {} THEN 0
    ELSE (CHOOSE x \in s : TRUE)[2] + h[s \ {CHOOSE x \in s : TRUE}]]
SampleSum(S) == (CHOOSE h : Sums(h, S))[S]

LEMMA SampleSums ==
    ASSUME NEW S
    PROVE  MapThenSumSet(LAMBDA sample : sample[2], S) = SampleSum(S)
  BY DEF MapThenSumSet, MapThenFoldSet, SampleSum, Sums

\* g adds up samples one by one, in whatever order.
AddsOneByOne(g, S) ==
    /\ g[{}] = 0
    /\ \A s \in (SUBSET S) \ {{}} : \E x \in s : g[s] = x[2] + g[s \ {x}]

LEMMA SampleSumUnfolds ==
    ASSUME NEW S, IsFiniteSet(S), \A x \in S : x[2] \in Int
    PROVE  \E g : g[S] = SampleSum(S) /\ AddsOneByOne(g, S)
<1> DEFINE op == [x \in S |-> [v \in Int |-> x[2] + v]]
           First(s) == CHOOSE x \in s : TRUE
           pick == [s \in (SUBSET S) \ {{}} |-> First(s)]
           sum == CHOOSE h : Sums(h, S)
<1>1. \A s \in (SUBSET S) \ {{}} : First(s) \in s
  OBVIOUS
<1>2. \A h : Sums(h, S) <=>
         h = [s \in SUBSET S |-> IF s = {} THEN 0
                                 ELSE First(s)[2] + h[s \ {First(s)}]]
  BY DEF Sums
<1> HIDE DEF First
<1>3. /\ pick \in [(SUBSET S) \ {{}} -> S]
      /\ \A s \in (SUBSET S) \ {{}} : pick[s] = First(s) /\ pick[s] \in s
  BY <1>1
<1>4. op \in [S -> [Int -> Int]] /\ \A x \in S : \A v \in Int : op[x][v] = x[2] + v
  OBVIOUS
<1> HIDE DEF op, pick
<1>5. PICK g \in [SUBSET S -> Int] : Folds(g, S, 0, op, pick)
  <2>1. \A s \in (SUBSET S) \ {{}} : pick[s] \in s
    BY <1>3
  <2>2. pick \in [(SUBSET S) \ {{}} -> S] /\ op \in [S -> [Int -> Int]] /\ 0 \in Int
    BY <1>3, <1>4
  <2> QED
    BY <2>1, <2>2, FoldExists
<1>6. \A s \in SUBSET S : g[s] = IF s = {} THEN 0 ELSE First(s)[2] + g[s \ {First(s)}]
  <2> SUFFICES ASSUME NEW s \in SUBSET S, s # {}
               PROVE  g[s] = First(s)[2] + g[s \ {First(s)}]
    BY <1>5 DEF Folds
  <2>1. pick[s] = First(s) /\ First(s) \in S
    BY <1>3
  <2>2. g[s \ {First(s)}] \in Int
    OBVIOUS
  <2> QED
    BY <1>4, <1>5, <2>1, <2>2 DEF Folds
<1>7. Sums(g, S)
  BY <1>2, <1>6
<1>8. Sums(sum, S)
  BY <1>7
<1>9. sum[{}] = 0
      /\ \A s \in (SUBSET S) \ {{}} : sum[s] = First(s)[2] + sum[s \ {First(s)}]
  BY <1>2, <1>8
<1>10. sum[S] = SampleSum(S)
  BY DEF SampleSum
<1> HIDE DEF sum
<1>11. \A s \in (SUBSET S) \ {{}} : \E x \in s : sum[s] = x[2] + sum[s \ {x}]
  BY <1>3, <1>9
<1> QED
  BY <1>9, <1>10, <1>11 DEF AddsOneByOne

\* A bound of all samples bounds their sum.
LEMMA SumBound ==
    ASSUME NEW S, IsFiniteSet(S), \A x \in S : x[2] \in Int,
           NEW k \in Int, NEW b \in Int, \A x \in S : k * x[2] <= b
    PROVE  /\ SampleSum(S) \in Int
           /\ k * SampleSum(S) <= Cardinality(S) * b
<1>1. PICK g : g[S] = SampleSum(S) /\ AddsOneByOne(g, S)
  BY SampleSumUnfolds
<1> DEFINE Holds(s) == g[s] \in Int /\ k * g[s] <= Cardinality(s) * b
           T == {s \in SUBSET S : Holds(s)}
<1>2. ASSUME NEW s \in SUBSET S, NEW x \in s, g[s] = x[2] + g[s \ {x}], Holds(s \ {x})
      PROVE  Holds(s)
  <2> DEFINE rest == g[s \ {x}]
             n == Cardinality(s \ {x})
  <2>1. n \in Nat /\ Cardinality(s) = n + 1
    <3>1. IsFiniteSet(s)
      BY FS_Subset
    <3>2. /\ Cardinality(s \ {x}) = Cardinality(s) - 1 /\ Cardinality(s) \in Nat
          /\ IsFiniteSet(s \ {x})
      BY <3>1, FS_RemoveElement, FS_CardinalityType
    <3>3. Cardinality(s \ {x}) \in Nat
      BY <3>2, FS_CardinalityType
    <3> QED
      BY <3>2, <3>3
  <2>2. rest \in Int /\ k * rest <= n * b /\ x[2] \in Int /\ k * x[2] <= b
    BY <1>2
  <2>3. g[s] = x[2] + rest
    BY <1>2
  <2> HIDE DEF rest, n
  <2>4. k * g[s] = k * x[2] + k * rest
    BY <2>2, <2>3
  <2>5. (n + 1) * b = n * b + b
    BY <2>1
  <2>6. k * g[s] <= (n + 1) * b
    BY <2>1, <2>2, <2>4, <2>5
  <2> QED
    BY <2>1, <2>2, <2>3, <2>6
<1>3. Holds({})
  BY <1>1, FS_EmptySet DEF AddsOneByOne
<1> HIDE DEF Holds
<1>4. {} \in T
  BY <1>3
<1>5. ASSUME NEW s \in (SUBSET S) \ {{}}, \A x \in s : s \ {x} \in T PROVE s \in T
  <2>1. PICK x \in s : g[s] = x[2] + g[s \ {x}]
    BY <1>1 DEF AddsOneByOne
  <2> QED
    BY <1>2, <1>5, <2>1
<1> HIDE DEF T
<1>6. \A s \in SUBSET S : s \in T
  BY <1>4, <1>5, Subsets
<1>7. Holds(S)
  BY <1>6 DEF T
<1> QED
  BY <1>1, <1>7 DEF Holds

-----------------------------------------------------------------------------
(* The document.                                                           *)

LEMMA LocalDates == ASSUME NEW t \in Nat PROVE LocalDate(t) \in Int
  BY DashboardAssumption DEF LocalDate

\* Averages are natural numbers, and there is one for each target and protocol.
GoodReadings(p) == OneReadingEach(p) /\ \A r \in p.latency : r.average \in Nat

\* Parsing keeps the points, their times and what is known of their readings.
LEMMA ParsedPoints ==
    ASSUME NEW document \in Documents
    PROVE  /\ IsFiniteSet(document) /\ IsFiniteSet(Parse(document))
           /\ \A p \in document \cup Parse(document) : p.t \in Nat
           /\ \A p \in Parse(document) : GoodReadings(p)
           /\ {LocalDate(p.t) : p \in Parse(document)} = {LocalDate(p.t) : p \in document}
<1> DEFINE Parsed(p) == [p EXCEPT !.latency = {Normalize(raw) : raw \in @}]
           parsed == [p \in document |-> Parsed(p)]
<1>1. IsFiniteSet(document) /\ \A p \in document : p.t \in Nat
  BY DashboardAssumption DEF IsPoint
<1>2. \A p \in document : Parsed(p).t = p.t
  <2> SUFFICES ASSUME NEW p \in document PROVE Parsed(p).t = p.t
    OBVIOUS
  <2>1. p = [t |-> p.t, speed |-> p.speed, latency |-> p.latency]
    BY DashboardAssumption DEF IsPoint
  <2>2. "t" \in DOMAIN p
    BY <2>1
  <2> QED
    BY <2>2
<1>3. Parse(document) = {Parsed(p) : p \in document}
  BY DEF Parse
<1> HIDE DEF Parsed
<1>4. IsFiniteSet(Parse(document))
  <2>1. parsed \in Surjection(document, Parse(document))
    BY <1>3 DEF Surjection
  <2> QED
    BY <1>1, <2>1, FS_Surjection
<1>5. \A p \in Parse(document) : \E o \in document : p = Parsed(o) /\ p.t = o.t
  BY <1>2, <1>3
<1>6. {LocalDate(p.t) : p \in Parse(document)} = {LocalDate(p.t) : p \in document}
  BY <1>2, <1>3, <1>5
<1>7. \A p \in Parse(document) : GoodReadings(p)
  <2> SUFFICES ASSUME NEW p \in document PROVE GoodReadings(Parsed(p))
    BY <1>3
  <2>1. /\ p = [t |-> p.t, speed |-> p.speed, latency |-> p.latency]
        /\ OneReadingEach(p) /\ \A r \in p.latency : r.average \in Nat
    BY DashboardAssumption DEF IsPoint
  <2>2. Parsed(p).latency = {Normalize(raw) : raw \in p.latency}
    BY <2>1 DEF Parsed
  <2>3. \A raw : /\ Normalize(raw).target = raw.target
                 /\ Normalize(raw).protocol = raw.protocol
                 /\ Normalize(raw).average = raw.average
    BY Zenon DEF Normalize
  <2>4. \A r \in Parsed(p).latency : \E raw \in p.latency : r = Normalize(raw)
    BY <2>2
  <2>5. OneReadingEach(Parsed(p))
    BY <2>1, <2>3, <2>4 DEF OneReadingEach
  <2> QED
    BY <2>1, <2>3, <2>4, <2>5 DEF GoodReadings
<1> QED
  BY <1>1, <1>4, <1>5, <1>6, <1>7

\* The newest date is one of the document's dates.
LEMMA NewestDate ==
    ASSUME NEW data, IsFiniteSet(data), \A p \in data : p.t \in Nat
    PROVE  Max({LocalDate(p.t) : p \in data} \cup {NoDate})
              \in {NoDate} \cup {LocalDate(p.t) : p \in data}
<1> DEFINE f == [p \in data |-> LocalDate(p.t)]
           D == {LocalDate(p.t) : p \in data}
<1>1. f \in Surjection(data, D) /\ D \in SUBSET Int
  BY LocalDates DEF Surjection
<1>2. NoDate \in Int
  BY DEF NoDate
<1> HIDE DEF f, D
<1>3. Max(D \cup {NoDate}) \in {NoDate} \cup D
  BY <1>1, <1>2, FiniteValues
<1> QED
  BY <1>3 DEF D

-----------------------------------------------------------------------------
(* The page.                                                               *)

DataInv ==
    /\ IsFiniteSet(rawData)
    /\ \A p \in rawData : p.t \in Nat /\ GoodReadings(p)
    /\ pending => rawData = {}

ControlsInv ==
    /\ pending \in BOOLEAN /\ windowShown \in BOOLEAN
    /\ date \in {NoDate} \cup {LocalDate(p.t) : p \in rawData}
    /\ protocol \in Protocols \cup {Both}
    /\ window \in DOMAIN Duration \cup {WholeDay}
    /\ view = "content" => target \in offered \cup {All}
    /\ now \in Opened..Horizon

ThemeInv == storable \in BOOLEAN /\ theme \in Themes /\ stored \in SUBSET Themes

\* What the page shows was made from what the filters select.
ViewInv ==
    /\ view \in {"loading", "error", "empty", "content"}
    /\ view = "content" <=> Selected # {}
    /\ view # "content" => latencyChart = {} /\ speedChart = {} /\ cards = {} /\ speed = {}

\* The key of an entry of the cache names the filters its statistics are of, and
\* the document does not change once it is loaded.
CacheInv ==
    /\ \A key \in DOMAIN cache :
          cache[key] = Stats(Filtered(rawData, key[1], key[2]), key[2])
    /\ view = "content" => cards = Stats(Selected, protocol)

ChartInv ==
    /\ \A chart \in latencyChart :
          /\ chart.shows = Series(InWindow(Selected, date, chart.at, window), protocol, target)
          /\ chart.at \in Nat
    /\ \A c, d \in latencyChart : c = d
    /\ \A c, d \in speedChart : c = d

PageInv == DataInv /\ ControlsInv /\ ThemeInv /\ ViewInv /\ CacheInv /\ ChartInv

LEMMA PageStarts == Init => PageInv
<1> SUFFICES ASSUME Init PROVE PageInv
  OBVIOUS
<1>1. DataInv
  BY FS_EmptySet DEF Init, DataInv
<1>2. ControlsInv
  BY DashboardAssumption DEF Init, ControlsInv
<1>3. ThemeInv
  BY DEF Init, ThemeInv, StoredTheme, Themes
<1>4. ViewInv /\ CacheInv /\ ChartInv
  BY DEF Init, ViewInv, CacheInv, ChartInv, Selected, Filtered
<1> QED
  BY <1>1, <1>2, <1>3, <1>4 DEF PageInv

\* A latency chart that is drawn now.
LEMMA ChartDrawn ==
    ASSUME NEW data, RenderLatencyChart(data), now \in Nat
    PROVE  /\ \A chart \in latencyChart' :
                 /\ chart.shows = Series(InWindow(data, date', chart.at, window'),
                                        protocol', target')
                 /\ chart.at \in Nat
           /\ \A c, d \in latencyChart' : c = d
<1> DEFINE drawn == [shows |-> Series(InWindow(data, date', now, window'), protocol', target'),
                     theme |-> theme', at |-> now]
<1>1. latencyChart' = {drawn}
  BY DEF RenderLatencyChart
<1>2. drawn.at = now
      /\ drawn.shows = Series(InWindow(data, date', now, window'), protocol', target')
  OBVIOUS
<1> HIDE DEF drawn
<1> QED
  BY <1>1, <1>2

\* Both charts.
LEMMA ChartsDrawn ==
    ASSUME NEW data, RenderCharts(data), now \in Nat, data = Selected'
    PROVE  ChartInv'
<1>1. \A c, d \in speedChart' : c = d
  BY DEF RenderCharts
<1>2. /\ \A chart \in latencyChart' :
            /\ chart.shows = Series(InWindow(data, date', chart.at, window'), protocol', target')
            /\ chart.at \in Nat
      /\ \A c, d \in latencyChart' : c = d
  BY ChartDrawn DEF RenderCharts
<1> QED
  BY <1>1, <1>2 DEF ChartInv

\* What ApplyFilters makes of a cache, whatever document and filters it finds.
LEMMA FiltersApplied ==
    ASSUME NEW known, ApplyFilters(known), now \in Nat,
           window \in DOMAIN Duration \cup {WholeDay}, windowShown \in BOOLEAN,
           \A key \in DOMAIN known :
              known[key] = Stats(Filtered(rawData', key[1], key[2]), key[2])
    PROVE  /\ ViewInv' /\ CacheInv' /\ ChartInv'
           /\ window' \in DOMAIN Duration \cup {WholeDay} /\ windowShown' \in BOOLEAN
           /\ view' = "content" => target' \in offered' \cup {All}
<1> DEFINE data == Filtered(rawData', date', protocol')
<1>1. data = Selected'
  BY DEF Selected
<1>2. CASE data = {}
  <2>1. /\ view' = "empty" /\ speed' = {} /\ cards' = {} /\ latencyChart' = {}
        /\ speedChart' = {} /\ cache' = known /\ UNCHANGED <<window, windowShown>>
    BY <1>2 DEF ApplyFilters, ShowEmpty, DestroyCharts
  <2>2. ViewInv' /\ ChartInv'
    BY <1>1, <1>2, <2>1 DEF ViewInv, ChartInv
  <2>3. CacheInv'
    BY <2>1 DEF CacheInv
  <2> QED
    BY <2>1, <2>2, <2>3
<1>3. CASE data # {}
  <2>1. ShowContent(known, data)
    BY <1>3 DEF ApplyFilters
  <2> HIDE DEF data
  <2>2. /\ view' = "content" /\ windowShown' = (date' = LocalDate(now))
        /\ window' = TimeFilter(date', now, window)
        /\ target' = KeptTarget(data) /\ offered' = Targets(data)
        /\ UpdateLatencyCards(known, data) /\ RenderCharts(data)
    BY <2>1 DEF ShowContent
  <2>3. ViewInv'
    BY <1>1, <1>3, <2>2 DEF ViewInv
  <2>4. ChartInv'
    BY <1>1, <2>2, ChartsDrawn
  <2>5. CacheInv'
    <3> DEFINE key == CacheKey(date', protocol', data)
    <3>1. key[1] = date' /\ key[2] = protocol'
      BY DEF CacheKey
    <3>2. data = Filtered(rawData', key[1], key[2])
      BY <3>1 DEF data
    <3>3. cards' = Cached(known, key, Stats(data, protocol')) /\ cache' = Put(known, key, cards')
      BY <2>2 DEF UpdateLatencyCards
    <3> HIDE DEF key
    <3>4. cards' = Stats(data, protocol')
      BY <3>1, <3>2, <3>3 DEF Cached
    <3>5. \A k \in DOMAIN cache' :
             cache'[k] = Stats(Filtered(rawData', k[1], k[2]), k[2])
      BY <3>1, <3>2, <3>3, <3>4 DEF Put
    <3> QED
      BY <1>1, <3>4, <3>5 DEF CacheInv
  <2>6. /\ window' \in DOMAIN Duration \cup {WholeDay} /\ windowShown' \in BOOLEAN
        /\ target' \in offered' \cup {All}
    BY <2>2 DEF TimeFilter, KeptTarget
  <2> QED
    BY <2>3, <2>4, <2>5, <2>6
<1> QED
  BY <1>2, <1>3

\* Choosing a target or a window draws the latency chart anew.
LEMMA ChartUpdated ==
    ASSUME PageInv, UpdateLatencyChart, view = "content",
           UNCHANGED <<pending, rawData, date, protocol, themes, now>>
    PROVE  ViewInv' /\ CacheInv' /\ ChartInv'
<1>1. now \in Nat
  BY DashboardAssumption DEF PageInv, ControlsInv
<1>2. Selected' = Selected /\ Selected # {}
  BY DEF Selected, PageInv, ViewInv
<1>3. RenderLatencyChart(Selected) /\ UNCHANGED <<view, speed, cards, speedChart, cache>>
  BY <1>2 DEF UpdateLatencyChart, Selected
<1>4. ChartInv'
  BY <1>1, <1>2, <1>3, ChartDrawn DEF PageInv, ChartInv
<1>5. ViewInv'
  BY <1>2, <1>3 DEF PageInv, ViewInv
<1>6. CacheInv'
  BY <1>2, <1>3 DEF PageInv, CacheInv
<1> QED
  BY <1>4, <1>5, <1>6

LEMMA PageStep ==
    ASSUME PageInv, [Next]_vars
    PROVE  PageInv'
<1> USE DEF PageInv
<1>1. now \in Nat /\ now \in Opened..Horizon
  BY DashboardAssumption DEF ControlsInv
\* The document, the dates and the cache stay, or there are none yet.
<1>2. ASSUME NEW day, NEW filter, ApplyFilters(cache), date' = day, protocol' = filter,
             day \in {NoDate} \cup {LocalDate(p.t) : p \in rawData},
             filter \in Protocols \cup {Both},
             UNCHANGED <<pending, rawData, themes, now>>
      PROVE  PageInv'
  <2>1. \A key \in DOMAIN cache :
           cache[key] = Stats(Filtered(rawData', key[1], key[2]), key[2])
    BY <1>2 DEF CacheInv
  <2>2. /\ ViewInv' /\ CacheInv' /\ ChartInv'
        /\ window' \in DOMAIN Duration \cup {WholeDay} /\ windowShown' \in BOOLEAN
        /\ view' = "content" => target' \in offered' \cup {All}
    BY <1>1, <1>2, <2>1, FiltersApplied DEF ControlsInv
  <2>3. DataInv' /\ ThemeInv'
    BY <1>2 DEF DataInv, ThemeInv, themes
  <2>4. ControlsInv'
    BY <1>2, <2>2 DEF ControlsInv
  <2> QED
    BY <2>2, <2>3, <2>4
<1>3. ASSUME NEW document \in Documents, Load(document) PROVE PageInv'
  <2>1. /\ pending' = FALSE /\ rawData' = Parse(document)
        /\ date' = Max({LocalDate(p.t) : p \in document} \cup {NoDate})
        /\ UNCHANGED <<protocol, themes, now>> /\ ApplyFilters(<<>>)
    BY <1>3 DEF Load
  <2>2. \A key \in DOMAIN <<>> :
           <<>>[key] = Stats(Filtered(rawData', key[1], key[2]), key[2])
    OBVIOUS
  <2>3. /\ ViewInv' /\ CacheInv' /\ ChartInv'
        /\ window' \in DOMAIN Duration \cup {WholeDay} /\ windowShown' \in BOOLEAN
        /\ view' = "content" => target' \in offered' \cup {All}
    BY <1>1, <2>1, <2>2, FiltersApplied DEF ControlsInv
  <2>4. DataInv'
    BY <2>1, ParsedPoints DEF DataInv
  <2>5. date' \in {NoDate} \cup {LocalDate(p.t) : p \in rawData'}
    <3>1. /\ IsFiniteSet(document) /\ \A p \in document : p.t \in Nat
          /\ {LocalDate(p.t) : p \in Parse(document)} = {LocalDate(p.t) : p \in document}
      BY ParsedPoints
    <3>2. date' \in {NoDate} \cup {LocalDate(p.t) : p \in document}
      BY <2>1, <3>1, NewestDate
    <3> QED
      BY <2>1, <3>1, <3>2
  <2>6. ControlsInv'
    BY <2>1, <2>3, <2>5 DEF ControlsInv
  <2>7. ThemeInv'
    BY <2>1 DEF ThemeInv, themes
  <2> QED
    BY <2>3, <2>4, <2>6, <2>7
<1>4. CASE LoadFails
  <2>1. /\ pending /\ pending' = FALSE /\ view' = "error"
        /\ latencyChart' = {} /\ speedChart' = {} /\ rawData = {}
        /\ UNCHANGED <<rawData, controls, speed, cards, cache, themes, now>>
    BY <1>4 DEF LoadFails, DestroyCharts, DataInv
  <2>2. Selected = {} /\ Selected' = {}
    BY <2>1 DEF Selected, Filtered
  <2>3. ViewInv' /\ ChartInv'
    BY <2>1, <2>2 DEF ViewInv, ChartInv
  <2>4. DataInv' /\ ControlsInv' /\ ThemeInv'
    BY <2>1 DEF DataInv, ControlsInv, ThemeInv, controls, themes
  <2>5. CacheInv'
    BY <2>1 DEF CacheInv
  <2> QED
    BY <2>3, <2>4, <2>5
<1>5. ASSUME NEW day, ChooseDate(day) PROVE PageInv'
  <2>1. /\ day \in {LocalDate(p.t) : p \in rawData} /\ date' = day /\ ApplyFilters(cache)
        /\ UNCHANGED <<pending, rawData, protocol, themes, now>>
    BY <1>5 DEF ChooseDate
  <2> QED
    BY <1>2, <2>1 DEF ControlsInv
<1>6. ASSUME NEW filter \in Protocols \cup {Both}, ChooseProtocol(filter) PROVE PageInv'
  <2>1. /\ protocol' = filter /\ ApplyFilters(cache)
        /\ UNCHANGED <<pending, rawData, date, themes, now>>
    BY <1>6 DEF ChooseProtocol
  <2> QED
    BY <1>2, <2>1 DEF ControlsInv
<1>7. ASSUME NEW chosen, ChooseTarget(chosen) PROVE PageInv'
  <2>1. /\ view = "content" /\ chosen \in offered \cup {All} /\ target' = chosen
        /\ UNCHANGED <<pending, rawData, date, protocol, window, offered, windowShown,
                      themes, now>>
        /\ UpdateLatencyChart
    BY <1>7 DEF ChooseTarget
  <2>2. ViewInv' /\ CacheInv' /\ ChartInv'
    BY <2>1, ChartUpdated
  <2>3. DataInv' /\ ControlsInv' /\ ThemeInv'
    BY <2>1 DEF DataInv, ControlsInv, ThemeInv, themes
  <2> QED
    BY <2>2, <2>3
<1>8. ASSUME NEW chosen \in DOMAIN Duration \cup {WholeDay}, ChooseWindow(chosen)
      PROVE  PageInv'
  <2>1. /\ view = "content" /\ window' = chosen
        /\ UNCHANGED <<pending, rawData, date, protocol, target, offered, windowShown,
                      themes, now>>
        /\ UpdateLatencyChart
    BY <1>8 DEF ChooseWindow
  <2>2. ViewInv' /\ CacheInv' /\ ChartInv'
    BY <2>1, ChartUpdated
  <2>3. DataInv' /\ ControlsInv' /\ ThemeInv'
    BY <2>1, <2>2 DEF DataInv, ControlsInv, ThemeInv, themes, UpdateLatencyChart
  <2> QED
    BY <2>2, <2>3
<1>9. CASE ToggleTheme
  <2>1. /\ theme' \in Themes /\ stored' \in SUBSET Themes
        /\ UNCHANGED <<pending, rawData, controls, storable, view, speed, cards, cache, now>>
        /\ IF Selected = {} THEN UNCHANGED <<latencyChart, speedChart>>
                           ELSE RenderCharts(Selected)
    BY <1>9 DEF ToggleTheme, Selected, Themes, ThemeInv
  <2>2. Selected' = Selected
    BY <2>1 DEF Selected, controls
  <2>3. ChartInv'
    <3>1. CASE Selected = {}
      BY <2>1, <2>2, <3>1 DEF ChartInv, controls
    <3>2. CASE Selected # {}
      BY <1>1, <2>1, <2>2, <3>2, ChartsDrawn
    <3> QED
      BY <3>1, <3>2
  <2>4. DataInv' /\ ControlsInv' /\ ThemeInv'
    BY <2>1 DEF DataInv, ControlsInv, ThemeInv, controls
  <2>5. ViewInv' /\ CacheInv'
    <3>1. CASE Selected = {}
      BY <2>1, <2>2, <3>1 DEF ViewInv, CacheInv, controls
    <3>2. CASE Selected # {}
      BY <2>1, <2>2, <3>2 DEF ViewInv, CacheInv, controls
    <3> QED
      BY <3>1, <3>2
  <2> QED
    BY <2>3, <2>4, <2>5
<1>10. CASE TimePasses \/ UNCHANGED vars
  <2>1. /\ UNCHANGED <<pending, rawData, controls, shown, themes>>
        /\ now' \in Opened..Horizon
    BY <1>1, <1>10, DashboardAssumption DEF TimePasses, vars
  <2>2. Selected' = Selected
    BY <2>1 DEF Selected, controls
  <2>3. DataInv' /\ ControlsInv' /\ ThemeInv'
    BY <2>1 DEF DataInv, ControlsInv, ThemeInv, controls, themes, shown
  <2>4. ViewInv' /\ CacheInv' /\ ChartInv'
    BY <2>1, <2>2 DEF ViewInv, CacheInv, ChartInv, controls, shown
  <2> QED
    BY <2>3, <2>4
<1> QED
  BY <1>3, <1>4, <1>5, <1>6, <1>7, <1>8, <1>9, <1>10 DEF Next

LEMMA PageInvariant == Spec => []PageInv
  BY PageStarts, PageStep, PTL DEF Spec

-----------------------------------------------------------------------------
(* What the page shows.                                                    *)

LEMMA AtMostOne ==
    ASSUME NEW S, \A c, d \in S : c = d
    PROVE  Cardinality(S) <= 1
<1>1. CASE S = {}
  BY <1>1, FS_EmptySet
<1>2. CASE S # {}
  <2>1. PICK c \in S : TRUE
    BY <1>2
  <2>2. S = {c}
    BY <2>1
  <2>3. Cardinality({c}) = 1
    BY FS_Singleton
  <2> QED
    BY <2>2, <2>3
<1> QED
  BY <1>1, <1>2

\* Type correctness: among others, each control holds one of the values it offers.
THEOREM PageTypeCorrect == Spec => []DashTypeOK
<1>1. PageInv => DashTypeOK
  <2> SUFFICES ASSUME PageInv PROVE DashTypeOK
    OBVIOUS
  <2>1. Cardinality(latencyChart) <= 1 /\ Cardinality(speedChart) <= 1
    BY AtMostOne DEF PageInv, ChartInv
  <2>2. /\ pending \in BOOLEAN /\ windowShown \in BOOLEAN
        /\ date \in {NoDate} \cup {LocalDate(p.t) : p \in rawData}
        /\ protocol \in Protocols \cup {Both}
        /\ window \in DOMAIN Duration \cup {WholeDay}
        /\ view = "content" => target \in offered \cup {All}
        /\ now \in Opened..Horizon
    BY Zenon DEF PageInv, ControlsInv
  <2>3. storable \in BOOLEAN /\ theme \in Themes /\ stored \subseteq Themes
    <3>1. storable \in BOOLEAN
      BY Zenon DEF PageInv, ThemeInv
    <3> QED
      BY <3>1 DEF PageInv, ThemeInv
  <2>4. view \in {"loading", "error", "empty", "content"}
    BY DEF PageInv, ViewInv
  <2> QED
    BY <2>1, <2>2, <2>3, <2>4, Zenon DEF DashTypeOK
<1> QED
  BY <1>1, PageInvariant, PTL

\* Content is shown exactly when the filters select something, and otherwise
\* nothing of an earlier selection.
THEOREM ViewAlwaysFollows == Spec => []ViewFollowsData
<1>1. PageInv => ViewFollowsData
  BY DEF PageInv, ViewInv, ViewFollowsData
<1> QED
  BY <1>1, PageInvariant, PTL

\* The slots with a reading of the chosen protocol.
LEMMA MeasuredSlots ==
    {p \in rawData : /\ LocalDate(p.t) = date
                     /\ \E r \in p.latency : Accepts(protocol, r)} = Measured(Selected)
  BY DEF Measured, Selected, Filtered

\* The cards show all readings of the newest slot, and no other reading, although
\* their statistics may come from the cache.
THEOREM CardsAreCurrent == Spec => []CardsCurrent
<1>1. PageInv => CardsCurrent
  <2> SUFFICES ASSUME PageInv, view = "content"
               PROVE  {<<c.target, c.protocol, c.average>> : c \in cards} =
                        UNION {{<<r.target, r.protocol, r.average>> :
                                  r \in {s \in p.latency : Accepts(protocol, s)}} :
                                  p \in Newest(Measured(Selected))}
    BY MeasuredSlots DEF CardsCurrent
  <2> DEFINE newest == Newest(Measured(Selected))
             Fields(r) == <<r.target, r.protocol, r.average>>
  <2>1. cards = UNION {{Judged(Selected, p, r) : r \in {s \in p.latency : Accepts(protocol, s)}} :
                          p \in newest}
    BY DEF PageInv, CacheInv, Stats
  <2>2. \A p, r : Fields(Judged(Selected, p, r)) = Fields(r)
    BY Zenon DEF Judged
  <2> HIDE DEF newest, Fields
  <2>3. \A c \in cards : \E p \in newest :
           \E r \in {s \in p.latency : Accepts(protocol, s)} : c = Judged(Selected, p, r)
    BY <2>1
  <2>4. \A p \in newest : \A r \in {s \in p.latency : Accepts(protocol, s)} :
           Judged(Selected, p, r) \in cards
    BY <2>1
  <2>5. {Fields(c) : c \in cards} =
          UNION {{Fields(r) : r \in {s \in p.latency : Accepts(protocol, s)}} : p \in newest}
    BY <2>2, <2>3, <2>4
  <2> QED
    BY <2>5 DEF newest, Fields
<1> QED
  BY <1>1, PageInvariant, PTL

\* A history is finite: a slot has one reading of a target and protocol.
LEMMA FiniteHistory ==
    ASSUME NEW data, IsFiniteSet(data), NEW reading,
           \A p \in data : p.t \in Nat /\ GoodReadings(p)
    PROVE  /\ IsFiniteSet(History(data, reading))
           /\ \A x \in History(data, reading) : x[1] \in Nat /\ x[2] \in Nat
<1> DEFINE Same(r) == r.target = reading.target /\ r.protocol = reading.protocol
           with == {q \in data : \E r \in q.latency : Same(r)}
           Sample(q) == <<q.t, (CHOOSE r \in q.latency : Same(r)).average>>
           f == [q \in with |-> Sample(q)]
<1>1. \A q \in data : \A r \in q.latency : Same(r) =>
         /\ q \in with /\ Sample(q) = <<q.t, r.average>>
         /\ q.t \in Nat /\ r.average \in Nat
  <2> SUFFICES ASSUME NEW q \in data, NEW r \in q.latency, Same(r)
               PROVE  /\ q \in with /\ Sample(q) = <<q.t, r.average>>
                      /\ q.t \in Nat /\ r.average \in Nat
    OBVIOUS
  <2> DEFINE s == CHOOSE s \in q.latency : Same(s)
  <2>1. s \in q.latency /\ Same(s)
    OBVIOUS
  <2>2. s = r
    BY <2>1 DEF GoodReadings, OneReadingEach
  <2> QED
    BY <2>2 DEF GoodReadings
<1>2. History(data, reading) =
        UNION {{<<q.t, r.average>> : r \in {s \in q.latency : Same(s)}} : q \in data}
  BY DEF History
<1> HIDE DEF Same, Sample
<1>3. \A x : x \in History(data, reading) <=>
         \E q \in data : \E r \in q.latency : Same(r) /\ x = <<q.t, r.average>>
  BY <1>2
<1>4. \A x : x \in History(data, reading) <=> \E q \in with : x = Sample(q)
  BY <1>1, <1>3
<1>5. f \in Surjection(with, History(data, reading))
  BY <1>4 DEF Surjection
<1>6. IsFiniteSet(with)
  BY FS_Subset
<1> HIDE DEF with, f
<1>7. IsFiniteSet(History(data, reading))
  BY <1>5, <1>6, FS_Surjection
<1>8. \A x \in History(data, reading) : x[1] \in Nat /\ x[2] \in Nat
  BY <1>1, <1>3
<1> QED
  BY <1>7, <1>8

\* A mean that is exceeded has a sample that is, and a mean of samples that are
\* all exceeded by a factor and a distance is exceeded by both.
LEMMA HighStatus ==
    ASSUME NEW S, IsFiniteSet(S), \A x \in S : x[2] \in Nat, NEW a \in Nat
    PROVE  LET status == Status(a, Cardinality(S), SampleSum(S))
           IN /\ status = "High" => \E x \in S : a > x[2] + 40
              /\ S # {} /\ (\A x \in S : a > x[2] + 40 /\ 100 * a > 175 * x[2])
                   => status = "High"
<1> DEFINE n == Cardinality(S)
           sum == SampleSum(S)
           High == Exceeds(n * a - sum, n, sum, 40, 75)
<1>1. n \in Nat /\ (S # {} => n >= 1)
  BY FS_CardinalityType, FS_EmptySet
<1>2. \A x \in S : x[2] \in Int
  OBVIOUS
<1>3. \A k, b \in Int : (\A x \in S : k * x[2] <= b) => sum \in Int /\ k * sum <= n * b
  BY <1>2, SumBound
<1> HIDE DEF n, sum
<1>4. sum \in Int
  <2>1. \A x \in S : 0 * x[2] <= 0
    OBVIOUS
  <2> QED
    BY <1>3, <2>1
<1>5. ASSUME High PROVE \E x \in S : a > x[2] + 40
  <2> SUFFICES ASSUME \A x \in S : ~(a > x[2] + 40) PROVE FALSE
    OBVIOUS
  <2>1. \A x \in S : (-1) * x[2] <= 40 - a
    OBVIOUS
  <2>2. (-1) * sum <= n * (40 - a)
    BY <1>3, <2>1
  <2>3. n * (40 - a) = 40 * n - n * a /\ n * a \in Int
    BY <1>1
  <2>4. n * a - sum > n * 40
    BY <1>5 DEF Exceeds
  <2> QED
    BY <1>1, <1>4, <2>2, <2>3, <2>4
<1>6. ASSUME S # {}, \A x \in S : a > x[2] + 40 /\ 100 * a > 175 * x[2]
      PROVE  High /\ a # 0
  <2>1. \A x \in S : 1 * x[2] <= a - 41
    BY <1>6
  <2>2. 1 * sum <= n * (a - 41)
    BY <1>3, <2>1
  <2>3. \A x \in S : 175 * x[2] <= 100 * a - 1
    BY <1>6
  <2>4. 175 * sum <= n * (100 * a - 1)
    BY <1>3, <2>3
  <2>5. n * (a - 41) = n * a - 41 * n /\ n * (100 * a - 1) = 100 * (n * a) - n
        /\ n * a \in Int
    BY <1>1
  <2>6. n * a - sum > n * 40 /\ 100 * (n * a - sum) > 75 * sum
    BY <1>1, <1>4, <1>6, <2>2, <2>4, <2>5
  <2>7. a # 0
    BY <1>6
  <2> QED
    BY <2>6, <2>7 DEF Exceeds
<1>7. Status(a, n, sum) = "High" <=> a # 0 /\ High
  BY DEF Status
<1> HIDE DEF High
<1> QED
  BY <1>5, <1>6, <1>7 DEF n, sum

\* A card calls a reading High only when an earlier one of its day, target and
\* protocol lies more than 40 ms below, and does when all of them do and are
\* exceeded by more than three quarters.
THEOREM CardsAreJudged == Spec => []CardsJudged
<1>1. PageInv => CardsJudged
  <2> SUFFICES ASSUME PageInv, NEW c \in cards
               PROVE
        LET samples == History({p \in rawData : LocalDate(p.t) = date}, c)
            last == Max({x[1] : x \in samples})
            earlier == {x[2] : x \in {y \in samples : y[1] < last}}
        IN /\ c.status = "High" => \E a \in earlier : c.average > a + 40
           /\ earlier # {} /\ (\A a \in earlier : c.average > a + 40 /\ 100 * c.average > 175 * a)
                => c.status = "High"
    BY DEF CardsJudged
  <2> DEFINE day == {p \in rawData : LocalDate(p.t) = date}
             samples == History(day, c)
             times == {x[1] : x \in samples}
             last == Max(times)
             earlier == {x[2] : x \in {y \in samples : y[1] < last}}
  <2>1. cards = Stats(Selected, protocol)
    BY DEF PageInv, ViewInv, CacheInv
  <2>2. PICK p \in Newest(Measured(Selected)) :
              \E r \in {s \in p.latency : Accepts(protocol, s)} : c = Judged(Selected, p, r)
    BY <2>1 DEF Stats
  <2>3. PICK r \in p.latency : Accepts(protocol, r) /\ c = Judged(Selected, p, r)
    BY <2>2
  <2> DEFINE history == History(Prior(Selected, p), r)
  <2>4. /\ c.target = r.target /\ c.protocol = r.protocol /\ c.average = r.average
        /\ c.status = Status(r.average, Cardinality(history), SampleSum(history))
    <3>1. Judged(Selected, p, r) =
            [target |-> r.target, protocol |-> r.protocol, average |-> r.average,
             loss |-> r.loss,
             status |-> Status(r.average, Cardinality(history), SampleSum(history))]
      BY SampleSums, Zenon DEF Judged
    <3> HIDE DEF history
    <3> QED
      BY <2>3, <3>1
  <2>5. /\ IsFiniteSet(rawData) /\ \A q \in rawData : q.t \in Nat /\ GoodReadings(q)
    BY DEF PageInv, DataInv
  <2>6. /\ p \in Selected /\ p \in rawData /\ LocalDate(p.t) = date
        /\ \A q \in Selected : q.latency # {} => q.t <= p.t
    BY <2>2 DEF Newest, Measured, Selected, Filtered
  <2>7. \A x : x \in samples <=>
           \E q \in day : \E s \in q.latency :
              s.target = r.target /\ s.protocol = r.protocol /\ x = <<q.t, s.average>>
    BY <2>4 DEF History
  <2>8. \A x : x \in history <=>
           \E q \in Prior(Selected, p) : \E s \in q.latency :
              s.target = r.target /\ s.protocol = r.protocol /\ x = <<q.t, s.average>>
    BY DEF History
  <2>9. \A q \in day : \A s \in q.latency :
           s.protocol = r.protocol => q \in Selected /\ q.t <= p.t
    BY <2>3, <2>6 DEF Accepts, Selected, Filtered
  <2>10. Prior(Selected, p) = {q \in Selected : q.t < p.t} /\ Selected \subseteq day
    BY DEF Prior, Selected, Filtered
  <2>11. /\ IsFiniteSet(samples) /\ \A x \in samples : x[1] \in Nat /\ x[2] \in Nat
    <3>1. IsFiniteSet(day) /\ \A q \in day : q.t \in Nat /\ GoodReadings(q)
      BY <2>5, FS_Subset
    <3> QED
      BY <3>1, FiniteHistory
  <2> HIDE DEF samples, history
  <2>12. history = {x \in samples : x[1] < p.t}
    <3>1. \A x \in history : x \in samples /\ x[1] < p.t
      BY <2>7, <2>8, <2>10
    <3>2. \A x \in samples : x[1] < p.t => x \in history
      BY <2>7, <2>8, <2>9, <2>10
    <3> QED
      BY <3>1, <3>2
  <2>13. last = p.t
    <3> DEFINE f == [x \in samples |-> x[1]]
    <3>1. f \in Surjection(samples, times) /\ times \in SUBSET Int
      BY <2>11 DEF Surjection
    <3>2. <<p.t, r.average>> \in samples
      BY <2>6, <2>7
    <3>3. p.t \in times
      BY <3>2
    <3>4. \A x \in samples : x[1] <= p.t
      BY <2>7, <2>9
    <3>5. \A t \in times : t <= p.t
      BY <3>4
    <3> HIDE DEF f, times
    <3>6. IsFiniteSet(times)
      BY <2>11, <3>1, FS_Surjection
    <3>7. last \in times /\ p.t <= last
      BY <3>1, <3>3, <3>6, FiniteMax
    <3> HIDE DEF last
    <3>8. last \in Int /\ last <= p.t
      BY <3>1, <3>5, <3>7
    <3>9. p.t \in Int
      BY <2>5, <2>6
    <3> QED
      BY <3>7, <3>8, <3>9
  <2>14. earlier = {x[2] : x \in history}
    BY <2>12, <2>13
  <2>15. /\ IsFiniteSet(history) /\ \A x \in history : x[2] \in Nat
         /\ r.average \in Nat
    BY <2>3, <2>5, <2>6, <2>11, <2>12, FS_Subset DEF GoodReadings
  <2> HIDE DEF last, earlier
  <2>16. /\ c.status = "High" => \E x \in history : c.average > x[2] + 40
         /\ history # {} /\ (\A x \in history : c.average > x[2] + 40 /\ 100 * c.average > 175 * x[2])
              => c.status = "High"
    BY <2>4, <2>15, HighStatus
  <2>17. /\ \A x \in history : x[2] \in earlier
         /\ \A a \in earlier : \E x \in history : a = x[2]
    BY <2>14
  <2>18. /\ c.status = "High" => \E a \in earlier : c.average > a + 40
         /\ earlier # {} /\ (\A a \in earlier : c.average > a + 40 /\ 100 * c.average > 175 * a)
              => c.status = "High"
    BY <2>16, <2>17
  <2> QED
    BY <2>18 DEF earlier, last, samples
<1> QED
  BY <1>1, PageInvariant, PTL

\* The end of a window: the clock, or a point that is newer.
LEMMA WindowEnd ==
    ASSUME NEW data \in SUBSET rawData, NEW at \in Nat, DataInv
    PROVE  Max({p.t : p \in data} \cup {at}) \in Int
<1> DEFINE V == {p.t : p \in data}
           f == [p \in data |-> p.t]
<1>1. IsFiniteSet(data) /\ \A p \in data : p.t \in Nat
  BY FS_Subset DEF DataInv
<1>2. f \in Surjection(data, V) /\ V \in SUBSET Int
  BY <1>1 DEF Surjection
<1> HIDE DEF V, f
<1>3. Max(V \cup {at}) \in Int
  BY <1>1, <1>2, FiniteValues
<1> QED
  BY <1>3 DEF V

\* The latency chart plots what the four filters selected when it was drawn.
THEOREM ChartIsCurrent == Spec => []ChartCurrent
<1>1. PageInv => ChartCurrent
  <2> SUFFICES ASSUME PageInv, NEW chart \in latencyChart
               PROVE
        LET chosen == UNION {{<<p.t, r>> : r \in p.latency} : p \in rawData}
            today == LocalDate(chart.at) = date
            newest == Max({p.t : p \in Measured(Selected)} \cup {chart.at})
        IN chart.shows = {x \in chosen :
                /\ LocalDate(x[1]) = date
                /\ protocol = Both \/ x[2].protocol = protocol
                /\ target = All \/ x[2].target = target
                /\ today /\ window # WholeDay => newest - x[1] <= Duration[window]}
    BY DEF ChartCurrent
  <2> DEFINE chosen == UNION {{<<p.t, r>> : r \in p.latency} : p \in rawData}
             today  == LocalDate(chart.at) = date
             newest == Max({p.t : p \in Measured(Selected)} \cup {chart.at})
             shown1 == InWindow(Selected, date, chart.at, window)
             Wanted(x) == /\ LocalDate(x[1]) = date
                          /\ protocol = Both \/ x[2].protocol = protocol
                          /\ target = All \/ x[2].target = target
                          /\ today /\ window # WholeDay => newest - x[1] <= Duration[window]
             Plotted(p, r) == /\ p \in shown1 /\ r \in p.latency
                              /\ Accepts(protocol, r) /\ target \in {All, r.target}
  <2>1. chart.at \in Nat /\ chart.shows = Series(shown1, protocol, target)
    BY DEF PageInv, ChartInv
  <2>2. newest \in Int
    <3>1. Measured(Selected) \in SUBSET rawData
      BY DEF Measured, Selected, Filtered
    <3> QED
      BY <2>1, <3>1, WindowEnd DEF PageInv
  <2>3. window \in DOMAIN Duration \cup {WholeDay}
        /\ (window # WholeDay => Duration[window] \in Nat)
        /\ \A p \in rawData : p.t \in Nat
    BY DashboardAssumption DEF PageInv, ControlsInv, DataInv
  <2>4. ASSUME today, window # WholeDay
        PROVE  Cutoff(Selected, chart.at, Duration[window]) = newest - Duration[window]
    <3>1. {chart.at} \cup {p.t : p \in Measured(Selected)}
            = {p.t : p \in Measured(Selected)} \cup {chart.at}
      OBVIOUS
    <3> QED
      BY <3>1 DEF Cutoff
  <2> HIDE DEF newest
  <2>5. \A p \in rawData :
          p \in shown1 <=>
            /\ p \in Selected
            /\ today /\ window # WholeDay => newest - p.t <= Duration[window]
    <3> SUFFICES ASSUME NEW p \in rawData
                 PROVE  p \in shown1 <=>
                          /\ p \in Selected
                          /\ today /\ window # WholeDay => newest - p.t <= Duration[window]
      OBVIOUS
    <3>1. CASE today /\ window # WholeDay
      <4>1. p \in shown1 <=> p \in Selected /\ p.t >= newest - Duration[window]
        BY <2>4, <3>1 DEF InWindow, TimeFilter
      <4>2. p.t \in Nat /\ Duration[window] \in Nat
        BY <2>3, <3>1
      <4> QED
        BY <2>2, <3>1, <4>1, <4>2
    <3>2. CASE ~(today /\ window # WholeDay)
      BY <3>2 DEF InWindow, TimeFilter
    <3> QED
      BY <3>1, <3>2
  <2>6. \A p \in rawData : \A r \in p.latency : Plotted(p, r) <=> Wanted(<<p.t, r>>)
    <3> SUFFICES ASSUME NEW p \in rawData, NEW r \in p.latency
                 PROVE  Plotted(p, r) <=> Wanted(<<p.t, r>>)
      OBVIOUS
    <3>1. <<p.t, r>>[1] = p.t /\ <<p.t, r>>[2] = r
      OBVIOUS
    <3>2. Accepts(protocol, r) <=> protocol = Both \/ r.protocol = protocol
      BY DEF Accepts
    <3>3. Accepts(protocol, r) => (p \in Selected <=> LocalDate(p.t) = date)
      BY DEF Selected, Filtered
    <3> HIDE DEF shown1, today
    <3> QED
      BY <2>5, <3>1, <3>2, <3>3
  <2>7. shown1 \subseteq rawData
    BY DEF InWindow, Selected, Filtered
  <2> HIDE DEF shown1, Wanted, today
  <2>8. \A x : x \in chart.shows <=>
          \E p \in rawData : \E r \in p.latency : x = <<p.t, r>> /\ Plotted(p, r)
    BY <2>1, <2>7 DEF Series
  <2>9. \A x : x \in chosen <=> \E p \in rawData : \E r \in p.latency : x = <<p.t, r>>
    OBVIOUS
  <2> HIDE DEF chosen, Plotted
  <2>10. \A x : x \in chart.shows <=> x \in chosen /\ Wanted(x)
    BY <2>6, <2>8, <2>9
  <2>11. chart.shows = {x \in chosen : Wanted(x)}
    BY <2>10
  <2> QED
    BY <2>11 DEF Wanted, chosen, today, newest
<1> QED
  BY <1>1, PageInvariant, PTL
=============================================================================
