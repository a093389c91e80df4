----------------------------- MODULE Dashboard -----------------------------
(***************************************************************************)
(* The dashboard page (ui/scripts.ts): one load of metrics.json, then the  *)
(* handlers of its controls.  The page has one thread; what can interleave *)
(* is the answer to the fetch, the user's choices and the clock, which     *)
(* every handler reads again.                                              *)
(*                                                                         *)
(* A document is a set of points, one per time slot: the speedtest of the  *)
(* slot, none or one, and its readings, records with the keys the file has.*)
(* Times count hours of UTC.  What a card or a chart shows is the set of   *)
(* readings in it; markup, colours and number formats are left out.        *)
(***************************************************************************)
EXTENDS Integers, FiniteSets, FiniteSetsExt

CONSTANTS
    Documents,  \* what metrics.json may hold
    DayLength,  \* hours of a day
    Offset,     \* local time is UTC plus Offset
    Duration,   \* the windows of the time filter and their hours
    Opened,     \* when the page is opened
    Horizon     \* bound: the clock stops here

Protocols == {"IPv4", "IPv6"}
Both == "IPv4 + IPv6"
All == "__all__"
WholeDay == "today"
Themes == {"dark", "light"}

IsPoint(p) ==
    /\ p = [t |-> p.t, speed |-> p.speed, latency |-> p.latency] /\ p.t \in Nat
    /\ \A r \in p.latency : r.average \in Nat
OneReadingEach(point) == \A r, s \in point.latency :
    r.target = s.target /\ r.protocol = s.protocol => r = s

ASSUME DashboardAssumption ==
    /\ DayLength \in Nat \ {0} /\ Offset \in Nat
    /\ Opened \in Nat /\ Horizon \in Nat /\ Opened <= Horizon
    /\ \A w \in DOMAIN Duration : Duration[w] \in Nat
    /\ \A document \in Documents :
          /\ IsFiniteSet(document) /\ \A p \in document : IsPoint(p)
          /\ \A p, q \in document : p.t = q.t => p = q
          /\ \A p \in document : OneReadingEach(p) /\ Cardinality(p.speed) <= 1

VARIABLES
    pending,      \* the fetch has not been answered
    rawData,      \* what was parsed
    date, protocol, target, window,  \* the values of the four filters
    offered,      \* the targets the target filter offers
    windowShown,  \* the time filter is visible
    view,         \* what the page shows
    speed,        \* the speed card: hidden or one value
    cards,        \* the readings on the latency cards
    latencyChart, \* no chart or one
    speedChart,   \* no chart or one
    cache,        \* latencyCache
    theme,        \* the theme of the page
    stored,       \* the theme in localStorage, none or one
    storable,     \* localStorage works
    now           \* the clock

controls == <<date, protocol, target, window, offered, windowShown>>
shown == <<view, speed, cards, latencyChart, speedChart, cache>>
themes == <<theme, stored, storable>>
vars == <<pending, rawData, controls, shown, themes, now>>

LocalDate(t) == (t + Offset) \div DayLength
NoDate == -1

-----------------------------------------------------------------------------
(* Parsing.                                                                *)

Least(m, n) == IF m < n THEN m ELSE n

\* The keys the page looks for; the file has packet_loss.
Loss(raw) == CASE "PacketLoss" \in DOMAIN raw -> Least(100, raw.PacketLoss)
               [] "packetLoss" \in DOMAIN raw -> Least(100, raw.packetLoss)
               [] OTHER -> 0

Normalize(raw) == [target |-> raw.target, protocol |-> raw.protocol,
                   average |-> raw.average, loss |-> Loss(raw)]

Parse(document) == {[p EXCEPT !.latency = {Normalize(raw) : raw \in @}] : p \in document}

-----------------------------------------------------------------------------
(* Filters.                                                                *)

Accepts(filter, reading) == filter \in {Both, reading.protocol}

Measured(data) == {p \in data : p.latency # {}}

Filtered(data, day, filter) ==
    {p \in data : /\ LocalDate(p.t) = day
                  /\ p.latency # {} => \E r \in p.latency : Accepts(filter, r)}

\* Mutant: the window is counted back from the newest point.
CutoffNewest(data, at, hours) == Max({p.t : p \in Measured(data)} \cup {0}) - hours

\* A window is counted back from the clock, or from a newer point than that.
Cutoff(data, at, hours) == Max({at} \cup {p.t : p \in Measured(data)}) - hours

TimeFilter(day, at, chosen) == IF day = LocalDate(at) THEN chosen ELSE WholeDay

InWindow(data, day, at, chosen) ==
    LET filter == TimeFilter(day, at, chosen)
    IN {p \in data : filter # WholeDay => p.t >= Cutoff(data, at, Duration[filter])}

Targets(data) == UNION {{r.target : r \in p.latency} : p \in data}

-----------------------------------------------------------------------------
(* Statistics.                                                             *)

Exceeds(delta, n, sum, abs, percent) ==
    delta > n * abs /\ 100 * delta > percent * sum

\* getLatencyStatus for a baseline of sum / n, with everything scaled by n.
Status(average, n, sum) ==
    LET delta == n * average - sum
    IN IF average = 0 THEN "No Data"
       ELSE IF Exceeds(delta, n, sum, 40, 75) THEN "High"
       ELSE IF Exceeds(delta, n, sum, 20, 35) THEN "Elevated"
       ELSE "Normal"

Newest(data) == {p \in data : \A q \in data : q.t <= p.t}

\* Mutant: the newest point counts among the earlier ones.
PriorWithNewest(data, p) == {q \in data : q.t <= p.t}

Prior(data, p) == {q \in data : q.t < p.t}

\* The averages of one target and protocol, with their times.
History(data, reading) ==
    UNION {{<<q.t, s.average>> : s \in {r \in q.latency :
                /\ r.target = reading.target
                /\ r.protocol = reading.protocol}} : q \in data}

Judged(data, p, reading) ==
    LET history == History(Prior(data, p), reading)
        sum == MapThenSumSet(LAMBDA sample : sample[2], history)
    IN [target |-> reading.target, protocol |-> reading.protocol,
        average |-> reading.average, loss |-> reading.loss,
        status |-> Status(reading.average, Cardinality(history), sum)]

Stats(data, filter) ==
    UNION {{Judged(data, p, r) : r \in {s \in p.latency : Accepts(filter, s)}} :
              p \in Newest(Measured(data))}

\* Mutant: the statistics of a date are kept whatever the protocol.
CacheKeyOfDate(day, filter, data) == <<day, Both, Cardinality(data)>>

CacheKey(day, filter, data) == <<day, filter, Cardinality(data)>>

Put(known, key, value) ==
    [k \in DOMAIN known \cup {key} |-> IF k = key THEN value ELSE known[k]]

Cached(known, key, fresh) == IF key \in DOMAIN known THEN known[key] ELSE fresh

-----------------------------------------------------------------------------
(* Rendering.  These set the primed variables from the primed controls.    *)

Tested(data) == {p \in data : p.speed # {}}
Speeds(data) == UNION {p.speed \X {p.t} : p \in data}

Series(data, filter, only) ==
    UNION {{<<p.t, r>> : r \in {s \in p.latency :
                /\ Accepts(filter, s)
                /\ only \in {All, s.target}}} : p \in data}

RenderLatencyChart(data) ==
    latencyChart' = {[shows |-> Series(InWindow(data, date', now, window'), protocol', target'),
                      theme |-> theme', at |-> now]}

RenderCharts(data) ==
    /\ RenderLatencyChart(data)
    /\ speedChart' = {[shows |-> points, theme |-> theme'] : points \in {Speeds(data)} \ {{}}}

DestroyCharts == latencyChart' = {} /\ speedChart' = {}

\* Mutant: an earlier choice is kept though nothing offers it any more.
KeptTargetAnyway(data) == target

KeptTarget(data) == IF target \in Targets(data) THEN target ELSE All

\* Mutant: a page without data keeps its charts.
ShowEmptyOverCharts(known) ==
    /\ view' = "empty"
    /\ speed' = {}
    /\ cards' = {}
    /\ cache' = known
    /\ UNCHANGED <<target, window, offered, windowShown, latencyChart, speedChart>>

ShowEmpty(known) ==
    /\ view' = "empty"
    /\ speed' = {}
    /\ cards' = {}
    /\ DestroyCharts
    /\ cache' = known
    /\ UNCHANGED <<target, window, offered, windowShown>>

UpdateLatencyCards(known, data) ==
    LET key == CacheKey(date', protocol', data)
    IN /\ cards' = Cached(known, key, Stats(data, protocol'))
       /\ cache' = Put(known, key, cards')

ShowContent(known, data) ==
    /\ view' = "content"
    /\ windowShown' = (date' = LocalDate(now))
    /\ window' = TimeFilter(date', now, window)
    /\ offered' = Targets(data)
    /\ target' = KeptTarget(data)
    /\ speed' = Speeds(Newest(Tested(data)))
    /\ UpdateLatencyCards(known, data)
    /\ RenderCharts(data)

ApplyFilters(known) ==
    LET data == Filtered(rawData', date', protocol')
    IN IF data = {} THEN ShowEmpty(known) ELSE ShowContent(known, data)

UpdateLatencyChart ==
    LET data == Filtered(rawData, date, protocol)
    IN /\ IF data = {} THEN UNCHANGED latencyChart ELSE RenderLatencyChart(data)
       /\ UNCHANGED <<view, speed, cards, speedChart, cache>>

-----------------------------------------------------------------------------
(* What happens.                                                           *)

\* The answer to the fetch: a document, and its newest date is chosen.
Load(document) ==
    /\ pending
    /\ pending' = FALSE
    /\ rawData' = Parse(document)
    /\ date' = Max({LocalDate(p.t) : p \in document} \cup {NoDate})
    /\ UNCHANGED <<protocol, themes, now>>
    /\ ApplyFilters(<<>>)

\* No answer, an error status, or an answer that is not a JSON object.
LoadFails ==
    /\ pending
    /\ pending' = FALSE
    /\ view' = "error"
    /\ DestroyCharts
    /\ UNCHANGED <<rawData, controls, speed, cards, cache, themes, now>>

ChooseDate(day) ==
    /\ day \in {LocalDate(p.t) : p \in rawData}
    /\ date' = day
    /\ UNCHANGED <<pending, rawData, protocol, themes, now>>
    /\ ApplyFilters(cache)

ChooseProtocol(filter) ==
    /\ protocol' = filter
    /\ UNCHANGED <<pending, rawData, date, themes, now>>
    /\ ApplyFilters(cache)

\* The target and time filters are on the page when there is something to show.
ChooseTarget(chosen) ==
    /\ view = "content"
    /\ chosen \in offered \cup {All}
    /\ target' = chosen
    /\ UNCHANGED <<pending, rawData, date, protocol, window, offered, windowShown, themes, now>>
    /\ UpdateLatencyChart

ChooseWindow(chosen) ==
    /\ view = "content"
    /\ windowShown
    /\ window' = chosen
    /\ UNCHANGED <<pending, rawData, date, protocol, target, offered, windowShown, themes, now>>
    /\ UpdateLatencyChart

StoredTheme == IF stored = {} THEN "dark" ELSE CHOOSE t \in stored : TRUE

ToggleTheme ==
    LET data == Filtered(rawData, date, protocol)
    IN /\ theme' = IF StoredTheme = "dark" THEN "light" ELSE "dark"
       /\ stored' = IF storable THEN {theme'} ELSE stored
       /\ UNCHANGED <<pending, rawData, controls, storable, view, speed, cards, cache, now>>
       /\ IF data = {} THEN UNCHANGED <<latencyChart, speedChart>> ELSE RenderCharts(data)

TimePasses ==
    /\ now < Horizon
    /\ now' = now + 1
    /\ UNCHANGED <<pending, rawData, controls, shown, themes>>

Init ==
    /\ pending = TRUE
    /\ rawData = {}
    /\ date = NoDate /\ protocol = Both /\ target = All /\ window = WholeDay
    /\ offered = {} /\ windowShown = TRUE
    /\ view = "loading"
    /\ speed = {} /\ cards = {} /\ latencyChart = {} /\ speedChart = {}
    /\ cache = <<>>
    /\ storable \in BOOLEAN
    /\ stored \in IF storable THEN {{}} \cup {{t} : t \in Themes} ELSE {{}}
    /\ theme = StoredTheme
    /\ now = Opened

Next ==
    \/ \E document \in Documents : Load(document)
    \/ LoadFails
    \/ \E p \in rawData : ChooseDate(LocalDate(p.t))
    \/ \E filter \in Protocols \cup {Both} : ChooseProtocol(filter)
    \/ \E chosen \in offered \cup {All} : ChooseTarget(chosen)
    \/ \E chosen \in DOMAIN Duration \cup {WholeDay} : ChooseWindow(chosen)
    \/ ToggleTheme
    \/ TimePasses

Spec == Init /\ [][Next]_vars

-----------------------------------------------------------------------------

Selected == Filtered(rawData, date, protocol)

\* The type invariant of the page: among others, each control holds one of the
\* values it offers.
DashTypeOK ==
    /\ pending \in BOOLEAN /\ windowShown \in BOOLEAN /\ storable \in BOOLEAN
    /\ date \in {NoDate} \cup {LocalDate(p.t) : p \in rawData}
    /\ protocol \in Protocols \cup {Both}
    /\ window \in DOMAIN Duration \cup {WholeDay}
    /\ view = "content" => target \in offered \cup {All}
    /\ view \in {"loading", "error", "empty", "content"}
    /\ Cardinality(latencyChart) <= 1 /\ Cardinality(speedChart) <= 1
    /\ theme \in Themes /\ stored \subseteq Themes
    /\ now \in Opened..Horizon

\* Whatever the user did before and while the fetch was under way, the page
\* shows content exactly when the filters select something, and nothing of an
\* earlier selection stays on a page that shows none.
ViewFollowsData ==
    /\ rawData # {} => (view = "content" <=> Selected # {})
    /\ view # "content" => latencyChart = {} /\ speedChart = {} /\ cards = {} /\ speed = {}

\* The cards show the readings, all of them, of the newest slot of the chosen
\* day that has a reading of the chosen protocol, though they come from a cache
\* whose key names the number of points and not the points.
CardsCurrent ==
    view = "content" =>
        LET slots == {p \in rawData : /\ LocalDate(p.t) = date
                                      /\ \E r \in p.latency : Accepts(protocol, r)}
        IN {<<c.target, c.protocol, c.average>> : c \in cards} =
              UNION {{<<r.target, r.protocol, r.average>> :
                        r \in {s \in p.latency : Accepts(protocol, s)}} : p \in Newest(slots)}

\* What a card says of a reading agrees with the earlier readings of that day,
\* target and protocol: High only when one of them lies more than 40 ms below,
\* and always when all of them lie more than 40 ms below and are exceeded by
\* more than three quarters.
CardsJudged ==
    \A c \in cards :
        LET samples == History({p \in rawData : LocalDate(p.t) = date}, c)
            last == Max({x[1] : x \in samples})
            earlier == {x[2] : x \in {y \in samples : y[1] < last}}
        IN /\ c.status = "High" => \E a \in earlier : c.average > a + 40
           /\ earlier # {} /\ (\A a \in earlier : c.average > a + 40 /\ 100 * c.average > 175 * a)
                => c.status = "High"

\* The latency chart plots the readings the four filters selected when it was
\* drawn, none more and none less; the newest one is never cut off by a browser
\* clock that is behind the server's.
ChartCurrent ==
    \A chart \in latencyChart :
        LET chosen == UNION {{<<p.t, r>> : r \in p.latency} : p \in rawData}
            today == LocalDate(chart.at) = date
            newest == Max({p.t : p \in Measured(Selected)} \cup {chart.at})
        IN chart.shows = {x \in chosen :
                /\ LocalDate(x[1]) = date
                /\ protocol = Both \/ x[2].protocol = protocol
                /\ target = All \/ x[2].target = target
                /\ today /\ window # WholeDay => newest - x[1] <= Duration[window]}

\* Packet loss that was stored shows on the card.
LossShown ==
    \A document \in Documents : rawData = Parse(document) =>
        \A p \in document : \A raw \in p.latency :
            \A c \in cards :
                /\ "packet_loss" \in DOMAIN raw
                /\ p.t = Max({q.t : q \in Measured(Selected)})
                /\ raw.target = c.target /\ raw.protocol = c.protocol
                => c.loss = raw.packet_loss
=============================================================================
