----------------------------- MODULE MCSpotProvider -----------------------------
(* SpotProvider on days of four hours and weeks of two days.  A tick is half an *)
(* hour: a day has 8, a week 16.                                               *)
EXTENDS SpotProvider

UTC == [std |-> 0, dst |-> 0, from |-> 0]
HalfHour == [std |-> 1, dst |-> 3, from |-> 11]
Summer == [std |-> -2, dst |-> 0, from |-> 12]

Time(zone, days, hours) ==
    [kind |-> "time", broken |-> "no", enabled |-> TRUE, zone |-> zone,
     windows |-> {[days |-> days, hours |-> hours]}, holidays |-> {}, early |-> {}]

Market(zone, windows, holidays, early) ==
    [kind |-> "market", broken |-> "no", enabled |-> TRUE, zone |-> zone,
     windows |-> windows, holidays |-> holidays, early |-> early]

Office == Time(UTC, {<<0, 1>>}, {<<1, 2>>})

\* Over midnight and over the week's end, with an offset of half an hour that changes by
\* an hour.
Night == Time(HalfHour, {<<1, 0>>}, {<<3, 0>>})

\* One day a week, across a change of the offset.
Weekly == Time(Summer, {<<1, 1>>}, {<<0, 0>>, <<2, 3>>})

Off == [Office EXCEPT !.enabled = FALSE, !.broken = "zone"]
Broken == [Office EXCEPT !.broken = "list"]

\* Two sessions, holidays for longer than the horizon, one early close.
Exchange ==
    Market(Summer, {[days |-> {<<0, 1>>}, hours |-> {<<0, 1>>}], [days |-> {<<1, 1>>}, hours |-> {<<3, 3>>}]},
           {0, 1}, {[date |-> 2, close |-> 0]})

\* Open all day on one day of the week, and a session that does not parse: every hour of
\* dates 0 (open), 1 (a holiday) and 2 (open) evaluates, but from date 2 on the scan for the
\* next transition meets one that does not.
Patchy == [Market(UTC, {[days |-> {<<0, 0>>}, hours |-> {<<0, 3>>}]}, {1}, {})
             EXCEPT !.broken = "list"]

AllSpecs == {Night, Weekly, Off, Broken, Exchange, Patchy}
OneSpec == {Office}

=============================================================================
