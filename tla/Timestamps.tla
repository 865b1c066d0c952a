----------------------------- MODULE Timestamps -----------------------------
(***************************************************************************)
(* The time parser of the time_parser operator and of every other parser:  *)
(* TimeParser of operator/helper/time.go.  The state is one stamp that     *)
(* waits to be parsed while the clock runs on; Parse is an operator of it. *)
(*                                                                         *)
(* Abstraction.  The day has two halves.  A second has 1000 units: "ms",   *)
(* "us" and "ns" stand for one, two and three decimals, and a float is     *)
(* printed in at least Width characters.  A year-less stamp is read in the *)
(* zone of the clock; a zone is its abbreviation and its hours from UTC.   *)
(***************************************************************************)
EXTENDS Integers, Sequences

CONSTANTS Years, Days, Epochs    \* of the stamps and of the clock

VARIABLES stamp, clock

timeVars == <<stamp, clock>>

\* A result is a sequence of one value, or the error.
Error == <<>>

-----------------------------------------------------------------------------
(* The calendar of package time *)

Leap(y) == (y % 4 = 0 /\ y % 100 # 0) \/ y % 400 = 0

\* Days before the first of a month in an ordinary year.
Before == <<0, 31, 59, 90, 120, 151, 181, 212, 243, 273, 304, 334>>

\* time.Date takes the 29th of February of an ordinary year for the 1st of March.
Date(y, m, d, half) ==
  [year |-> y, half |-> half,
   month |-> IF m = 2 /\ d = 29 /\ ~Leap(y) THEN 3 ELSE m,
   day |-> IF m = 2 /\ d = 29 /\ ~Leap(y) THEN 1 ELSE d]

\* The half day of a date, counted from the year 1.
Instant(t) ==
  LET y == t.year - 1
  IN 2 * (365 * y + y \div 4 - y \div 100 + y \div 400 + Before[t.month] + t.day
          + IF t.month > 2 /\ Leap(t.year) THEN 1 ELSE 0) + t.half

\* Every date the stamps and the clock are taken from.
Dates ==
  {t \in [year : Years, month : {d[1] : d \in Days}, day : {d[2] : d \in Days}, half : {0, 1}] :
     /\ <<t.month, t.day>> \in Days
     /\ t = Date(t.year, t.month, t.day, t.half)}

-----------------------------------------------------------------------------
(* Formats without a year *)

Week == 7 * 2

\* Mutant: no stamp may be in the future.
MutTooLate(d, n) == Instant(d) > Instant(n)

\* d.After(n.AddDate(0, 0, 7))
TooLate(d, n) == Instant(d) > Instant(n) + Week

\* A stamp without a year has the year 0; the others are kept as they are.
setTimestampYear(t, n) ==
  LET d == Date(n.year, t.month, t.day, t.half)
  IN IF t.year > 0 THEN t
     ELSE IF TooLate(d, n) THEN Date(d.year - 1, d.month, d.day, d.half) ELSE d

-----------------------------------------------------------------------------
(* Formats with a zone: parseGotime *)

Zones == {"UTC", "GMT", "EST", "EDT", "+00"}

\* What the zones mean, which of them are names in the time zone database, and
\* the abbreviations of a location: New York, London in winter, the Azores in
\* summer.  A location that is a zone's name knows that zone.
Hours == [z \in Zones |-> CASE z = "EST" -> -5 [] z = "EDT" -> -4 [] OTHER -> 0]
Database == {"UTC", "GMT", "EST"}
Abbreviations(loc) ==
  CASE loc = "New_York" -> {"EST", "EDT"} [] loc = "London" -> {"GMT"}
    [] loc = "Azores" -> {"+00"} [] OTHER -> {loc}

\* time.ParseInLocation: a zone the location does not know gets no offset.
ParseInLocation(zone, loc) == IF zone \in Abbreviations(loc) THEN Hours[zone] ELSE 0

\* An offset of zero that is not UTC is looked up and parsed again, or refused.
parseGotime(zone, loc) ==
  LET offset == ParseInLocation(zone, loc)
  IN IF offset # 0 \/ zone = "UTC" THEN <<offset>>
     ELSE IF zone \notin Database THEN Error
     ELSE <<ParseInLocation(zone, zone)>>

-----------------------------------------------------------------------------
(* Seconds since the epoch *)

Width == 5

Decimals == [layout \in {"s", "ms", "us", "ns", "s.ms", "s.us", "s.ns"} |->
  CASE layout = "s" -> 0 [] layout \in {"ms", "s.ms"} -> 1
    [] layout \in {"us", "s.us"} -> 2 [] layout \in {"ns", "s.ns"} -> 3]

Dotted(layout) == layout \in {"s.ms", "s.us", "s.ns"}

Pow10(n) == IF n = 0 THEN 1 ELSE IF n = 1 THEN 10 ELSE IF n = 2 THEN 100 ELSE 1000

Abs(n) == IF n < 0 THEN -n ELSE n

\* Integer division and remainder of Go go towards zero.
Quo(n, m) == IF n < 0 THEN -(Abs(n) \div m) ELSE n \div m
Rem(n, m) == n - m * Quo(n, m)

\* A decimal text: `frac' has `digits' digits, -1 if there is no point.
Text(neg, whole, frac, digits) ==
  [neg |-> neg, whole |-> whole, frac |-> frac, digits |-> digits, padded |-> FALSE]

Signed(n) == Text(n < 0, Abs(n), 0, -1)

\* fmt.Sprintf("%10.3f"), v in units: to the nearest, ties to even, and blanks
\* before a number of fewer than Width characters.
Sprintf(v, digits) ==
  LET unit == Pow10(3 - digits)
      q == Abs(v) \div unit
      r == Abs(v) % unit
      n == IF 2 * r > unit \/ (2 * r = unit /\ q % 2 = 1) THEN q + 1 ELSE q
      whole == n \div Pow10(digits)
      length == (IF v < 0 THEN 2 ELSE 1) + digits
                + (IF whole < 10 THEN 1 ELSE IF whole < 100 THEN 2 ELSE 3)
  IN [Text(v < 0, whole, n % Pow10(digits), digits) EXCEPT !.padded = length < Width]

\* getEpochStamp of a string, an integer (in units of the layout, or in seconds)
\* or a float (in thousandths of either).
getEpochStamp(layout, value) ==
  CASE value.type = "string" -> value.text
    [] value.type = "int" -> IF Dotted(layout)
         THEN [Signed(value.n) EXCEPT !.digits = 1] ELSE Signed(value.n)
    [] value.type = "float" -> IF Dotted(layout)
         THEN Sprintf(value.n, Decimals[layout]) ELSE Signed(Quo(value.n, 1000))

Negate(neg, n) == IF neg THEN -n ELSE n

\* time.Unix
Unix(sec, units) == 1000 * sec + units

\* subsecToNs
Subsec(layout) == Pow10(3 - Decimals[layout])

\* The sign is part of the whole seconds only; strconv.ParseInt refuses blanks.
parseEpochTime(layout, value) ==
  LET t == getEpochStamp(layout, value)
      i == Negate(t.neg, t.whole)
      perSecond == Pow10(Decimals[layout])
  IN IF Dotted(layout)
     THEN IF t.digits = -1 \/ t.padded THEN Error ELSE <<Unix(i, t.frac * Subsec(layout))>>
     ELSE IF t.digits # -1 THEN Error
          ELSE <<Unix(Quo(i, perSecond), Rem(i, perSecond) * (1000 \div perSecond))>>

-----------------------------------------------------------------------------
(* Configurations *)

\* strptime.ToNative
ToNative(layout) ==
  CASE layout = "%Y" -> "2006" [] layout = "%YZ" -> "2006Z" [] layout = "%?" -> "invalid"
    [] OTHER -> layout

\* setLocation; only a location of the database can be loaded.
setLocation(c) ==
  IF c.location = "Nowhere" THEN Error
  ELSE <<[c EXCEPT !.zone = IF c.location # "" THEN c.location
                            ELSE IF c.layout = "2006Z" THEN "UTC" ELSE "Local"]>>

\* A strptime layout, also by default, is converted once and for all.
Remapped(c) == [c EXCEPT !.layout = ToNative(c.layout), !.type = "gotime"]

Validate(c) ==
  IF ~c.from \/ (c.layout = "" /\ c.type # "native") THEN Error
  ELSE CASE c.type = "native" -> <<c>>
         [] c.type = "gotime" -> setLocation(c)
         [] c.type \in {"", "strptime"} ->
              IF ToNative(c.layout) = "invalid" THEN Error ELSE setLocation(Remapped(c))
         [] c.type = "epoch" -> IF c.layout \in DOMAIN Decimals THEN <<c>> ELSE Error
         [] OTHER -> Error

-----------------------------------------------------------------------------
\* The stamps: dates without their year, zones, and numbers in every layout.
Stamps ==
  [kind : {"date"}, at : Dates]
  \cup [kind : {"zone"}, zone : Zones, loc : {"New_York", "London", "Azores", "UTC"}]
  \cup [kind : {"epoch"}, layout : DOMAIN Decimals,
        value : [type : {"int", "float"}, n : Epochs]
                \cup [type : {"string"},
                      text : [neg : BOOLEAN, whole : {0, 1, 120}, frac : {0, 5}, digits : {-1, 1, 2, 3},
                              padded : {FALSE}]]]
  \cup [kind : {"config"}, from : BOOLEAN, zone : {""},
        type : {"", "strptime", "gotime", "epoch", "native", "other"},
        layout : {"", "%Y", "%YZ", "%?", "2006Z", "s", "s.ns"},
        location : {"", "New_York", "Nowhere"}]

Init ==
  /\ stamp \in Stamps
  /\ clock = CHOOSE t \in Dates : \A u \in Dates : Instant(t) <= Instant(u)

\* Time passes before a stamp without a year is parsed.
Tick ==
  /\ stamp.kind = "date"
  /\ \E t \in Dates : Instant(t) > Instant(clock) /\ clock' = t
  /\ UNCHANGED stamp

Next == Tick

\* What TimeParser.Parse puts on the entry.
Parse ==
  CASE stamp.kind = "date" -> <<setTimestampYear([stamp.at EXCEPT !.year = 0], clock)>>
    [] stamp.kind = "zone" -> parseGotime(stamp.zone, stamp.loc)
    [] stamp.kind = "epoch" -> parseEpochTime(stamp.layout, stamp.value)

-----------------------------------------------------------------------------
\* A stamp without a year is given the year it was written in, if it is parsed
\* in that year or the next, is at most a week ahead of the clock and less than
\* 365 days older than that; but the 29th of February is moved to the 1st of March
\* when it is parsed in an ordinary year.
YearRestored ==
  LET t == stamp.at
      ahead == Instant(clock) + Week
  IN (stamp.kind = "date" /\ t.year <= clock.year
      /\ Instant(t) <= ahead /\ Instant(t) > ahead - 2 * 365
      /\ (t.month = 2 /\ t.day = 29 => Leap(clock.year)))
     => Parse = <<t>>

\* A stamp with a zone is refused or means that zone, never UTC by mistake.
ZoneRight == stamp.kind = "zone" => Parse \in {Error, <<Hours[stamp.zone]>>}

\* Seconds since the epoch that are not negative are parsed exactly: an integer,
\* a text with the decimals of its layout; a float to the nearest decimal, or
\* cut off in a layout without decimals.  A float is refused only when it is
\* small enough to be printed with blanks before it.
EpochExact ==
  LET l == stamp.layout
      v == stamp.value
      unit == Pow10(3 - Decimals[l])
  IN stamp.kind = "epoch" =>
       /\ v.type = "int" => Parse = <<v.n * (IF Dotted(l) THEN 1000 ELSE unit)>>
       /\ v.type = "string" /\ Dotted(l) /\ v.text.digits = Decimals[l] /\ ~v.text.neg
          => Parse = <<1000 * v.text.whole + unit * v.text.frac>>
       /\ v.type = "string" /\ ~Dotted(l) /\ v.text.digits = -1
          => Parse = <<unit * Negate(v.text.neg, v.text.whole)>>
       /\ v.type = "float" /\ ~Dotted(l) => Abs(1000 * Parse[1] - unit * v.n) < 1000 * unit
       /\ v.type = "float" /\ Dotted(l) /\ v.n >= 0
          => IF Parse = Error THEN v.n < 100000 /\ Decimals[l] < 3
             ELSE 2 * Abs(Parse[1] - v.n) <= unit

\* A configuration that Validate accepts is one that Parse knows, and it is not
\* changed when it is validated again (a parser is validated where it is built,
\* and keeps the same pointer).
ValidatedOnce ==
  stamp.kind = "config" =>
    LET c == Validate(stamp)
    IN c # Error => c[1].type \in {"native", "gotime", "epoch"} /\ Validate(c[1]) = c

\* What TimeParser makes of a stamp: the year, the zone and the seconds of the
\* moment it stands for, or an error.
TimesRight == YearRestored /\ ZoneRight /\ EpochExact /\ ValidatedOnce

=============================================================================
