-------------------------- MODULE ExtractionProofs --------------------------
(* What holds of every reading of an email, whatever the text, the calendar's  *)
(* lengths and the model's answer.                                             *)
EXTENDS Extraction, TLAPS

-----------------------------------------------------------------------------
(* The calendar.                                                               *)

\* Euclid: what division by a positive number leaves.
LEMMA Division ==
  ASSUME NEW n \in Int, NEW k \in Nat \ {0}
  PROVE  n \div k \in Int /\ n % k \in 0..(k - 1) /\ n = (n \div k) * k + (n % k)
OBVIOUS

\* A day number is the number of the date it stands for.
LEMMA RoundTrip ==
  ASSUME NEW n \in Int
  PROVE  DayNumber(OnDay(n)) = n
<1> DEFINE m == n \div MonthDays
           y == m \div YearMonths
<1>1. /\ m \in Int /\ n % MonthDays \in 0..(MonthDays - 1)
      /\ n = m * MonthDays + (n % MonthDays)
  BY Division, ExtractionAssumption
<1>2. /\ y \in Int /\ m % YearMonths \in 0..(YearMonths - 1)
      /\ m = y * YearMonths + (m % YearMonths)
  BY <1>1, Division, ExtractionAssumption
<1>3. /\ OnDay(n).year = y /\ OnDay(n).month = (m % YearMonths) + 1
      /\ OnDay(n).day = (n % MonthDays) + 1
  BY DEF OnDay
<1>4. y * YearMonths + OnDay(n).month - 1 = m
  <2> HIDE DEF m, y
  <2>1. y * YearMonths \in Int BY <1>2, ExtractionAssumption
  <2> QED BY <1>1, <1>2, <1>3, <2>1
<1>5. DayNumber(OnDay(n)) = m * MonthDays + OnDay(n).day - 1
  BY <1>3, <1>4 DEF DayNumber
<1> HIDE DEF m, y
<1>6. m * MonthDays \in Int BY <1>1, ExtractionAssumption
<1> QED BY <1>1, <1>3, <1>5, <1>6

\* A date the text names has a number, and so has the one it stands for.
LEMMA NumberType ==
  ASSUME NEW e \in NamedDate, NEW year \in Int
  PROVE  DayNumber([e EXCEPT !.year = year]) \in Int
<1>1. [e EXCEPT !.year = year].year = year /\ [e EXCEPT !.year = year].month = e.month
      /\ [e EXCEPT !.year = year].day = e.day /\ e.month \in Nat /\ e.day \in Nat
  BY DEF NamedDate
<1> DEFINE k == year * YearMonths + e.month - 1
<1>2. year * YearMonths \in Int BY ExtractionAssumption
<1>3. k \in Int BY <1>1, <1>2
<1>4. DayNumber([e EXCEPT !.year = year]) = k * MonthDays + e.day - 1
  BY <1>1 DEF DayNumber
<1> HIDE DEF k
<1>5. k * MonthDays \in Int BY <1>3, ExtractionAssumption
<1> QED BY <1>1, <1>4, <1>5

\* So has a year.
LEMMA YearType ==
  ASSUME NEW n \in Int
  PROVE  YearOf(n) \in Int
<1>1. n \div MonthDays \in Int BY Division, ExtractionAssumption
<1>2. (n \div MonthDays) \div YearMonths \in Int BY <1>1, Division, ExtractionAssumption
<1> QED BY <1>2 DEF YearOf, OnDay

-----------------------------------------------------------------------------
(* One reading.                                                                *)

\* The text that is read names dates, if any.
LEMMA CleanText ==
  ASSUME NEW m \in Mails
  PROVE  /\ Clean(m).dates \in Seq(NamedDate)
         /\ Clean(m) = IF m.head = Blank THEN m.quoted ELSE m.head
<1>1. Clean(m) \in {m.head, m.quoted} \ {Blank} BY ExtractionAssumption DEF Clean
<1> QED BY <1>1, ExtractionAssumption DEF Clean

\* The day the text names, with the present year where it names none, or the one its
\* relative word means on the day it is read.
NamesDay(text, day, n) ==
  \/ \E e \in Range(text.dates) : n = DayNumber([e EXCEPT !.year = YearNamed(e, day)])
  \/ /\ text.dates = << >>
     /\ \/ text.relative = "tomorrow" /\ n = day + 1
        \/ text.relative = "next week" /\ n = day + 7

\* A date of the patterns is the first the text names, or the day that a relative
\* word means.
LEMMA PatternDateIsNamed ==
  ASSUME NEW text, text.dates \in Seq(NamedDate), NEW day \in Int,
         PatternDate(text, day) # NoDate
  PROVE  NamesDay(text, day, DayNumber(PatternDate(text, day)))
<1>1. CASE text.dates # << >>
  <2> DEFINE e == Head(text.dates)
  <2>1. e \in NamedDate /\ e \in Range(text.dates)
    <3>1. e = text.dates[1] /\ 1 \in DOMAIN text.dates BY <1>1
    <3> QED BY <3>1 DEF Range
  <2>2. YearNamed(e, day) \in Int BY <2>1, YearType DEF YearNamed, NamedDate
  <2>3. PatternDate(text, day) = OnDay(DayNumber([e EXCEPT !.year = YearNamed(e, day)]))
    BY <1>1 DEF PatternDate
  <2> HIDE DEF e
  <2>4. DayNumber([e EXCEPT !.year = YearNamed(e, day)]) \in Int BY <2>1, <2>2, NumberType
  <2> QED BY <2>1, <2>3, <2>4, RoundTrip DEF NamesDay
<1>2. CASE text.dates = << >> /\ text.relative = "tomorrow"
  <2>1. PatternDate(text, day) = OnDay(day + 1) BY <1>2 DEF PatternDate
  <2>2. day + 1 \in Int OBVIOUS
  <2>3. DayNumber(PatternDate(text, day)) = day + 1 BY <2>1, <2>2, RoundTrip
  <2> QED BY <1>2, <2>3 DEF NamesDay
<1>3. CASE text.dates = << >> /\ text.relative = "next week"
  <2>1. PatternDate(text, day) = OnDay(day + 7) BY <1>3 DEF PatternDate
  <2>2. day + 7 \in Int OBVIOUS
  <2>3. DayNumber(PatternDate(text, day)) = day + 7 BY <2>1, <2>2, RoundTrip
  <2> QED BY <1>3, <2>3 DEF NamesDay
<1>4. CASE text.dates = << >> /\ text.relative \notin {"tomorrow", "next week"}
  BY <1>4 DEF PatternDate
<1> QED BY <1>1, <1>2, <1>3, <1>4

\* An answered date that survives is one the text names.
LEMMA AnsweredDateIsNamed ==
  ASSUME NEW text, text.dates \in Seq(NamedDate), NEW day \in Int, NEW date,
         ValidateAIDate(date, text, day) # NoDate
  PROVE  /\ ValidateAIDate(date, text, day) = date
         /\ NamesDay(text, day, DayNumber(date))
<1>1. PICK e \in Range(text.dates) :
        /\ ValidateAIDate(date, text, day) = date
        /\ e.day = date.day /\ e.month = date.month /\ date.year = YearNamed(e, day)
  BY DEF ValidateAIDate
<1>2. e \in NamedDate BY <1>1 DEF Range
<1>3. DayNumber(date) = DayNumber([e EXCEPT !.year = YearNamed(e, day)])
  <2>1. /\ [e EXCEPT !.year = YearNamed(e, day)].year = date.year
        /\ [e EXCEPT !.year = YearNamed(e, day)].month = date.month
        /\ [e EXCEPT !.year = YearNamed(e, day)].day = date.day
    BY <1>1, <1>2 DEF NamedDate
  <2> QED BY <2>1 DEF DayNumber
<1> QED BY <1>1, <1>3 DEF NamesDay

\* Hence every date that is stored, with or without an answer.
LEMMA DateIsNamed ==
  ASSUME NEW text, text.dates \in Seq(NamedDate), NEW day \in Int, NEW answer,
         Merged(answer, text, day).date # NoDate
  PROVE  NamesDay(text, day, DayNumber(Merged(answer, text, day).date))
<1> DEFINE date == Merged(answer, text, day).date
<1>1. \/ date = PatternDate(text, day)
      \/ /\ date = ValidateAIDate(answer.date, text, day)
         /\ ValidateAIDate(answer.date, text, day) # NoDate
  BY DEF Merged, MergedDate
<1> HIDE DEF date
<1>2. ASSUME date = PatternDate(text, day) PROVE NamesDay(text, day, DayNumber(date))
  <2>1. PatternDate(text, day) # NoDate BY <1>2 DEF date
  <2> QED BY <1>2, <2>1, PatternDateIsNamed
<1>3. ASSUME date = ValidateAIDate(answer.date, text, day),
             ValidateAIDate(answer.date, text, day) # NoDate
      PROVE  NamesDay(text, day, DayNumber(date))
  BY <1>3, AnsweredDateIsNamed
<1>4. NamesDay(text, day, DayNumber(date)) BY <1>1, <1>2, <1>3
<1> QED BY <1>4 DEF date

\* A stored date has a number.
LEMMA DateNumber ==
  ASSUME NEW text, text.dates \in Seq(NamedDate), NEW day \in Int, NEW answer,
         Merged(answer, text, day).date # NoDate
  PROVE  DayNumber(Merged(answer, text, day).date) \in Int
<1>1. \A e \in Range(text.dates) : DayNumber([e EXCEPT !.year = YearNamed(e, day)]) \in Int
  <2>1. TAKE e \in Range(text.dates)
  <2>2. e \in NamedDate BY DEF Range
  <2>3. YearNamed(e, day) \in Int BY <2>2, YearType DEF YearNamed, NamedDate
  <2> QED BY <2>2, <2>3, NumberType
<1>2. NamesDay(text, day, DayNumber(Merged(answer, text, day).date)) BY DateIsNamed
<1>3. day + 1 \in Int /\ day + 7 \in Int OBVIOUS
<1> QED BY <1>1, <1>2, <1>3 DEF NamesDay

\* The text's own company is the only one a reading may give it.
LEMMA CompanyIsTheTexts ==
  ASSUME NEW text, Usable(text.company), NEW day, NEW answer
  PROVE  Merged(answer, text, day).company = Canon[text.company]
<1>1. PatternCompany(text) = text.company BY DEF PatternCompany
<1>2. MergedCompany(answer, text) = Canon[text.company] BY <1>1 DEF MergedCompany
<1> QED BY <1>1, <1>2 DEF Merged

\* Without an answer, a text whose date has its year gives the same key on any day.
LEMMA PatternsAreSteady ==
  ASSUME NEW text, text.dates # << >>, Head(text.dates).year # NoYear,
         NEW day, NEW other
  PROVE  /\ Merged(NoAnswer, text, day).company = Merged(NoAnswer, text, other).company
         /\ Merged(NoAnswer, text, day).stage = Merged(NoAnswer, text, other).stage
         /\ Merged(NoAnswer, text, day).date = Merged(NoAnswer, text, other).date
<1>1. PatternDate(text, day) = PatternDate(text, other)
  BY DEF PatternDate, YearNamed
<1> QED BY <1>1 DEF Merged

\* A venue is one of five things, and only some of them are a place.
LEMMA VenueKinds ==
  ASSUME NEW text, NEW day, NEW answer
  PROVE  Merged(answer, text, day).venue \in {"named", "withheld", "implied", "silent"}
<1>1. PatternVenue(text) \in {"named", "withheld", "implied", "silent"} BY DEF PatternVenue
<1> QED BY <1>1 DEF Merged, MergedVenue

\* What the parts may add, all told and where the place is withheld or the date is
\* "next week", and what is taken off.
CompanyScores == {0, 175, 250}
DateScores == {0, 175, 280, 350}
NextWeekScores == {0, 175}
VenueScores == {30, 50, 90}
NowhereScores == {30, 50}
KnownScores == {0, 50}
UnnamedPenalties == {0, 100}
NowherePenalties == {0, 150}
NoPlacePenalties == {150}

LEMMA DateScored ==
  ASSUME NEW date, NEW text
  PROVE  /\ DateScore(date, text) \in DateScores
         /\ text.relative = "next week" => DateScore(date, text) \in NextWeekScores
<1> USE DEF DateScores, NextWeekScores
<1>1. CASE date = NoDate BY <1>1 DEF DateScore
<1>2. CASE date # NoDate /\ text.relative = "next week" BY <1>2 DEF DateScore
<1>3. CASE date # NoDate /\ (text.relative = "tomorrow" \/ text.relative = "today")
  <2>1. text.relative # "next week" BY <1>3
  <2>2. DateScore(date, text) = 280 BY <1>3, <2>1 DEF DateScore
  <2> QED BY <2>1, <2>2, Zenon
<1>4. CASE date # NoDate /\ text.relative # "next week"
           /\ text.relative # "tomorrow" /\ text.relative # "today"
  <2>1. DateScore(date, text) = 350 BY <1>4 DEF DateScore
  <2> QED BY <1>4, <2>1, Zenon
<1> QED BY <1>1, <1>2, <1>3, <1>4

LEMMA VenueScored ==
  ASSUME NEW venue
  PROVE  /\ VenueScore(venue) \in VenueScores
         /\ venue \in {"withheld", "silent"} => VenueScore(venue) \in NowhereScores
BY DEF VenueScore, VenueScores, NowhereScores

LEMMA CompanyScored ==
  ASSUME NEW company
  PROVE  CompanyScore(company) \in CompanyScores
BY DEF CompanyScore, CompanyScores

\* What remains of the scores' total.
Scored(company, date, time, venue, known, penalty) ==
  LET total == company + date + time + 100 + venue + known
      capped == IF total > 1000 THEN 1000 ELSE total
  IN IF capped < penalty THEN 0 ELSE capped - penalty

\* The penalty for what is missing, the time among it.
Untimed(unnamed, nowhere) == unnamed + nowhere + 100

\* Too little remains without a place, or with half of a date.
LEMMA TooLittle ==
  ASSUME NEW company \in CompanyScores, NEW date \in DateScores, NEW venue \in VenueScores,
         NEW known \in KnownScores, NEW unnamed \in UnnamedPenalties,
         NEW nowhere \in NowherePenalties,
         (venue \in NowhereScores /\ nowhere \in NoPlacePenalties) \/ date \in NextWeekScores
  PROVE  Scored(company, date, 0, venue, known, Untimed(unnamed, nowhere)) < THRESHOLD
BY DEF Scored, CompanyScores, DateScores, NextWeekScores, VenueScores, NowhereScores,
       KnownScores, UnnamedPenalties, NowherePenalties, NoPlacePenalties, Untimed, THRESHOLD

\* Neither a time nor a place is too little, and so is "next week" without a time.
LEMMA VagueIsUncertain ==
  ASSUME NEW d, NEW text,
         d.time = NoTime,
         d.venue \in {"withheld", "silent"} \/ text.relative = "next week"
  PROVE  Confidence(d, text) < THRESHOLD
<1> DEFINE known == IF d.date = NoDate THEN 0 ELSE 50
           unnamed == IF d.company = UNRESOLVED_COMPANY THEN 100 ELSE 0
           nowhere == IF d.venue \in {"withheld", "silent"} THEN 150 ELSE 0
           company == CompanyScore(d.company)
           date == DateScore(d.date, text)
           time == TimeScore(d.time, text)
           venue == VenueScore(d.venue)
<1>1. known \in KnownScores /\ unnamed \in UnnamedPenalties /\ nowhere \in NowherePenalties
  BY Zenon DEF KnownScores, UnnamedPenalties, NowherePenalties
<1>2. d.venue \in {"withheld", "silent"} => nowhere \in NoPlacePenalties
  BY Zenon DEF NoPlacePenalties
<1>3. Penalty(d) = Untimed(unnamed, nowhere) BY Zenon DEF Penalty, Untimed
<1>4. time = 0 BY Zenon DEF TimeScore
<1>5. Confidence(d, text) = Scored(company, date, time, venue, known, Penalty(d))
  BY DEF Confidence, Scored
<1>6. company \in CompanyScores BY CompanyScored
<1>7. /\ date \in DateScores
      /\ text.relative = "next week" => date \in NextWeekScores
  BY DateScored
<1>8. /\ venue \in VenueScores
      /\ d.venue \in {"withheld", "silent"} => venue \in NowhereScores
  BY VenueScored, Zenon
<1> HIDE DEF known, unnamed, nowhere, company, date, time, venue
<1>9. (venue \in NowhereScores /\ nowhere \in NoPlacePenalties) \/ date \in NextWeekScores
  BY <1>2, <1>7, <1>8, Zenon
<1>10. Scored(company, date, 0, venue, known, Untimed(unnamed, nowhere)) < THRESHOLD
  BY <1>1, <1>6, <1>7, <1>8, <1>9, TooLittle, Zenon
<1> QED BY <1>3, <1>4, <1>5, <1>10, Zenon

-----------------------------------------------------------------------------
(* Time.                                                                       *)

\* An event whose date is day n turns from upcoming to past within that day.
LEMMA Passes ==
  ASSUME NEW r, NEW n \in Int, DayNumber(r.date) = n,
         NEW t \in Int
  PROVE  /\ t < HalfDay * n - IST => ~Expired(r, t)
         /\ t >= HalfDay * n - IST + HalfDay => Expired(r, t)
         /\ ~IsClockTime(r.time) /\ t < HalfDay * n - IST + HalfDay => ~Expired(r, t)
<1> USE DEF HalfDay, IST
<1>1. StoredDate(r) = 48 * n /\ ISTDay(48 * n) = n
  BY DEF StoredDate, ISTDay
<1>2. CASE IsClockTime(r.time)
  <2>1. r.time \in 0..23 BY <1>2 DEF IsClockTime
  <2>2. Expired(r, t) <=> t >= 48 * n + 2 * r.time - 11
    BY <1>1, <1>2 DEF Expired, Occurrence
  <2> QED BY <1>2, <2>1, <2>2
<1>3. CASE ~IsClockTime(r.time)
  <2>1. Expired(r, t) <=> n < ISTDay(t) BY <1>1, <1>3 DEF Expired
  <2>2. t < 48 * n - 11 + 48 => ISTDay(t) <= n BY DEF ISTDay
  <2>3. t >= 48 * n - 11 + 48 => ISTDay(t) > n BY DEF ISTDay
  <2>4. ISTDay(t) \in Int BY DEF ISTDay
  <2> QED BY <1>3, <2>1, <2>2, <2>3, <2>4
<1> QED BY <1>2, <1>3
-----------------------------------------------------------------------------
(* The readings.                                                               *)

LEMMA InvInit == Init => IInv
BY ExtractionAssumption DEF Init, IInv

LEMMA InvStep == IInv /\ [Next]_vars => IInv'
<1> SUFFICES ASSUME IInv, [Next]_vars PROVE IInv'
  OBVIOUS
<1> DEFINE Made(r, last) == \E answer \in Answers \cup {NoAnswer} :
             /\ r.on \in FirstDay..last
             /\ Viable(Merged(answer, Clean(mail), r.on))
             /\ r = Reading(answer, Clean(mail), r.on)
<1>1. /\ mail \in Mails /\ today \in FirstDay..LastDay
      /\ \A r \in readings : Made(r, today)
  BY DEF IInv
<1>2. /\ mail' = mail /\ today' \in FirstDay..LastDay
      /\ \A r \in readings' : Made(r, today')
      => IInv'
  <2> SUFFICES ASSUME mail' = mail, today' \in FirstDay..LastDay,
                      \A r \in readings' : Made(r, today')
               PROVE  IInv'
    OBVIOUS
  <2>1. Clean(mail') = Clean(mail) OBVIOUS
  <2> QED BY <1>1, <2>1 DEF IInv
<1>3. CASE NextDay
  <2>1. /\ mail' = mail /\ readings' = readings
        /\ today' = today + 1 /\ today < LastDay
    BY <1>3 DEF NextDay
  <2>2. today' \in FirstDay..LastDay BY <1>1, <2>1, ExtractionAssumption
  <2>3. \A n \in FirstDay..today : n \in FirstDay..today'
    BY <1>1, <2>1, ExtractionAssumption
  <2>4. \A r \in readings' : Made(r, today') BY <1>1, <2>1, <2>3
  <2> QED BY <1>2, <2>1, <2>2, <2>4
<1>4. ASSUME NEW answer \in Answers \cup {NoAnswer}, Read(answer) PROVE IInv'
  <2> DEFINE new == Reading(answer, Clean(mail), today)
  <2>1. /\ mail' = mail /\ today' = today /\ readings' = readings \cup {new}
        /\ Viable(Merged(answer, Clean(mail), today))
    BY <1>4 DEF Read
  <2>2. new.on = today BY DEF Reading
  <2>3. today \in FirstDay..today BY <1>1, ExtractionAssumption
  <2>4. Made(new, today) BY <2>1, <2>2, <2>3
  <2> HIDE DEF new
  <2>5. \A r \in readings' : Made(r, today') BY <1>1, <2>1, <2>4
  <2> QED BY <1>1, <1>2, <2>1, <2>5
<1>5. CASE UNCHANGED vars
  BY <1>1, <1>2, <1>5 DEF vars
<1> QED BY <1>3, <1>4, <1>5 DEF Next

\* What the invariant says of one reading.
LEMMA AReading ==
  ASSUME IInv, NEW r \in readings
  PROVE  \E answer : LET d == Merged(answer, Clean(mail), r.on) IN
           /\ r.on \in Int
           /\ Clean(mail).dates \in Seq(NamedDate)
           /\ d.date # NoDate
           /\ r.company = d.company /\ r.stage = d.stage /\ r.date = d.date
           /\ r.time = d.time /\ r.venue = d.venue
           /\ ~r.answered => answer = NoAnswer
           /\ r.status = "scheduled" => ~(Confidence(d, Clean(mail)) < THRESHOLD)
<1>1. PICK answer \in Answers \cup {NoAnswer} :
        /\ r.on \in FirstDay..today
        /\ Viable(Merged(answer, Clean(mail), r.on))
        /\ r = Reading(answer, Clean(mail), r.on)
  BY DEF IInv
<1>2. r.on \in Int BY <1>1, ExtractionAssumption
<1>3. Clean(mail).dates \in Seq(NamedDate) BY CleanText DEF IInv
<1> DEFINE d == Merged(answer, Clean(mail), r.on)
<1>4. d.date # NoDate BY <1>1 DEF Viable
<1>5. /\ r.company = d.company /\ r.stage = d.stage /\ r.date = d.date
      /\ r.time = d.time /\ r.venue = d.venue
      /\ r.answered = (answer # NoAnswer)
      /\ r.status = IF Confidence(d, Clean(mail)) < THRESHOLD THEN "review" ELSE "scheduled"
  BY <1>1 DEF Reading
<1> HIDE DEF d
<1>6. /\ ~r.answered => answer = NoAnswer
      /\ r.status = "scheduled" => ~(Confidence(d, Clean(mail)) < THRESHOLD)
  BY <1>5
<1> QED BY <1>2, <1>3, <1>4, <1>5, <1>6 DEF d

\* What the theorems below start from, and no result of its own: each event read is
\* what some answer made of this email, on a day that has come, past the gate.
LEMMA ReadingInvariant == Spec => []IInv
BY InvInit, InvStep, PTL DEF Spec

\* Whatever the model answers, an event is on a day the message itself names, or on
\* the one its "tomorrow" or "next week" meant when it was read.
THEOREM DatesAreTheTexts == Spec => []OnANamedDay
<1>1. IInv => OnANamedDay
  <2> SUFFICES ASSUME IInv, NEW r \in readings
               PROVE  LET text == IF mail.head = Blank THEN mail.quoted ELSE mail.head IN
                        \/ NamedIn(text, r)
                        \/ /\ text.dates = << >>
                           /\ \/ text.relative = "tomorrow"  /\ DayNumber(r.date) = r.on + 1
                              \/ text.relative = "next week" /\ DayNumber(r.date) = r.on + 7
    BY DEF OnANamedDay
  <2>1. PICK answer : LET d == Merged(answer, Clean(mail), r.on) IN
          /\ r.on \in Int /\ Clean(mail).dates \in Seq(NamedDate)
          /\ d.date # NoDate /\ r.date = d.date
    BY AReading
  <2>2. NamesDay(Clean(mail), r.on, DayNumber(r.date)) BY <2>1, DateIsNamed
  <2>3. Clean(mail) = IF mail.head = Blank THEN mail.quoted ELSE mail.head BY DEF Clean
  <2>4. ASSUME NEW e \in Range(Clean(mail).dates),
               DayNumber(r.date) = DayNumber([e EXCEPT !.year = YearNamed(e, r.on)])
        PROVE  NamedIn(Clean(mail), r)
    <3>1. e \in NamedDate BY <2>1 DEF Range
    <3>2. [e EXCEPT !.year = YearNamed(e, r.on)]
            = [e EXCEPT !.year = IF @ = NoYear THEN YearOf(r.on) ELSE @]
      BY <3>1 DEF YearNamed, NamedDate
    <3> QED BY <2>4, <3>2 DEF NamedIn
  <2> QED BY <2>2, <2>3, <2>4 DEF NamesDay
<1> QED BY <1>1, ReadingInvariant, PTL

\* Read twice, an email keeps the company its text names, and without an answer its
\* whole key if its date has a year.
THEOREM IdentityIsStable == Spec => []SameIdentity
<1>1. IInv => SameIdentity
  <2> SUFFICES ASSUME IInv, NEW q \in readings, NEW r \in readings
               PROVE  /\ Usable(Clean(mail).company) => q.company = r.company
                      /\ /\ ~q.answered /\ ~r.answered
                         /\ Clean(mail).dates # << >> /\ Head(Clean(mail).dates).year # NoYear
                         => Key(q) = Key(r)
    BY DEF SameIdentity
  <2>1. PICK a : LET d == Merged(a, Clean(mail), q.on) IN
          /\ q.company = d.company /\ q.stage = d.stage /\ q.date = d.date
          /\ ~q.answered => a = NoAnswer
    BY AReading
  <2>2. PICK b : LET d == Merged(b, Clean(mail), r.on) IN
          /\ r.company = d.company /\ r.stage = d.stage /\ r.date = d.date
          /\ ~r.answered => b = NoAnswer
    BY AReading
  <2>3. ASSUME Usable(Clean(mail).company) PROVE q.company = r.company
    BY <2>1, <2>2, <2>3, CompanyIsTheTexts
  <2>4. ASSUME ~q.answered, ~r.answered, Clean(mail).dates # << >>,
               Head(Clean(mail).dates).year # NoYear
        PROVE  Key(q) = Key(r)
    BY <2>1, <2>2, <2>4, PatternsAreSteady DEF Key
  <2> QED BY <2>3, <2>4
<1> QED BY <1>1, ReadingInvariant, PTL

\* No event is scheduled without review on neither a time nor a place, nor on "next
\* week" and no time.
THEOREM VagueIsReviewed == Spec => []TrustIsEarned
<1>1. IInv => TrustIsEarned
  <2> SUFFICES ASSUME IInv, NEW r \in readings, r.status = "scheduled"
               PROVE  /\ r.time # NoTime \/ r.venue \in {"named", "implied"}
                      /\ Clean(mail).relative = "next week" => r.time # NoTime
    BY DEF TrustIsEarned
  <2>1. PICK answer : LET d == Merged(answer, Clean(mail), r.on) IN
          /\ r.time = d.time /\ r.venue = d.venue
          /\ r.status = "scheduled" => ~(Confidence(d, Clean(mail)) < THRESHOLD)
    BY AReading
  <2>2. r.venue \in {"named", "withheld", "implied", "silent"} BY <2>1, VenueKinds
  <2>3. ~(r.time = NoTime /\ (r.venue \in {"withheld", "silent"}
                              \/ Clean(mail).relative = "next week"))
    BY <2>1, VagueIsUncertain
  <2> QED BY <2>2, <2>3
<1> QED BY <1>1, ReadingInvariant, PTL

\* An event turns from upcoming to past within its own day in India, and if its time
\* is no clock time, as that day ends.
THEOREM EventsPass == Spec => []PassesWithItsDay
<1>1. IInv => PassesWithItsDay
  <2> SUFFICES ASSUME IInv, NEW r \in readings
               PROVE  LET begins == HalfDay * DayNumber(r.date) - IST
                          ends == begins + HalfDay
                      IN /\ \A t \in (begins - HalfDay)..(begins - 1) : ~Expired(r, t)
                         /\ \A t \in ends..(ends + HalfDay) : Expired(r, t)
                         /\ ~IsClockTime(r.time) => \A t \in begins..(ends - 1) : ~Expired(r, t)
    BY DEF PassesWithItsDay
  <2>1. PICK n \in Int : DayNumber(r.date) = n
    <3>1. PICK answer : LET d == Merged(answer, Clean(mail), r.on) IN
            /\ r.on \in Int /\ Clean(mail).dates \in Seq(NamedDate)
            /\ d.date # NoDate /\ r.date = d.date
      BY AReading
    <3> QED BY <3>1, DateNumber
  <2>2. \A t \in Int :
          /\ t < HalfDay * n - IST => ~Expired(r, t)
          /\ t >= HalfDay * n - IST + HalfDay => Expired(r, t)
          /\ ~IsClockTime(r.time) /\ t < HalfDay * n - IST + HalfDay => ~Expired(r, t)
    BY <2>1, Passes
  <2>3. HalfDay * n - IST \in Int BY DEF HalfDay, IST
  <2> QED BY <2>1, <2>2, <2>3 DEF HalfDay, IST
<1> QED BY <1>1, ReadingInvariant, PTL
=============================================================================
