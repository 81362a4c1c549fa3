----------------------------- MODULE Extraction -----------------------------
(* What an email is taken to say, and what becomes of it.  The text left of    *)
(* the quoted thread is read by patterns and, when the model answers, by a     *)
(* language model whose answer nothing constrains; the two are merged, scored  *)
(* and let through a gate.  An email may be read again, on a later day and     *)
(* with another answer, and each reading may make an event of it.              *)
(* A text is the record of what the patterns find in it, times are whole hours *)
(* and the calendar has months of one length.                                  *)
EXTENDS Integers, FiniteSets, SequencesExt

CONSTANTS
  Mails,       \* the emails: [head, quoted], each a Text or Blank
  Answers,     \* what the model may answer
  Canon,       \* Canon[c]: a company's name without case, spare blanks and a last dot
  Noise,       \* words that are never a company
  Short,       \* names of two letters
  MonthDays, YearMonths,
  FirstDay, LastDay,  \* bound: the days on which the email is read
  MaxReadings  \* bound: readings of the email

NoYear == 0
NoDate == [year |-> 0, month |-> 0, day |-> 0]
NoTime == -1   \* above 23: a text that is no clock time
UNRESOLVED_COMPANY == "unknown"
CANONICAL_STAGES == {"OA", "Interview", "PPT", "Registration"}
THRESHOLD == 600   \* confidences are in thousandths

Blank == [company |-> "none"]
NoAnswer == [company |-> "none"]

\* A date as a text names it, with a year or NoYear.
NamedDate == [day : Nat, month : Nat, year : Nat]

ASSUME ExtractionAssumption ==
  /\ MonthDays \in Nat \ {0} /\ YearMonths \in Nat \ {0}
  /\ FirstDay \in Nat /\ LastDay \in Nat /\ FirstDay <= LastDay /\ MaxReadings \in Nat
  /\ UNRESOLVED_COMPANY \in Noise
  /\ \A c \in DOMAIN Canon : Canon[c] \in DOMAIN Canon /\ Canon[Canon[c]] = Canon[c]
  /\ \A m \in Mails : /\ m.head # Blank \/ m.quoted # Blank
                      /\ \A text \in {m.head, m.quoted} \ {Blank} : text.dates \in Seq(NamedDate)

VARIABLES
  mail,      \* the email, never changed
  today,     \* the day, in UTC, since day 0
  readings   \* the readings that passed the gate

vars == <<mail, today, readings>>
-----------------------------------------------------------------------------
(* The calendar.                                                              *)

\* Date.UTC: a day past the end of its month runs into the next.
DayNumber(d) == (d.year * YearMonths + d.month - 1) * MonthDays + d.day - 1

OnDay(n) == LET m == n \div MonthDays IN
  [year |-> m \div YearMonths, month |-> (m % YearMonths) + 1, day |-> (n % MonthDays) + 1]

YearOf(n) == OnDay(n).year
-----------------------------------------------------------------------------
(* The patterns.                                                              *)

\* cleanEmail: the message without the thread below it, unless nothing is left.
Clean(m) == IF m.head = Blank THEN m.quoted ELSE m.head

\* isValidCompany.
Usable(company) == company \notin Noise

PatternCompany(text) == IF Usable(text.company) THEN text.company ELSE UNRESOLVED_COMPANY

PatternStage(text) ==
  CASE "interview" \in text.words -> "Interview"
    [] "interview" \notin text.words /\ "test" \in text.words -> "OA"
    [] text.words \cap {"interview", "test"} = {} /\ "ppt" \in text.words -> "PPT"
    [] text.words = {"register"} -> "Registration"
    [] OTHER -> "unknown"

\* A missing year is the present one.
YearNamed(e, day) == IF e.year = NoYear THEN YearOf(day) ELSE e.year

\* The first date the text names.
PatternDate(text, day) ==
  CASE text.dates # << >> ->
         LET e == Head(text.dates) IN
         OnDay(DayNumber([e EXCEPT !.year = YearNamed(e, day)]))
    [] text.dates = << >> /\ text.relative = "tomorrow"  -> OnDay(day + 1)
    [] text.dates = << >> /\ text.relative = "next week" -> OnDay(day + 7)
    [] OTHER -> NoDate

\* "13 pm" is read as 25:00; a word alone stands for an hour.
PatternTime(text) ==
  LET c == text.clock IN
  CASE c = "none" -> NoTime
    [] c = "10 am" -> 10
    [] c = "12 am" -> 0
    [] c = "13 pm" -> 25
    [] c = "around 11 pm" -> 23
    [] c = "evening" -> 18

\* An explicit statement comes first, then a platform's name, then "at ...", which
\* says nothing if a company follows it, then a known room.
PatternVenue(text) ==
  CASE "stated" \in text.venue -> "named"
    [] "stated" \notin text.venue /\ "stated tba" \in text.venue -> "withheld"
    [] text.venue \cap {"stated", "stated tba"} = {} /\ "platform" \in text.venue -> "named"
    [] text.venue \in {{"at place"}, {"at place", "location"}, {"location"}} -> "implied"
    [] OTHER -> "silent"
-----------------------------------------------------------------------------
(* The model's answer, and the merge.                                         *)

\* Mutant of ValidateAIDate: the day's own month need not be the date's.
ValidateAIDateLoosely(date, text, day) ==
  IF \E e \in Range(text.dates) : e.day = date.day THEN date ELSE NoDate

\* An answered date is kept if the text names its day and month, and its year or
\* none while the year is the present one.
ValidateAIDate(date, text, day) ==
  IF \E e \in Range(text.dates) :
       /\ e.day = date.day /\ e.month = date.month
       /\ date.year = YearNamed(e, day)
  THEN date ELSE NoDate

\* Mutant of MergedCompany: the model's name first.
MergedCompanyOfModel(answer, text) ==
  Canon[CASE Usable(answer.company) -> answer.company
          [] OTHER -> PatternCompany(text)]

\* The patterns' company, if they found one: only theirs is the same every time.
MergedCompany(answer, text) ==
  LET found == PatternCompany(text) IN
  Canon[CASE Usable(found) -> found
          [] ~Usable(found) /\ Usable(answer.company) -> answer.company
          [] OTHER -> found]

MergedStage(answer, text) ==
  IF answer.stage \in CANONICAL_STAGES THEN answer.stage ELSE PatternStage(text)

MergedDate(answer, text, day) ==
  LET valid == ValidateAIDate(answer.date, text, day) IN
  IF valid # NoDate THEN valid ELSE PatternDate(text, day)

MergedTime(answer, text) ==
  IF answer.time # NoTime THEN answer.time ELSE PatternTime(text)

MergedVenue(answer, text) == IF answer.venue = "none" THEN PatternVenue(text) ELSE "named"
-----------------------------------------------------------------------------
(* Confidence, in thousandths: computeConfidence and the penalties of extract. *)

\* Any other name scores, be it one that no gate lets through.
CompanyScore(company) ==
  CASE company \in {UNRESOLVED_COMPANY, "none"} -> 0
    [] company \in Short -> 175
    [] OTHER -> 250

DateScore(date, text) ==
  CASE date = NoDate -> 0
    [] date # NoDate /\ text.relative = "next week" -> 175
    [] date # NoDate /\ text.relative \in {"tomorrow", "today"} -> 280
    [] OTHER -> 350

TimeScore(time, text) ==
  CASE time = NoTime -> 0
    [] time # NoTime /\ text.clock = "evening" -> 96
    [] time # NoTime /\ text.clock = "around 11 pm" -> 120
    [] OTHER -> 200

VenueScore(venue) == CASE venue = "named" -> 90
                       [] venue = "withheld" -> 30
                       [] OTHER -> 50

\* Mutant of Penalty: what is missing is scored low and not deducted.
PenaltyForCompany(d) == IF d.company = UNRESOLVED_COMPANY THEN 100 ELSE 0

Penalty(d) == (IF d.company = UNRESOLVED_COMPANY THEN 100 ELSE 0)
            + (IF d.venue \in {"withheld", "silent"} THEN 150 ELSE 0)
            + (IF d.time = NoTime THEN 100 ELSE 0)

\* A round always scores: "unknown" counts as one.
Confidence(d, text) ==
  LET total == CompanyScore(d.company) + DateScore(d.date, text) + TimeScore(d.time, text)
               + 100 + VenueScore(d.venue) + (IF d.date = NoDate THEN 0 ELSE 50)
      capped == IF total > 1000 THEN 1000 ELSE total
  IN IF capped < Penalty(d) THEN 0 ELSE capped - Penalty(d)
-----------------------------------------------------------------------------
(* Whether an event still lies ahead, in half hours since day 0.              *)

HalfDay == 48
IST == 11   \* India is five and a half hours ahead of UTC

ISTDay(t) == (t + IST) \div HalfDay

\* The date column holds midnight UTC of the day.
StoredDate(r) == HalfDay * DayNumber(r.date)

IsClockTime(time) == time \in 0..23

\* Mutant of Occurrence: the clock is taken for UTC.
OccurrenceInUTC(r) == StoredDate(r) + 2 * r.time

Occurrence(r) == HalfDay * ISTDay(StoredDate(r)) + 2 * r.time - IST

\* An event's own mark of an estimated time is never written: createEvent and
\* updateEventService leave it out, so every clock time counts as stated.
Expired(r, now) ==
  IF IsClockTime(r.time) THEN now >= Occurrence(r)
  ELSE ISTDay(StoredDate(r)) < ISTDay(now)
-----------------------------------------------------------------------------
Merged(answer, text, day) ==
  IF answer = NoAnswer
  THEN [company |-> Canon[PatternCompany(text)], stage |-> PatternStage(text),
        date |-> PatternDate(text, day), time |-> PatternTime(text),
        venue |-> PatternVenue(text)]
  ELSE [company |-> MergedCompany(answer, text), stage |-> MergedStage(answer, text),
        date |-> MergedDate(answer, text, day), time |-> MergedTime(answer, text),
        venue |-> MergedVenue(answer, text)]

\* The viability gate.
Viable(d) == Usable(d.company) /\ d.date # NoDate

\* What a reading on that day makes of the text: below the threshold, an event to
\* review.
Reading(answer, text, day) ==
  LET d == Merged(answer, text, day) IN
  [company |-> d.company, stage |-> d.stage, date |-> d.date, time |-> d.time,
   venue |-> d.venue, on |-> day, answered |-> answer # NoAnswer,
   status |-> IF Confidence(d, text) < THRESHOLD THEN "review" ELSE "scheduled"]

\* processEmail, as far as the decision: an observation without company or date is
\* dropped.
Read(answer) ==
  /\ Cardinality(readings) < MaxReadings
  /\ Viable(Merged(answer, Clean(mail), today))
  /\ readings' = readings \cup {Reading(answer, Clean(mail), today)}
  /\ UNCHANGED <<mail, today>>

\* The email waits, or is queued again, while the days go by.
NextDay ==
  /\ today < LastDay
  /\ today' = today + 1
  /\ UNCHANGED <<mail, readings>>

Init ==
  /\ mail \in Mails
  /\ today = FirstDay
  /\ readings = {}

Next == NextDay \/ \E answer \in Answers \cup {NoAnswer} : Read(answer)

Spec == Init /\ [][Next]_vars
-----------------------------------------------------------------------------
(* Properties.  A key is company, round and date.                             *)

Key(r) == <<r.company, r.stage, r.date>>

NamedIn(text, r) ==
  \E e \in Range(text.dates) :
    DayNumber(r.date) = DayNumber([e EXCEPT !.year = IF @ = NoYear THEN YearOf(r.on) ELSE @])

\* Whatever the model answers, an event is on a day that the message itself names
\* (not the thread under it), or, when it names none, the day that "tomorrow" or
\* "next week" meant as it was read.
OnANamedDay ==
  \A r \in readings :
    LET text == IF mail.head = Blank THEN mail.quoted ELSE mail.head IN
    \/ NamedIn(text, r)
    \/ /\ text.dates = << >>
       /\ \/ text.relative = "tomorrow"  /\ DayNumber(r.date) = r.on + 1
          \/ text.relative = "next week" /\ DayNumber(r.date) = r.on + 7

\* An email read twice keeps one company if the text names one, whatever the model
\* calls it; and one key, if the model was not asked and the date has its year.
SameIdentity ==
  \A q, r \in readings :
    LET text == Clean(mail) IN
    /\ Usable(text.company) => q.company = r.company
    /\ /\ ~q.answered /\ ~r.answered
       /\ text.dates # << >> /\ Head(text.dates).year # NoYear
       => Key(q) = Key(r)

\* No event is scheduled without review on neither a time nor a place, nor on "next
\* week" and no time.
TrustIsEarned ==
  \A r \in readings :
    r.status = "scheduled" =>
      /\ r.time # NoTime \/ r.venue \in {"named", "implied"}
      /\ Clean(mail).relative = "next week" => r.time # NoTime

\* An event turns from upcoming to past within its own day in India, and if its
\* time is no clock time, as that day ends.
PassesWithItsDay ==
  \A r \in readings :
    LET begins == HalfDay * DayNumber(r.date) - IST
        ends == begins + HalfDay
    IN /\ \A t \in (begins - HalfDay)..(begins - 1) : ~Expired(r, t)
       /\ \A t \in ends..(ends + HalfDay) : Expired(r, t)
       /\ ~IsClockTime(r.time) => \A t \in begins..(ends - 1) : ~Expired(r, t)

\* The invariant of the proofs: whatever has been read is what one answer made of
\* this email on one of its days.
IInv ==
  /\ mail \in Mails
  /\ today \in FirstDay..LastDay
  /\ \A r \in readings : \E answer \in Answers \cup {NoAnswer} :
       /\ r.on \in FirstDay..today
       /\ Viable(Merged(answer, Clean(mail), r.on))
       /\ r = Reading(answer, Clean(mail), r.on)
=============================================================================
