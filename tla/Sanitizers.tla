----------------------------- MODULE Sanitizers -----------------------------
(***************************************************************************)
(* What a column's sanitizers make of a value before it is stored, and     *)
(* what its validators accept.  Both are declared on the column and run in *)
(* the order of their declaration; the first error ends the operation.     *)
(*                                                                         *)
(* A character is one byte of an alphabet of a space, three signs, letters *)
(* in both cases and four digits.  Rounding of decimals, which are opaque  *)
(* bytes here, and the validators that match a regular expression or a     *)
(* list of codes are left out.                                             *)
(***************************************************************************)
EXTENDS Wire, FiniteSetsExt

Space == 1
Percent == 2
Hyphen == 3
Underscore == 4
Lower == 5..7
Upper == 8..10
Digits == 12..15
Alphanumeric == Lower \cup Upper \cup Digits

Ok(value) == [ok |-> TRUE, v |-> value]
Err == [ok |-> FALSE, v |-> Null]

(***************************************************************************)
(* Texts.  split_whitespace and join turn a run of spaces between two      *)
(* words into one separator and drop those at the ends.                    *)
(***************************************************************************)
trim(s) ==
    LET kept == {i \in DOMAIN s : s[i] # Space}
    IN  IF kept = {} THEN <<>> ELSE SubSeq(s, Min(kept), Max(kept))

JoinWords(s, separator) ==
    LET t == trim(s)
    IN  FlattenSeq([i \in DOMAIN t |-> IF t[i] # Space THEN <<t[i]>>
                                       ELSE IF t[i - 1] = Space THEN <<>> ELSE <<separator>>])

to_lowercase(s) == [i \in DOMAIN s |-> IF s[i] \in Upper THEN s[i] - 3 ELSE s[i]]
to_uppercase(s) == [i \in DOMAIN s |-> IF s[i] \in Lower THEN s[i] + 3 ELSE s[i]]
collapse_whitespace(s) == JoinWords(s, Space)
slug(s) == SelectSeq(JoinWords(to_lowercase(s), Hyphen), LAMBDA c : c \in Alphanumeric \cup {Hyphen})

\* Every other character, the percent sign too, becomes a percent sign and
\* the two digits of its byte.
url_encode(s) ==
    FlattenSeq([i \in DOMAIN s |-> IF s[i] \in Alphanumeric THEN <<s[i]>>
                                   ELSE <<Percent, Min(Digits) + s[i] \div 4, Min(Digits) + (s[i] % 4)>>])

TextSanitizers == {"Trim", "LowerCase", "UpperCase", "CollapseWhitespace", "Slug", "UrlEncoding"}
SanitizeText(kind, s) ==
    CASE kind = "Trim" -> trim(s)
      [] kind = "LowerCase" -> to_lowercase(s)
      [] kind = "UpperCase" -> to_uppercase(s)
      [] kind = "CollapseWhitespace" -> collapse_whitespace(s)
      [] kind = "Slug" -> slug(s)
      [] kind = "UrlEncoding" -> url_encode(s)

\* A sanitizer of texts leaves every other value alone, and an empty text is
\* nulled whatever the column.
NullIfEmpty(value) == IF value.type = "Text" /\ value.v = <<>> THEN Null ELSE value

(***************************************************************************)
(* Integers.  The bounds are of 64 bits; the result is clamped once more,  *)
(* to the range of the column's type, before it is narrowed.               *)
(***************************************************************************)
SignedTypes == {"Int8", "Int16", "Int32"}
UnsignedTypes == {"Uint8", "Uint16", "Uint32"}
TypeMax(type) == Byte^FixedSize(type) \div (IF type \in SignedTypes THEN 2 ELSE 1) - 1
TypeMin(type) == IF type \in SignedTypes THEN 0 - Byte^FixedSize(type) \div 2 ELSE 0

clamp(n, min, max) == IF n < min THEN min ELSE IF n > max THEN max ELSE n

ClampValue(value, min, max) ==
    Fixed(value.type, <<clamp(clamp(value.v[1], min, max), TypeMin(value.type), TypeMax(value.type))>>)

(***************************************************************************)
(* Time zones.  A date and time is moved to another offset by way of a     *)
(* count of days; years are counted from March, so that the leap day comes *)
(* last.  The shift is a whole number of minutes: seconds and microseconds *)
(* come through the code's division and remainder as they are.             *)
(***************************************************************************)
MAX_OFFSET_MINUTES == 24 * 60 - 1
MAX_YEAR == 65535

days_from_civil(year, month, day) ==
    LET y == IF month <= 2 THEN year - 1 ELSE year
        era == y \div 400
        year_of_era == y - era * 400
        day_of_year == (153 * ((month + 9) % 12) + 2) \div 5 + day - 1
    IN  era * 146097 + year_of_era * 365 + year_of_era \div 4 - year_of_era \div 100 + day_of_year - 719468

\* Mutant: the last day of a cycle of 400 years is not told from the others.
CivilWithoutCycleEnd(count) ==
    LET days == count + 719468
        era == days \div 146097
        day_of_era == days - era * 146097
        year_of_era == (day_of_era - day_of_era \div 1460 + day_of_era \div 36524) \div 365
        day_of_year == day_of_era - (365 * year_of_era + year_of_era \div 4 - year_of_era \div 100)
        month_from_march == (5 * day_of_year + 2) \div 153
        month == IF month_from_march < 10 THEN month_from_march + 3 ELSE month_from_march - 9
    IN  <<year_of_era + era * 400 + (IF month <= 2 THEN 1 ELSE 0), month,
          day_of_year - (153 * month_from_march + 2) \div 5 + 1>>

civil_from_days(count) ==
    LET days == count + 719468
        era == days \div 146097
        day_of_era == days - era * 146097
        year_of_era == (day_of_era - day_of_era \div 1460 + day_of_era \div 36524 - day_of_era \div 146096) \div 365
        day_of_year == day_of_era - (365 * year_of_era + year_of_era \div 4 - year_of_era \div 100)
        month_from_march == (5 * day_of_year + 2) \div 153
        month == IF month_from_march < 10 THEN month_from_march + 3 ELSE month_from_march - 9
    IN  <<year_of_era + era * 400 + (IF month <= 2 THEN 1 ELSE 0), month,
          day_of_year - (153 * month_from_march + 2) \div 5 + 1>>

\* The fields of a date and time: year, month, day, hour, minute, second,
\* microsecond, offset.
validate_calendar_fields(dt) ==
    /\ dt[2] \in 1..12 /\ dt[3] >= 1
    /\ civil_from_days(days_from_civil(dt[1], dt[2], dt[3])) = <<dt[1], dt[2], dt[3]>>
    /\ dt[4] < 24 /\ dt[5] < 60 /\ dt[6] < 60 /\ dt[7] < 1000000

validate_offset(minutes) == minutes \in -MAX_OFFSET_MINUTES..MAX_OFFSET_MINUTES

to_timezone(dt, offset) ==
    LET minutes == dt[4] * 60 + dt[5] + offset - dt[8]
        of_day == minutes % (24 * 60)
        date == civil_from_days(days_from_civil(dt[1], dt[2], dt[3]) + minutes \div (24 * 60))
    IN  IF validate_calendar_fields(dt) /\ validate_offset(offset) /\ validate_offset(dt[8]) /\ date[1] \in 0..MAX_YEAR
        THEN Ok(Fixed("DateTime", date \o <<of_day \div 60, of_day % 60, dt[6], dt[7], offset>>))
        ELSE Err

(***************************************************************************)
(* A sanitizer is its kind with its arguments.                             *)
(***************************************************************************)
sanitize(sanitizer, value) ==
    CASE sanitizer.kind \in TextSanitizers ->
           Ok(IF value.type = "Text" THEN Dynamic("Text", SanitizeText(sanitizer.kind, value.v)) ELSE value)
      [] sanitizer.kind = "NullIfEmpty" -> Ok(NullIfEmpty(value))
      [] sanitizer.kind = "Clamp" ->
           Ok(IF value.type \in SignedTypes THEN ClampValue(value, sanitizer.min, sanitizer.max) ELSE value)
      [] sanitizer.kind = "ClampUnsigned" ->
           Ok(IF value.type \in UnsignedTypes THEN ClampValue(value, sanitizer.min, sanitizer.max) ELSE value)
      [] sanitizer.kind = "Timezone" ->
           IF value.type = "DateTime" THEN to_timezone(value.v, sanitizer.offset) ELSE Ok(value)

\* Mutant: the last sanitizer of a chain comes first.
ChainBackwards(sanitizers, value) ==
    FoldRight(LAMBDA s, done : IF done.ok THEN sanitize(s, done.v) ELSE done, sanitizers, Ok(value))

SanitizerChain(sanitizers, value) ==
    FoldLeft(LAMBDA done, s : IF done.ok THEN sanitize(s, done.v) ELSE done, Ok(value), sanitizers)

(***************************************************************************)
(* Validators.  Each accepts texts only, so that a null is never valid.    *)
(***************************************************************************)
Strlen(validator, s) == Len(s) >= validator.min /\ Len(s) <= validator.max

All(s, characters) == \A i \in DOMAIN s : s[i] \in characters
snake_case(s) == s # <<>> /\ s[1] \in Lower \cup {Underscore} /\ All(s, Lower \cup Digits \cup {Underscore})
kebab_case(s) == s # <<>> /\ s[1] \in Lower /\ All(s, Lower \cup Digits \cup {Hyphen})
camel_case(s) == s # <<>> /\ s[1] \in Upper /\ All(s, Alphanumeric)

validate(validator, value) ==
    /\ value.type = "Text"
    /\ CASE validator.kind = "Strlen" -> Strlen(validator, value.v)
         [] validator.kind = "SnakeCase" -> snake_case(value.v)
         [] validator.kind = "KebabCase" -> kebab_case(value.v)
         [] validator.kind = "CamelCase" -> camel_case(value.v)

ValidatorChain(validators, value) == \A i \in DOMAIN validators : validate(validators[i], value)
=============================================================================
