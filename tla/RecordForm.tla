----------------------------- MODULE RecordForm -----------------------------
(***************************************************************************)
(* The forms of the administrative screens against the validators of the   *)
(* API: which fields each has, how a record is mapped to the form and the  *)
(* form to a body, what the form lets through and what the API refuses.    *)
(* They were written apart, in two languages and for nine resources.       *)
(*                                                                         *)
(* A value is NoText where nothing is entered, None for null, otherwise    *)
(* one of a few that stand for all others of their kind: "x" is as the API *)
(* keeps it, "padded" has blanks around it, "mixed" is in another case,    *)
(* "fine" has fractions of a cent; "spaces" is nothing but blanks, "long"  *)
(* and "short" are of such a length, "malformed" is not an email or a slug,*)
(* "far" is in a year of more than four digits.  "x+" of a record is more  *)
(* than its form holds: several scopes, a time of day.                     *)
(***************************************************************************)
EXTENDS Screen

\* The empty text of a control.
NoText == "blank"

CONSTANT DayBefore \* the day it is in the browser when a day begins in UTC

VARIABLES
    resource,  \* whose form it is
    record,    \* server: the record
    values,    \* the controls, and whether they create or edit, or are closed
    submitted, \* the save under way: its mode and the values it was made from
    saved      \* history: that of the last one carried out

recordFormVars == <<screenVars, company, resource, record, values, submitted, saved>>

Editor == UserOn("form") /\ UNCHANGED <<company, resource>>

-----------------------------------------------------------------------------
(* The fields of each screen.                                               *)

Field(takes, required, first) == [takes |-> takes, required |-> required, first |-> first]
\* A line of text that is required, with what more its schema looks at; one that is not.
Text(more) == Field({NoText, "x", "padded", "spaces", "long"} \cup more, TRUE, NoText)
Prose == Field({NoText, "x", "padded", "long"}, FALSE, NoText)
Amount(more) == Field({NoText, "x", "fine", "negative"} \cup more, TRUE, NoText)
Day(required) == Field({NoText, "early", "late", "far"}, required, NoText)
Choice(required) == Field({NoText, "x"}, required, NoText)
\* The blank option of a select, which is refused, is left out.
OneOf(choices, first) == Field(choices, TRUE, first)
Status == OneOf({"active", "inactive"}, "active")

DiscountFields ==
    [name |-> Text({}), type |-> OneOf({"percentage", "fixed"}, "percentage"),
     value |-> Amount({"above100"}),
     appliesTo |-> OneOf({"product", "price_list", "marketplace"}, "product"),
     productId |-> Choice(FALSE), priceListId |-> Choice(FALSE), marketplaceId |-> Choice(FALSE),
     startDate |-> Day(TRUE), endDate |-> Day(FALSE),
     priority |-> Field({NoText, "x", "100", "fraction", "negative"}, FALSE, "100"),
     status |-> Status, description |-> Prose]

PriceFields ==
    [productId |-> Choice(TRUE), priceListId |-> Field({NoText, "x", "y"}, TRUE, NoText),
     marketplaceId |-> Choice(TRUE), basePrice |-> Amount({}), currencyCode |-> Choice(TRUE),
     startDate |-> Day(TRUE), endDate |-> Day(FALSE), status |-> Status, notes |-> Prose]

\* Of two fields of one key, the password of a creation and that of an edit,
\* the later one is the control.
UserFields ==
    [name |-> Text({}), email |-> Text({"mixed", "malformed"}),
     password |-> Field({NoText, "x", "short", "long"}, FALSE, NoText), roleId |-> Choice(TRUE),
     status |-> Status, preferredLocale |-> OneOf({"es", "en"}, "es")]

PriceListFields ==
    [name |-> Text({}), description |-> Prose, currencyCode |-> Choice(FALSE), status |-> Status]

ProductFields ==
    [sku |-> Text({}), name |-> Text({}), basePrice |-> Amount({}), currencyCode |-> Choice(TRUE),
     status |-> Status, description |-> Prose]

MarketplaceFields == [name |-> Text({}), code |-> Choice(TRUE), status |-> Status]

CompanyFields ==
    [commercialName |-> Text({}), legalName |-> Text({}), slug |-> Text({"malformed"}),
     defaultCurrency |-> Choice(TRUE), timeZone |-> OneOf({"utc", "other"}, "utc"),
     status |-> Status, notes |-> Prose]

RoleFields ==
    [name |-> Text({}), slug |-> Text({"malformed"}), description |-> Prose, status |-> Status]

ApiKeyFields ==
    [name |-> Text({}), scope |-> OneOf({"x", "y"}, "x"),
     expiresAt |-> Field({NoText, "early", "late"}, FALSE, NoText)]

Fields ==
    [discounts |-> DiscountFields, prices |-> PriceFields, users |-> UserFields,
     priceLists |-> PriceListFields, products |-> ProductFields, marketplaces |-> MarketplaceFields,
     companies |-> CompanyFields, roles |-> RoleFields, apiKeys |-> ApiKeyFields]

ASSUME RecordFormAssumption ==
    /\ DOMAIN DayBefore = {NoText, "eve", "early", "late"}
    /\ \A p \in DOMAIN Fields : \A k \in DOMAIN Fields[p] : None \notin Fields[p][k].takes

References == {"productId", "priceListId", "marketplaceId"}
ReferenceOf == [product |-> "productId", price_list |-> "priceListId", marketplace |-> "marketplaceId"]

\* What is on screen and may be changed.
Editable(p, mode, v) ==
    {k \in DOMAIN Fields[p] :
        /\ p = "discounts" /\ k \in References => k = ReferenceOf[v.appliesTo]
        /\ ~(p = "prices" /\ k = "productId" /\ mode = "edit")}

-----------------------------------------------------------------------------
(* From a record to the form, and from the form to a body.                  *)

Entered(x) == IF x = None THEN NoText ELSE IF x = "x+" THEN "x" ELSE x

\* toDateInputValue is of the browser's zone, toDateOnlyInputValue of none.
ToForm(p, r) ==
    [k \in DOMAIN Fields[p] |->
        CASE p = "users" /\ k = "password" -> NoText
          [] p = "apiKeys" /\ k = "expiresAt" -> DayBefore[Entered(r[k])]
          [] OTHER -> Entered(r[k])]

OrNull(x) == IF x = NoText THEN None ELSE x

\* mapToPayload, of the three screens that bind one.
Mapped(p, v) ==
    [k \in DOMAIN v |->
        CASE p = "discounts" /\ k \in References ->
                IF k = ReferenceOf[v.appliesTo] THEN OrNull(v[k]) ELSE None
          [] p = "discounts" /\ k \in {"startDate", "endDate", "description"} -> OrNull(v[k])
          [] p = "discounts" /\ k = "priority" /\ v[k] = NoText -> "100"
          [] p = "prices" /\ k = "endDate" -> OrNull(v[k])
          [] p = "apiKeys" /\ k = "expiresAt" -> OrNull(v[k])
          [] OTHER -> v[k]]

Only(f, keys) == [k \in keys |-> f[k]]

\* The references of a price are not sent again.
Sent(p, mode) == DOMAIN Fields[p] \ IF p = "prices" /\ mode = "edit" THEN References ELSE {}

Payload(p, mode, v) == Only(Mapped(p, v), Sent(p, mode))

-----------------------------------------------------------------------------
(* What the form refuses, by field.                                         *)

Backwards(v) == v.startDate = "late" /\ v.endDate = "early"

\* Mutation: the limit of a percentage is left to the API.
CrossErrors_Unlimited(v) ==
    {k \in {"name"} : v[k] = "spaces"}
    \cup {k \in References : k = ReferenceOf[v.appliesTo] <=> v[k] = NoText}
    \cup IF Backwards(v) THEN {"endDate"} ELSE {}

\* discountFormSchema, which looks at the controls and not at the body.
CrossErrors(v) ==
    {k \in {"name"} : v[k] = "spaces"}
    \cup {k \in References : k = ReferenceOf[v.appliesTo] <=> v[k] = NoText}
    \cup (IF v.type = "percentage" /\ v.value = "above100" THEN {"value"} ELSE {})
    \cup IF Backwards(v) THEN {"endDate"} ELSE {}

\* The validators of the controls: required, and the least of a number.
FormErrors(p, v) ==
    {k \in DOMAIN v : (Fields[p][k].required /\ v[k] = NoText) \/ v[k] = "negative"}
    \cup IF p = "discounts" THEN CrossErrors(v) ELSE {}

-----------------------------------------------------------------------------
(* What the validators of the API refuse of a body.                         *)

\* optionalText; a number that is empty is read as zero.
TakesEmpty == {"description", "notes", "basePrice", "value", "priority"}

TakesNull(p) ==
    TakesEmpty \cup CASE p = "discounts" -> References \cup {"endDate"}
                      [] p = "prices" -> {"endDate"}
                      [] p = "priceLists" -> {"currencyCode"}
                      [] p = "apiKeys" -> {"expiresAt"}
                      [] OTHER -> {}

\* The texts that are trimmed first.
Trimmed == {"name", "email", "slug", "sku", "commercialName", "legalName"}

\* What the schema of a field refuses by itself.
Misfits(k) ==
    (IF k \in Trimmed THEN {"spaces", "long"} ELSE {})
    \cup CASE k \in {"email", "slug"} -> {"malformed"}
           [] k \in {"description", "notes"} -> {"long"}
           [] k = "password" -> {"short", "long"}
           [] k \in {"basePrice", "value"} -> {"negative"}
           [] k = "priority" -> {"fraction", "negative"}
           [] k \in {"startDate", "endDate"} -> {"far"}
           [] OTHER -> {}

\* A strict schema knows no other fields.
Known(p, mode) == DOMAIN Fields[p] \ IF p = "prices" /\ mode = "edit" THEN References ELSE {}

\* superRefine of the discount schemas.
ScopeErrors(body) ==
    {k \in References : k = ReferenceOf[body.appliesTo] <=> body[k] = None}
    \cup IF body.type = "percentage" /\ body.value = "above100" THEN {"value"} ELSE {}

Refused(p, mode, body) ==
    {k \in DOMAIN body : \/ k \notin Known(p, mode)
                         \/ body[k] \in Misfits(k)
                         \/ body[k] = NoText /\ k \notin TakesEmpty
                         \/ body[k] = None /\ k \notin TakesNull(p)}
    \cup (IF p = "discounts" THEN ScopeErrors(body) ELSE {})
    \cup IF p \in {"discounts", "prices"} /\ Backwards(body) THEN {"endDate"} ELSE {}

-----------------------------------------------------------------------------
NoForm == [mode |-> "closed"]

\* What there is of a field that a record has.
Held(p, k, full) ==
    LET f == Fields[p][k] IN
    IF k = "startDate" THEN "early" ELSE IF k \in {"endDate", "expiresAt"} THEN "late"
    ELSE IF p = "apiKeys" /\ k = "scope" /\ full THEN "x+"
    ELSE IF f.required /\ f.first # NoText THEN f.first ELSE "x"

\* A record that has all there is to have, or only what it must have.
Records(p) ==
    {[k \in DOMAIN Fields[p] |->
        IF p = "discounts" /\ k \in References
        THEN IF k = "productId" THEN "x" ELSE None
        ELSE IF full \/ Fields[p][k].required \/ (p = "users" /\ k = "password")
        THEN Held(p, k, full) ELSE None] : full \in BOOLEAN}

RecordFormInit ==
    /\ resource \in DOMAIN Fields
    /\ record \in Records(resource)
    /\ values = NoForm /\ submitted = NoForm /\ saved = NoForm

\* buildForm with the defaults, or with the row.
OpenNew ==
    /\ Editor
    /\ values' = [mode |-> "create",
                  of |-> [k \in DOMAIN Fields[resource] |-> Fields[resource][k].first]]
    /\ UNCHANGED <<record, submitted, saved>>

OpenRecord ==
    /\ Editor
    /\ values' = [mode |-> "edit", of |-> ToForm(resource, record)]
    /\ UNCHANGED <<record, submitted, saved>>

EnterField(k, x) ==
    /\ Editor /\ values.mode # "closed"
    /\ k \in Editable(resource, values.mode, values.of)
    /\ x # values.of[k] /\ values' = [values EXCEPT !.of[k] = x]
    /\ UNCHANGED <<record, submitted, saved>>

\* A form that is refused stays as it is.
SubmitForm ==
    /\ Editor /\ values.mode # "closed" /\ submitted = NoForm
    /\ FormErrors(resource, values.of) = {}
    /\ submitted' = values
    /\ UNCHANGED <<record, values, saved>>

\* What the validators make of a value, and what the service and the column keep of
\* it: emails are lowercased, amounts have two decimals.
Parsed(k, x) == IF k \in Trimmed /\ x = "padded" THEN "x" ELSE x

Kept(k, x) ==
    IF (k = "email" /\ x = "mixed") \/ (k \in {"basePrice", "value"} /\ x = "fine") THEN "x" ELSE x

\* Mutation: a null of the body leaves what there is.
Merged_Coalesced(body) ==
    [k \in DOMAIN record |->
        IF k \in DOMAIN body /\ body[k] # None THEN Kept(k, Parsed(k, body[k])) ELSE record[k]]

Merged(body) ==
    [k \in DOMAIN record |->
        IF k \in DOMAIN body THEN Kept(k, Parsed(k, body[k])) ELSE record[k]]

\* Carried out, and the form closed; or refused, for what the validators see or for
\* whatever else, and the form left as it is by now.
SaveReturns ==
    LET body == Payload(resource, submitted.mode, submitted.of) IN
    /\ LandsOn("form") /\ submitted # NoForm /\ submitted' = NoForm
    /\ \/ /\ Refused(resource, submitted.mode, body) = {}
          /\ record' = Merged(body)
          /\ values' = NoForm /\ saved' = submitted
       \/ UNCHANGED <<record, values, saved>>
    /\ UNCHANGED <<company, resource>>

-----------------------------------------------------------------------------
RecordFormNext ==
    \/ OpenNew \/ OpenRecord \/ SubmitForm \/ SaveReturns
    \/ \E k \in DOMAIN Fields[resource] : \E x \in Fields[resource][k].takes : EnterField(k, x)

RecordFormSpec == RecordFormInit /\ [][RecordFormNext]_recordFormVars

-----------------------------------------------------------------------------
(* Properties.                                                               *)

\* As written but for blanks around a name, the case of an email and fractions of
\* a cent; a description and notes are kept to the letter.
Tidy(k, x) ==
    IF x \in {"padded", "mixed", "fine"} /\ k \notin {"description", "notes"} THEN "x" ELSE x

\* Whatever is entered and cleared, and in whichever order, a save that is carried
\* out leaves a record that the form shows again as it was sent, but for what is
\* tidied, and a field that was cleared is empty, unless it is a priority, which
\* has a default.  Not so a password, the list and marketplace of a price that is
\* edited, and the day on which a key expires.
SavedAsShown ==
    saved # NoForm =>
        \A k \in Editable(resource, saved.mode, saved.of) :
            \/ k = "priority" /\ saved.of[k] = NoText
            \/ <<resource, k>> \in {<<"users", "password">>, <<"prices", "priceListId">>,
                                    <<"prices", "marketplaceId">>, <<"apiKeys", "expiresAt">>}
            \/ ToForm(resource, record)[k] = Tidy(k, saved.of[k])

\* What no form looks at: that a text is nothing but blanks (except the name of a
\* discount), too long, too short or not of its format, a priority not an integer
\* and a year not of four digits.
LeftToTheApi(p, x) ==
    x \in {"spaces", "long", "short", "malformed", "fraction", "far"}
          \ IF p = "discounts" THEN {"spaces"} ELSE {}

\* The rules on the signs of numbers, the limit of a percentage, the references of
\* a discount, its dates, and on what must be there are kept by the forms as by
\* the API: what a form lets through, the validators refuse for nothing but what no
\* form looks at, a password left empty, the currency a price list need not
\* have, and the dates of a price.
FormsMirrorTheApi ==
    values # NoForm /\ FormErrors(resource, values.of) = {} =>
        \A k \in Refused(resource, values.mode, Payload(resource, values.mode, values.of)) :
            \/ LeftToTheApi(resource, values.of[k])
            \/ <<resource, k>> \in {<<"users", "password">>, <<"priceLists", "currencyCode">>,
                                    <<"prices", "endDate">>}
=============================================================================
