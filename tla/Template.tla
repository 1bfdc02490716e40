------------------------------ MODULE Template ------------------------------
(***************************************************************************)
(* Message templates: the domain.Template methods (NewTemplate,           *)
(* ExtractVariables, Validate, Render), TemplateService's Create, Update, *)
(* Delete and Render, the TemplateRepository statements they issue and    *)
(* the replies TemplateHandler writes through JSON and HandleError.       *)
(*                                                                         *)
(* Each request is served once by its own handler goroutine; every        *)
(* repository call is one atomic step, and the steps of different         *)
(* requests interleave.  The templates table has a unique name column.    *)
(*                                                                         *)
(* Strings that the properties are about (content, variable names and     *)
(* values) are sequences of one-character strings, so that the regular    *)
(* expression and strings.ReplaceAll are modelled by what they do.  Ids   *)
(* are the creating requests; timestamps are left out.                     *)
(***************************************************************************)
EXTENDS Naturals, Sequences, SequencesExt

CONSTANTS
  Requests,   \* concurrent HTTP requests, each served once
  Op,         \* Op[r]: [kind, id, name, channel, content, vars] of request r
  Names,      \* template names the requests use
  WordChars,  \* the characters of the contents that \w matches
  Unset       \* a nil field of an UpdateTemplateRequest

ASSUME \A r \in Requests : Op[r].kind \in {"create", "update", "delete", "render"}

VARIABLES
  tbl,     \* the templates table: a set of rows
  pc,      \* per request: "start", "insert", "namecheck", "write", "done"
  copy,    \* per update request: the *domain.Template it read and changes
  reply    \* per request: HTTP status, template returned, rendered text

vars == <<tbl, pc, copy, reply>>

Str == Seq(STRING)

Tmpl == [id : Requests, name : Names, channel : STRING, content : Str,
         variables : Seq(Str)]

NoTmpl == [id |-> "none", name |-> "none", channel |-> "none", content |-> <<>>,
           variables |-> <<>>]

NoReply == [code |-> 0, tmpl |-> NoTmpl, text |-> <<>>]

TypeOK ==
  /\ tbl \subseteq Tmpl
  /\ pc \in [Requests -> {"start", "insert", "namecheck", "write", "done"}]
  /\ copy \in [Requests -> Tmpl \cup {NoTmpl}]
  /\ \A r \in Requests : reply[r].code \in {0, 200, 201, 400, 404, 409}
                         /\ reply[r].text \in Str

-----------------------------------------------------------------------------
(* "{{" + key + "}}"                                                        *)
Ph(k) == <<"{", "{">> \o k \o <<"}", "}">>

(* The length of the run of \w characters that starts s.                  *)
RECURSIVE WordLen(_)
WordLen(s) == IF s # <<>> /\ Head(s) \in WordChars THEN 1 + WordLen(Tail(s)) ELSE 0

(* The length of the name when \{\{(\w+)\}\} matches at the start of s,   *)
(* else 0; \w+ is greedy and cannot match a brace, so no backtracking.    *)
MatchLen(s) ==
  IF Len(s) >= 5 /\ s[1] = "{" /\ s[2] = "{"
    THEN LET k == WordLen(SubSeq(s, 3, Len(s))) IN
           IF k > 0 /\ Len(s) >= k + 4 /\ s[k + 3] = "}" /\ s[k + 4] = "}"
             THEN k ELSE 0
    ELSE 0

(* variablePattern.FindAllStringSubmatch(s, -1): the captured names of     *)
(* the leftmost non-overlapping matches, in order.                         *)
RECURSIVE FindAllSubmatch(_)
FindAllSubmatch(s) ==
  IF s = <<>> THEN <<>>
  ELSE IF MatchLen(s) > 0
         THEN << SubSeq(s, 3, MatchLen(s) + 2) >>
                \o FindAllSubmatch(SubSeq(s, MatchLen(s) + 5, Len(s)))
         ELSE FindAllSubmatch(Tail(s))

(* Template.ExtractVariables: the matched names, first occurrence only.   *)
ExtractVariables(content) ==
  FoldLeft(LAMBDA acc, v : IF v \in Range(acc) THEN acc ELSE Append(acc, v),
           <<>>, FindAllSubmatch(content))

(* strings.ReplaceAll with a non-empty old: left to right, the replaced   *)
(* text is not scanned again.                                              *)
RECURSIVE StringsReplaceAll(_, _, _)
StringsReplaceAll(s, old, new) ==
  IF Len(s) < Len(old) THEN s
  ELSE IF SubSeq(s, 1, Len(old)) = old
         THEN new \o StringsReplaceAll(SubSeq(s, Len(old) + 1, Len(s)), old, new)
         ELSE <<Head(s)>> \o StringsReplaceAll(Tail(s), old, new)

(* Template.Render, for one order of Go's map iteration over vars.        *)
Render(t, vs, order) ==
  FoldLeft(LAMBDA res, k : StringsReplaceAll(res, Ph(k), vs[k]), t.content, order)

(* Template.Validate: the template's variables vars does not bind.        *)
Validate(t, vs) == SelectSeq(t.variables, LAMBDA v : v \notin DOMAIN vs)

(* Channel.IsValid                                                         *)
IsValid(c) == c \in {"sms", "email", "push"}

(* NewTemplate                                                             *)
NewTemplate(r, name, channel, content) ==
  [id |-> r, name |-> name, channel |-> channel, content |-> content,
   variables |-> ExtractVariables(content)]

(* Mutant: the new content stored with the old variable list.             *)
ApplyUpdateKeepVariables(t, req) ==
  LET named == IF req.name = Unset THEN t ELSE [t EXCEPT !.name = req.name]
      routed == IF req.channel = Unset THEN named
                ELSE [named EXCEPT !.channel = req.channel]
  IN IF req.content = Unset THEN routed
     ELSE [routed EXCEPT !.content = req.content]

(* TemplateService.Update on its copy: each field the request sets is     *)
(* replaced, and a new content has its variables extracted again.         *)
ApplyUpdate(t, req) ==
  LET named == IF req.name = Unset THEN t ELSE [t EXCEPT !.name = req.name]
      routed == IF req.channel = Unset THEN named
                ELSE [named EXCEPT !.channel = req.channel]
  IN IF req.content = Unset THEN routed
     ELSE [routed EXCEPT !.content = req.content,
                         !.variables = ExtractVariables(req.content)]

(* Mutant: errors compared with == instead of errors.Is, so the wrapped   *)
(* ErrMissingVariables falls through to the internal error.               *)
HandleErrorNoUnwrap(err) ==
  CASE err = "ErrNotFound"         -> 404
    [] err = "ErrAlreadyExists"    -> 409
    [] err = "ValidationError"     -> 400
    [] OTHER                       -> 500

(* HandleError: the HTTP status a domain error is answered with.          *)
HandleError(err) ==
  CASE err = "ErrNotFound"         -> 404
    [] err = "ErrAlreadyExists"    -> 409
    [] err = "ErrMissingVariables" -> 400
    [] err = "ValidationError"     -> 400
    [] OTHER                       -> 500

ByName(n) == { t \in tbl : t.name = n }

ById(i) == { t \in tbl : t.id = i }

Fail(r, err) ==
  /\ reply' = [reply EXCEPT ![r] = [NoReply EXCEPT !.code = HandleError(err)]]
  /\ pc' = [pc EXCEPT ![r] = "done"]

Answer(r, code, t, text) ==
  /\ reply' = [reply EXCEPT ![r] = [code |-> code, tmpl |-> t, text |-> text]]
  /\ pc' = [pc EXCEPT ![r] = "done"]

Init ==
  /\ tbl = {}
  /\ pc = [r \in Requests |-> "start"]
  /\ copy = [r \in Requests |-> NoTmpl]
  /\ reply = [r \in Requests |-> NoReply]

-----------------------------------------------------------------------------
(* TemplateService.Create, first step: an invalid channel is a            *)
(* ValidationError, then GetByName: an existing name is ErrAlreadyExists.  *)
CreateCheck(r) ==
  /\ Op[r].kind = "create" /\ pc[r] = "start"
  /\ CASE ~IsValid(Op[r].channel)  -> Fail(r, "ValidationError")
       [] ByName(Op[r].name) # {}  -> Fail(r, "ErrAlreadyExists")
       [] OTHER -> pc' = [pc EXCEPT ![r] = "insert"] /\ UNCHANGED reply
  /\ UNCHANGED <<tbl, copy>>

(* NewTemplate and TemplateRepository.Create: the INSERT fails on the     *)
(* unique name ("duplicate key" becomes ErrAlreadyExists); the handler    *)
(* answers 201 with the template.                                          *)
CreateInsert(r) ==
  /\ pc[r] = "insert"
  /\ LET t == NewTemplate(r, Op[r].name, Op[r].channel, Op[r].content) IN
       IF ByName(t.name) # {}
         THEN Fail(r, "ErrAlreadyExists") /\ UNCHANGED tbl
         ELSE /\ tbl' = tbl \cup {t}
              /\ Answer(r, 201, t, <<>>)
  /\ UNCHANGED copy

(* The rest of TemplateService.Update on its copy t: a channel that is set *)
(* must be valid, then the request's fields are applied.                  *)
EditCopy(r, t) ==
  IF Op[r].channel # Unset /\ ~IsValid(Op[r].channel)
    THEN Fail(r, "ValidationError") /\ UNCHANGED copy
    ELSE /\ copy' = [copy EXCEPT ![r] = ApplyUpdate(t, Op[r])]
         /\ pc' = [pc EXCEPT ![r] = "write"]
         /\ UNCHANGED reply

(* TemplateService.Update, first step: GetByID, then the changes to the   *)
(* copy; a new name is first looked up with GetByName.                    *)
UpdateRead(r) ==
  /\ Op[r].kind = "update" /\ pc[r] = "start"
  /\ IF ById(Op[r].id) = {}
       THEN Fail(r, "ErrNotFound") /\ UNCHANGED copy
       ELSE LET t == CHOOSE x \in ById(Op[r].id) : TRUE IN
            IF Op[r].name # Unset
              THEN /\ copy' = [copy EXCEPT ![r] = t]
                   /\ pc' = [pc EXCEPT ![r] = "namecheck"]
                   /\ UNCHANGED reply
              ELSE EditCopy(r, t)
  /\ UNCHANGED tbl

(* GetByName of the new name: another template holding it is a conflict. *)
UpdateNameCheck(r) ==
  /\ pc[r] = "namecheck"
  /\ IF \E t \in ByName(Op[r].name) : t.id # Op[r].id
       THEN Fail(r, "ErrAlreadyExists") /\ UNCHANGED copy
       ELSE EditCopy(r, copy[r])
  /\ UNCHANGED tbl

(* TemplateRepository.Update: UPDATE ... SET name, channel, content,      *)
(* variables WHERE id: the whole copy; no row is ErrNotFound, a name held *)
(* by another row is ErrAlreadyExists.                                     *)
UpdateWrite(r) ==
  /\ pc[r] = "write"
  /\ IF ById(copy[r].id) = {}
       THEN Fail(r, "ErrNotFound") /\ UNCHANGED tbl
       ELSE IF \E t \in ByName(copy[r].name) : t.id # copy[r].id
       THEN Fail(r, "ErrAlreadyExists") /\ UNCHANGED tbl
       ELSE /\ tbl' = (tbl \ ById(copy[r].id)) \cup {copy[r]}
            /\ Answer(r, 200, copy[r], <<>>)
  /\ UNCHANGED copy

(* TemplateService.Delete: DELETE ... WHERE id; no row is ErrNotFound.     *)
Delete(r) ==
  /\ Op[r].kind = "delete" /\ pc[r] = "start"
  /\ IF ById(Op[r].id) = {}
       THEN Fail(r, "ErrNotFound") /\ UNCHANGED tbl
       ELSE /\ tbl' = tbl \ ById(Op[r].id)
            /\ Answer(r, 200, NoTmpl, <<>>)
  /\ UNCHANGED copy

(* TemplateService.Render: GetByName (not found is ErrNotFound), Validate *)
(* (a missing variable is ErrMissingVariables), then Render; Go visits    *)
(* the vars map in any order.                                              *)
RenderTemplate(r) ==
  /\ Op[r].kind = "render" /\ pc[r] = "start"
  /\ IF ByName(Op[r].name) = {}
       THEN Fail(r, "ErrNotFound")
       ELSE LET t == CHOOSE x \in ByName(Op[r].name) : TRUE IN
            IF Validate(t, Op[r].vars) # <<>>
              THEN Fail(r, "ErrMissingVariables")
              ELSE \E order \in SetToSeqs(DOMAIN Op[r].vars) :
                     Answer(r, 200, t, Render(t, Op[r].vars, order))
  /\ UNCHANGED <<tbl, copy>>

(* Every request has been answered.                                        *)
Served == (\A r \in Requests : pc[r] = "done") /\ UNCHANGED vars

Next ==
  \/ \E r \in Requests :
       \/ CreateCheck(r) \/ CreateInsert(r)
       \/ UpdateRead(r) \/ UpdateNameCheck(r) \/ UpdateWrite(r)
       \/ Delete(r) \/ RenderTemplate(r)
  \/ Served

Spec == Init /\ [][Next]_vars

-----------------------------------------------------------------------------
(* Spec section 4.4 step 3: literal {{var}} replacement in one pass over   *)
(* the content; placeholders not in vars stay as they are.                 *)
RECURSIVE SpecRender(_, _)
SpecRender(s, vs) ==
  IF s = <<>> THEN <<>>
  ELSE IF MatchLen(s) > 0 /\ SubSeq(s, 3, MatchLen(s) + 2) \in DOMAIN vs
         THEN vs[SubSeq(s, 3, MatchLen(s) + 2)]
                \o SpecRender(SubSeq(s, MatchLen(s) + 5, Len(s)), vs)
         ELSE <<Head(s)>> \o SpecRender(Tail(s), vs)

Rendered == { r \in Requests : Op[r].kind = "render" /\ reply[r].code = 200 }

Returned == { r \in Requests : Op[r].kind \in {"create", "update"}
                               /\ reply[r].code \in {200, 201} }

(* Spec section 2 (variable list derived from the content): every stored  *)
(* template and every template Create or Update returns lists exactly the *)
(* placeholders of its content, however concurrent updates of name and    *)
(* content interleave their reads and full-row writes.                    *)
VariablesMatchContent ==
  /\ \A t \in tbl : t.variables = ExtractVariables(t.content)
  /\ \A r \in Returned : reply[r].tmpl.variables = ExtractVariables(reply[r].tmpl.content)

(* Spec section 4.4 step 3: a successful render is the template content   *)
(* with each {{var}} literally replaced by its value.                      *)
RenderAsSpecified ==
  \A r \in Rendered : reply[r].text = SpecRender(reply[r].tmpl.content, Op[r].vars)

=============================================================================
