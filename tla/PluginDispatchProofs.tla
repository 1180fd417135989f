------------------------ MODULE PluginDispatchProofs ------------------------
(***************************************************************************)
(* Theorems about PluginDispatch, for any requests, results and errors,    *)
(* and any drivers that main registers.                                    *)
(***************************************************************************)
EXTENDS PluginDispatch, TLAPS

(* The drivers that there are; the last exchange went to one of them, to   *)
(* the plugin itself or nowhere.                                           *)
DriversKnown ==
  /\ registered \subseteq Drivers /\ announced \subseteq Drivers
  /\ last.route \in Routes \cup {NoRoute}

(* A process that runs has at least the drivers of main, and all that it   *)
(* has announced itself.                                                   *)
StillThere ==
  /\ alive => AtStart \subseteq registered
  /\ alive /\ ~outdated => announced \subseteq registered
  /\ ~alive => outdated

IndInv == DriversKnown /\ StillThere /\ AnnouncedIsServed

-----------------------------------------------------------------------------
(* Whatever the url is, the comparisons end at one of the routes. *)
LEMMA RouteOfType ==
  ASSUME NEW url
  PROVE  RouteOf(url) \in Routes \cup {NoRoute}
BY DEF RouteOf

(* The names of the drivers are no name of the plugin itself or of nothing. *)
LEMMA NoDriver == NoRoute.driver \notin Drivers /\ Activate \in Routes
BY DEF NoRoute, Activate, Route, Drivers, Routes

(* A driver that was called has an outcome. *)
LEMMA OutcomeType ==
  ASSUME NEW route, NEW outcome \in Outcomes(route)
  PROVE  /\ outcome # NotCalled
         /\ outcome.how \in {"returns", "error_response", "invalid_argument", "exception"}
<1>1. outcome.how \in {"returns", "error_response", "invalid_argument", "exception"}
  BY DEF Outcomes, Outcome
<1>2. NotCalled.how = "not called" BY DEF NotCalled, Outcome
<1> QED BY <1>1, <1>2

-----------------------------------------------------------------------------
LEMMA InitInv == Init => IndInv
BY AtStartAssumption, NoDriver
   DEF Init, IndInv, DriversKnown, StillThere, AnnouncedIsServed, NothingYet, Exchange

(* Reading an answer, or losing it, leaves nothing that could be wrong. *)
LEMMA NothingYetFits == NothingYet.route = NoRoute
BY DEF NothingYet, Exchange

LEMMA RegisterStep ==
  ASSUME NEW d \in Drivers, IndInv, Register(d)
  PROVE  IndInv'
BY DEF IndInv, DriversKnown, StillThere, AnnouncedIsServed, Register

(* What is not found is not registered: a driver of main is, and so is one *)
(* that this process has announced.                                        *)
LEMMA NotFoundStep ==
  ASSUME NEW r \in Requests, IndInv, AnswerNotFound(r)
  PROVE  IndInv'
<1> DEFINE route == RouteOf(r.url)
<1>1. route \in Routes \cup {NoRoute} BY RouteOfType
<1>2. last'.route = route BY DEF AnswerNotFound, Exchange
<1>3. DriversKnown' BY <1>1, <1>2 DEF IndInv, DriversKnown, AnswerNotFound
<1>4. AnnouncedIsServed'
  <2>1. route.driver \notin registered /\ alive BY DEF AnswerNotFound, HasObject
  <2>2. route.driver \notin AtStart /\ (route.driver \in announced => outdated)
    BY <2>1 DEF IndInv, StillThere
  <2> QED BY <1>2, <2>2 DEF AnnouncedIsServed, AnswerNotFound
<1> QED BY <1>3, <1>4 DEF IndInv, StillThere, AnswerNotFound

LEMMA UnparsedStep ==
  ASSUME NEW r \in Requests, IndInv, AnswerUnparsed(r)
  PROVE  IndInv'
<1> DEFINE route == RouteOf(r.url)
<1>1. route \in Routes \cup {NoRoute} BY RouteOfType
<1>2. last'.route = route /\ last'.answer.status \in {400, 500}
  BY DEF AnswerUnparsed, Exchange, Answer
<1>3. last'.answer # NotFound BY <1>2 DEF NotFound, Answer
<1>4. DriversKnown' BY <1>1, <1>2 DEF IndInv, DriversKnown, AnswerUnparsed
<1> QED BY <1>3, <1>4 DEF IndInv, StillThere, AnnouncedIsServed, AnswerUnparsed

(* What is announced now is registered now. *)
LEMMA ActivateStep ==
  ASSUME NEW r \in Requests, IndInv, AnswerActivate(r)
  PROVE  IndInv'
<1> DEFINE outcome == Outcome("returns", ActivateResponse)
<1>1. last'.route = Activate /\ last'.outcome = outcome
  BY DEF AnswerActivate, Exchange
<1>2. outcome # NotCalled BY DEF Outcome, NotCalled
<1>3. announced' = registered BY DEF AnswerActivate, ActivateResponse
<1>4. DriversKnown' BY <1>1, <1>3, NoDriver DEF IndInv, DriversKnown, AnswerActivate
<1> QED BY <1>1, <1>2, <1>3, <1>4 DEF IndInv, StillThere, AnnouncedIsServed, AnswerActivate

LEMMA CalledStep ==
  ASSUME NEW r \in Requests, IndInv, AnswerCalled(r)
  PROVE  IndInv'
<1> DEFINE route == RouteOf(r.url)
<1>1. route \in Routes \cup {NoRoute} BY RouteOfType
<1>2. PICK outcome \in Outcomes(route) :
        last' = Exchange(r, route, FromJson(route.request, r.body).value,
                         outcome, Answered(route, outcome))
  BY DEF AnswerCalled
<1>3. last'.route = route /\ last'.outcome = outcome
  BY <1>2 DEF Exchange
<1>4. last'.outcome # NotCalled BY <1>3, OutcomeType
<1>5. DriversKnown' BY <1>1, <1>3 DEF IndInv, DriversKnown, AnswerCalled
<1> QED BY <1>4, <1>5 DEF IndInv, StillThere, AnnouncedIsServed, AnswerCalled

(* All drivers are gone, but nothing is asked before the next start. *)
LEMMA TerminateStep ==
  ASSUME NEW r \in Requests, IndInv, Terminate(r)
  PROVE  IndInv'
BY NothingYetFits, NoDriver
   DEF IndInv, DriversKnown, StillThere, AnnouncedIsServed, Terminate

LEMMA RestartStep ==
  ASSUME IndInv, Restart
  PROVE  IndInv'
BY AtStartAssumption DEF IndInv, DriversKnown, StillThere, AnnouncedIsServed, Restart

LEMMA ReadAnswerStep ==
  ASSUME IndInv, ReadAnswer
  PROVE  IndInv'
BY NothingYetFits, NoDriver
   DEF IndInv, DriversKnown, StillThere, AnnouncedIsServed, ReadAnswer

LEMMA NextInv == IndInv /\ [Next]_vars => IndInv'
<1> SUFFICES ASSUME IndInv, [Next]_vars PROVE IndInv' OBVIOUS
<1>1. CASE UNCHANGED vars
  BY <1>1 DEF vars, IndInv, DriversKnown, StillThere, AnnouncedIsServed
<1>2. CASE Restart BY <1>2, RestartStep
<1>3. CASE ReadAnswer BY <1>3, ReadAnswerStep
<1>4. ASSUME NEW d \in Drivers, Register(d) PROVE IndInv' BY <1>4, RegisterStep
<1>5. ASSUME NEW r \in Requests, OnMessageComplete(r) PROVE IndInv'
  BY <1>5, NotFoundStep, UnparsedStep, ActivateStep, CalledStep, TerminateStep
     DEF OnMessageComplete
<1> QED BY <1>1, <1>2, <1>3, <1>4, <1>5 DEF Next

-----------------------------------------------------------------------------
(* IndInv is an invariant. *)
THEOREM Invariance == Spec => []IndInv
BY InitInv, NextInv, PTL DEF Spec

(* What Plugin.Activate has listed is answered with "Not found" in one     *)
(* case only: the process that listed it has ended since, and main does    *)
(* not register it.  Later registrations take nothing away.                *)
THEOREM AnnouncedServed == Spec => []AnnouncedIsServed
<1>1. IndInv => AnnouncedIsServed BY DEF IndInv
<1> QED BY <1>1, Invariance, PTL
=============================================================================
