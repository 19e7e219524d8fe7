--------------------------- MODULE CalendarCommands ---------------------------
(* The commands of `calendar` (internal/cmd/calendar_*.go).                  *)
EXTENDS CommandSteps

---------------------------------------------------------------------------
(* Calendars, times and series.                                            *)

\* prepareCalendarID: an alias of the configuration, or the name itself.
PrepareCalendarID == Check
\* resolveCalendarID: a name that is not an id is looked up.
ResolveCalendarID == Opt(<<Read("calendarList"), Check>>)
\* resolveCalendarSelector.
ResolveSelector == <<PrepareCalendarID>> \o ResolveCalendarID

\* resolveSelectedCalendarIDs: the ids may do even if the lookup finds nothing.
ResolveSelected ==
  <<Check>> \o Either(<<Read("calendarList")>>,
                      Opt(Try(<<Read("calendarList"), Check>>, <<Check>>)))

\* getUserTimezone: by the calendar list, the calendar and the whole list.
UserTimezone == Try(<<Read("calendar")>>,
                    <<Check>> \o Try(<<Read("calendar")>>, <<Check, Read("calendarList"), Check>>))
                  \o <<Check>>
\* ResolveTimeRangeWithDefaults.
TimeRange == UserTimezone \o <<Check>>
\* getCalendarLocation.
CalendarLocation == <<Read("calendar"), Check>>

\* newCalendarMutationContext.
MutationContext == Connect \o ResolveCalendarID
\* writeEvent: without a time zone if need be.
WriteEvent == Try(CalendarLocation, <<>>)

\* resolveRecurringScopeResolution for one event of a series, and for it and
\* all that follow: the series, and the instance by its start.
OneInstance == <<Read("event"), Check, Read("instance"), Check>>
FromInstanceOn == <<Read("event"), Check, Read("series"), Check, Read("instance"), Check>>

---------------------------------------------------------------------------
(* Reading.                                                                *)

CalendarAliasList == <<Check>>
CalendarColors == Connect \o <<Read("color")>>
CalendarConflicts == Connect \o ResolveSelected \o <<Check>> \o TimeRange \o <<Read("busy")>>

\* listCalendarIDsEvents: a calendar that cannot be read is left out.
ListEventsOfSeveral == Each(Tolerated(Read("event"))) \o <<Check>>
CalendarEvents ==
  <<Account, Check, Service>> \o Opt(ResolveSelector) \o TimeRange
    \o Either(<<Read("event"), Check>>, <<Read("calendarList"), Check>> \o ListEventsOfSeveral)
CalendarEvent == <<Account, Check, Service>> \o ResolveSelector \o <<Read("event")>> \o WriteEvent
CalendarFreeBusy == <<Check>> \o Connect \o ResolveSelected \o <<Read("busy")>>
CalendarCalendars == Connect \o <<Read("calendarList"), Check>>
CalendarAcl == <<Account, Check, Service>> \o ResolveSelector \o <<Read("acl"), Check>>
CalendarSearch == <<Check>> \o Connect \o ResolveSelector \o TimeRange \o <<Read("event")>>

\* The calendars of the members of a group; one that cannot be read is noted.
CalendarTeam ==
  <<Account, Check, Service>> \o TimeRange \o <<Service, Read("member"), MayStop>>
    \o Either(<<Read("busy")>>, Each(Tolerated(Read("event"))))
CalendarTime == <<Account, PrepareCalendarID, Check>>
                  \o Opt(<<Service>> \o ResolveSelector \o CalendarLocation)
CalendarUsers == Connect \o <<Read("profile"), Check>>

---------------------------------------------------------------------------
(* Changing.                                                               *)

CalendarAliasSet == <<Check, Store("alias")>>
CalendarAliasUnset == <<Check, Erase("alias"), Check>>
CalendarSubscribe == <<Account, Check, Service, Create("calendarList")>>
CalendarCreateCalendar == <<Check, Account, Check, DryRun, Service, Create("calendar")>>

\* CalendarCreateCmd, and those for focus time, absences and working locations.
CreateEvent == <<Check, PrepareCalendarID, DryRun>> \o MutationContext
                 \o <<Create("event")>> \o WriteEvent

\* mergeAttendeesWithChange, ensureRecurringPatchDateTimes: what the patch
\* needs of the event is read first.
PatchEvent == Opt(<<Read("event")>>) \o Either(<<Update("event")>>, <<Replace("event")>>)
\* With the scope "future" the event that was named, not its series, has its
\* recurrence cut, after the rest was patched.
CalendarUpdate ==
  <<PrepareCalendarID, Check, DryRun>> \o MutationContext
    \o Opt(<<Read("event"), Check>>)
    \o Either(Opt(OneInstance) \o PatchEvent,
              FromInstanceOn \o PatchEvent \o <<Check, Replace("event")>>)
    \o WriteEvent
CalendarDelete ==
  <<PrepareCalendarID, Check>> \o Confirm \o MutationContext
    \o Either(Opt(OneInstance) \o <<Delete("event")>>,
              FromInstanceOn \o <<Delete("event"), Check, Replace("series")>>)

\* The list of attendees is written back as it was read, with one answer changed.
CalendarRespond == <<PrepareCalendarID, Check, DryRun>> \o MutationContext
                     \o <<Read("event"), Check, Replace("event")>> \o WriteEvent
CalendarProposeTime == <<PrepareCalendarID, Check, DryRun>> \o Connect \o ResolveCalendarID
                         \o <<Read("event")>> \o Opt(<<Check, Replace("event")>>)

---------------------------------------------------------------------------
CalendarCommandSet ==
  {Command("calendar alias list", CalendarAliasList), Command("calendar alias set", CalendarAliasSet),
   Command("calendar alias unset", CalendarAliasUnset), Command("calendar colors", CalendarColors),
   Command("calendar conflicts", CalendarConflicts), Command("calendar events", CalendarEvents),
   Command("calendar event", CalendarEvent), Command("calendar freebusy", CalendarFreeBusy),
   Command("calendar calendars", CalendarCalendars), Command("calendar acl", CalendarAcl),
   Command("calendar search", CalendarSearch), Command("calendar team", CalendarTeam),
   Command("calendar time", CalendarTime), Command("calendar users", CalendarUsers),
   Command("calendar subscribe", CalendarSubscribe),
   Command("calendar create-calendar", CalendarCreateCalendar),
   Command("calendar create", CreateEvent), Command("calendar focus-time", CreateEvent),
   Command("calendar out-of-office", CreateEvent), Command("calendar working-location", CreateEvent),
   Command("calendar update", CalendarUpdate), Command("calendar delete", CalendarDelete),
   Command("calendar respond", CalendarRespond),
   Command("calendar propose-time", CalendarProposeTime)}
=============================================================================
