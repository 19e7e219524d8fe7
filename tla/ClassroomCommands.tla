-------------------------- MODULE ClassroomCommands --------------------------
(* The commands of `classroom` (internal/cmd/classroom_*.go).                *)
EXTENDS CommandSteps

---------------------------------------------------------------------------
(* Courses and who is in them.                                             *)

ClassroomCoursesList == ListsLate("course")
ClassroomCoursesGet == ShowsLate("course")
ClassroomCoursesCreate == Makes(Create("course"))
ClassroomCoursesUpdate == Makes(Update("course"))
ClassroomCoursesDelete == Removes("course")
\* updateCourseState.
UpdateCourseState == Makes(Update("course"))
\* As a student or as a teacher.
ClassroomCoursesJoin == <<Check, DryRun>> \o Connect \o <<Check, Create("member")>>
ClassroomCoursesLeave == <<Check>> \o Confirm \o Connect \o <<Check, Delete("member")>>
ClassroomCoursesURL == <<Account, Check, Service>> \o Each(<<Read("course")>>)

ClassroomStudentsList == ListsLate("member")
ClassroomStudentsGet == ShowsLate("member")
ClassroomStudentsAdd == Makes(Create("member"))
ClassroomStudentsRemove == Removes("member")
ClassroomTeachersList == ListsLate("member")
ClassroomTeachersGet == ShowsLate("member")
ClassroomTeachersAdd == Makes(Create("member"))
ClassroomTeachersRemove == Removes("member")
ClassroomRoster == <<Account, Check, Service>> \o Opt(<<Read("student")>>)
                     \o Opt(<<Read("teacher")>>) \o <<Check>>
ClassroomProfileGet == ShowsLate("profile")

ClassroomInvitationsList == ListsLate("invitation")
ClassroomInvitationsGet == ShowsLate("invitation")
ClassroomInvitationsCreate == Makes(Create("invitation"))
ClassroomInvitationsAccept == Makes(Update("invitation"))
ClassroomInvitationsDelete == Removes("invitation")
ClassroomGuardiansList == ListsLate("guardian")
ClassroomGuardiansGet == ShowsLate("guardian")
ClassroomGuardiansDelete == Removes("guardian")
ClassroomGuardianInvitesList == ListsLate("invitation")
ClassroomGuardianInvitesGet == ShowsLate("invitation")
ClassroomGuardianInvitesCreate == Makes(Create("invitation"))

---------------------------------------------------------------------------
(* What is taught.                                                         *)

ClassroomCourseworkList == ListsOf("work")
ClassroomCourseworkGet == Shows("work")
ClassroomCourseworkCreate == Makes(Create("work"))
ClassroomCourseworkUpdate == Makes(Update("work"))
ClassroomCourseworkDelete == Removes("work")
ClassroomCourseworkAssignees == Makes(Update("work"))
ClassroomMaterialsList == ListsOf("material")
ClassroomMaterialsGet == Shows("material")
ClassroomMaterialsCreate == Makes(Create("material"))
ClassroomMaterialsUpdate == Makes(Update("material"))
ClassroomMaterialsDelete == Removes("material")
ClassroomAnnouncementsList == ListsOf("announcement")
ClassroomAnnouncementsGet == Shows("announcement")
ClassroomAnnouncementsCreate == Makes(Create("announcement"))
ClassroomAnnouncementsUpdate == Makes(Update("announcement"))
ClassroomAnnouncementsDelete == Removes("announcement")
ClassroomAnnouncementsAssignees == Makes(Update("announcement"))
ClassroomTopicsList == ListsOf("topic")
ClassroomTopicsGet == Shows("topic")
ClassroomTopicsCreate == Makes(Create("topic"))
ClassroomTopicsUpdate == Makes(Update("topic"))
ClassroomTopicsDelete == Removes("topic")

ClassroomSubmissionsList == ListsLate("submission")
ClassroomSubmissionsGet == ShowsLate("submission")
\* submissionAction: turn in, reclaim, return.
SubmissionAction == <<Check, DryRun>> \o Connect \o <<Check, Update("submission")>>
ClassroomSubmissionsGrade == Makes(Update("submission"))

---------------------------------------------------------------------------
ClassroomCommandSet ==
  {Command("classroom courses list", ClassroomCoursesList),
   Command("classroom courses get", ClassroomCoursesGet),
   Command("classroom courses create", ClassroomCoursesCreate),
   Command("classroom courses update", ClassroomCoursesUpdate),
   Command("classroom courses delete", ClassroomCoursesDelete),
   Command("classroom courses join", ClassroomCoursesJoin),
   Command("classroom courses leave", ClassroomCoursesLeave),
   Command("classroom courses url", ClassroomCoursesURL),
   Command("classroom students list", ClassroomStudentsList),
   Command("classroom students get", ClassroomStudentsGet),
   Command("classroom students add", ClassroomStudentsAdd),
   Command("classroom students remove", ClassroomStudentsRemove),
   Command("classroom teachers list", ClassroomTeachersList),
   Command("classroom teachers get", ClassroomTeachersGet),
   Command("classroom teachers add", ClassroomTeachersAdd),
   Command("classroom teachers remove", ClassroomTeachersRemove),
   Command("classroom roster", ClassroomRoster),
   Command("classroom profile get", ClassroomProfileGet),
   Command("classroom invitations list", ClassroomInvitationsList),
   Command("classroom invitations get", ClassroomInvitationsGet),
   Command("classroom invitations create", ClassroomInvitationsCreate),
   Command("classroom invitations accept", ClassroomInvitationsAccept),
   Command("classroom invitations delete", ClassroomInvitationsDelete),
   Command("classroom guardians list", ClassroomGuardiansList),
   Command("classroom guardians get", ClassroomGuardiansGet),
   Command("classroom guardians delete", ClassroomGuardiansDelete),
   Command("classroom guardian-invitations list", ClassroomGuardianInvitesList),
   Command("classroom guardian-invitations get", ClassroomGuardianInvitesGet),
   Command("classroom guardian-invitations create", ClassroomGuardianInvitesCreate),
   Command("classroom coursework list", ClassroomCourseworkList),
   Command("classroom coursework get", ClassroomCourseworkGet),
   Command("classroom coursework create", ClassroomCourseworkCreate),
   Command("classroom coursework update", ClassroomCourseworkUpdate),
   Command("classroom coursework delete", ClassroomCourseworkDelete),
   Command("classroom coursework assignees", ClassroomCourseworkAssignees),
   Command("classroom materials list", ClassroomMaterialsList),
   Command("classroom materials get", ClassroomMaterialsGet),
   Command("classroom materials create", ClassroomMaterialsCreate),
   Command("classroom materials update", ClassroomMaterialsUpdate),
   Command("classroom materials delete", ClassroomMaterialsDelete),
   Command("classroom announcements list", ClassroomAnnouncementsList),
   Command("classroom announcements get", ClassroomAnnouncementsGet),
   Command("classroom announcements create", ClassroomAnnouncementsCreate),
   Command("classroom announcements update", ClassroomAnnouncementsUpdate),
   Command("classroom announcements delete", ClassroomAnnouncementsDelete),
   Command("classroom announcements assignees", ClassroomAnnouncementsAssignees),
   Command("classroom topics list", ClassroomTopicsList),
   Command("classroom topics get", ClassroomTopicsGet),
   Command("classroom topics create", ClassroomTopicsCreate),
   Command("classroom topics update", ClassroomTopicsUpdate),
   Command("classroom topics delete", ClassroomTopicsDelete),
   Command("classroom submissions list", ClassroomSubmissionsList),
   Command("classroom submissions get", ClassroomSubmissionsGet),
   Command("classroom submissions grade", ClassroomSubmissionsGrade),
   Command("classroom courses archive", UpdateCourseState),
   Command("classroom courses unarchive", UpdateCourseState),
   Command("classroom submissions turn-in", SubmissionAction),
   Command("classroom submissions reclaim", SubmissionAction),
   Command("classroom submissions return", SubmissionAction)}
=============================================================================
