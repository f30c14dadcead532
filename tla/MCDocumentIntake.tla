-------------------------- MODULE MCDocumentIntake --------------------------
(***************************************************************************)
(* Instances of DocumentIntake: an excerpt of the data standard's schema,  *)
(* with the keys, paths and orders of DataStandard-3.3.1-b.json, and a few *)
(* bodies of each resource.  Values are small numbers; 3 is a text that    *)
(* reads "2#schoolId=1#sessionName=2" after the '=' of its key.            *)
(***************************************************************************)
EXTENDS DocumentIntake, TLC

Scalar(key, path) ==
  [reference |-> FALSE, descriptor |-> FALSE, target |-> "none",
   path |-> (key :> path), order |-> <<key>>]
Reference(to, path, order) ==
  [reference |-> TRUE, descriptor |-> FALSE, target |-> to, path |-> path, order |-> order]
Descriptor(to, key, path) ==
  [reference |-> TRUE, descriptor |-> TRUE, target |-> to,
   path |-> (key :> path), order |-> <<key>>]

NoSubclass == [type |-> "none", resource |-> "none", from |-> "none", to |-> "none"]
Plain(identity, order, mapping) ==
  [kind |-> "resource", identity |-> identity, order |-> order, mapping |-> mapping,
   required |-> UNION {{mapping[p].path[k] : k \in DOMAIN mapping[p].path} : p \in DOMAIN mapping},
   optional |-> {}, constraints |-> {}, query |-> {"known"}, subclass |-> NoSubclass]

PathS == "$.schoolReference.schoolId"
PathO == "$.courseOfferingReference.schoolId"
PathC == "$.classPeriods[*].classPeriodReference.schoolId"
PathN == "$.classPeriods[*].classPeriodReference.classPeriodName"
PathSes == "$.sessionReference.schoolId"
PathE == "$.educationOrganizationReference.educationOrganizationId"
PathY == "$.graduationSchoolYearTypeReference.schoolYear"
PathG == "$.gradeLevels[*].gradeLevelDescriptor"

DataStandard == [
  schools |->
    [Plain(<<"SchoolId">>, <<"schoolId">>,
           [SchoolId |-> Scalar("schoolId", "$.schoolId"),
            GradeLevel |-> Descriptor("gradeLevelDescriptors", "gradeLevelDescriptor", PathG)])
     EXCEPT !.subclass = [type |-> "domainEntity", resource |-> "EducationOrganization",
                          from |-> "schoolId", to |-> "educationOrganizationId"]],
  classPeriods |->
    Plain(<<"School", "ClassPeriodName">>, <<"classPeriodName", "schoolId">>,
          [School |-> Reference("schools", [schoolId |-> PathS], <<"schoolId">>),
           ClassPeriodName |-> Scalar("classPeriodName", "$.classPeriodName")]),
  sessions |->
    Plain(<<"School", "SessionName">>, <<"schoolId", "sessionName">>,
          [School |-> Reference("schools", [schoolId |-> PathS], <<"schoolId">>),
           SessionName |-> Scalar("sessionName", "$.sessionName")]),
  courseOfferings |->
    [Plain(<<"LocalCourseCode", "School", "Session">>,
           <<"localCourseCode", "schoolId", "sessionName">>,
           [LocalCourseCode |-> Scalar("localCourseCode", "$.localCourseCode"),
            School |-> Reference("schools", [schoolId |-> PathS], <<"schoolId">>),
            Session |-> Reference("sessions",
              [schoolId |-> PathSes, sessionName |-> "$.sessionReference.sessionName"],
              <<"schoolId", "sessionName">>)])
     EXCEPT !.constraints = {<<PathS, PathSes>>}],
  sections |->
    [Plain(<<"SectionIdentifier", "CourseOffering">>,
           <<"localCourseCode", "schoolId", "sectionIdentifier", "sessionName">>,
           [SectionIdentifier |-> Scalar("sectionIdentifier", "$.sectionIdentifier"),
            CourseOffering |-> Reference("courseOfferings",
              [localCourseCode |-> "$.courseOfferingReference.localCourseCode",
               schoolId |-> PathO, sessionName |-> "$.courseOfferingReference.sessionName"],
              <<"localCourseCode", "schoolId", "sessionName">>),
            ClassPeriod |-> Reference("classPeriods",
              [schoolId |-> PathC, classPeriodName |-> PathN], <<"schoolId", "classPeriodName">>)])
     EXCEPT !.required = @ \ {PathC, PathN}, !.optional = {PathC, PathN},
            !.constraints = {<<PathC, PathO>>}],
  programs |->
    Plain(<<"EducationOrganization", "ProgramName">>, <<"educationOrganizationId", "programName">>,
          [EducationOrganization |->
             Reference("EducationOrganization", [educationOrganizationId |-> PathE],
                       <<"educationOrganizationId">>),
           ProgramName |-> Scalar("programName", "$.programName")]),
  studentProgramAssociations |->
    [Plain(<<"EducationOrganization", "Student">>, <<"educationOrganizationId", "studentUniqueId">>,
           [EducationOrganization |->
              Reference("EducationOrganization", [educationOrganizationId |-> PathE],
                        <<"educationOrganizationId">>),
            Student |-> Scalar("studentUniqueId", "$.studentReference.studentUniqueId")])
     EXCEPT !.subclass = [type |-> "association", resource |-> "GeneralStudentProgramAssociation",
                          from |-> "none", to |-> "none"]],
  surveyProgramAssociations |->
    Plain(<<"Survey">>, <<"surveyIdentifier">>,
          [Survey |-> Scalar("surveyIdentifier", "$.surveyIdentifier"),
           General |-> Reference("GeneralStudentProgramAssociation",
             [studentUniqueId |-> "$.generalReference.studentUniqueId",
              educationOrganizationId |-> "$.generalReference.educationOrganizationId"],
             <<"studentUniqueId", "educationOrganizationId">>)]),
  graduationPlans |->
    [Plain(<<"EducationOrganization", "GraduationSchoolYear">>,
           <<"educationOrganizationId", "schoolYear">>,
           [EducationOrganization |->
              Reference("EducationOrganization", [educationOrganizationId |-> PathE],
                        <<"educationOrganizationId">>),
            GraduationSchoolYear |-> Scalar("schoolYear", PathY)])
     EXCEPT !.required = @ \ {PathY}, !.optional = {PathY}],
  studentSchoolAssociations |->
    Plain(<<"Student">>, <<"studentUniqueId">>,
          [Student |-> Scalar("studentUniqueId", "$.studentReference.studentUniqueId"),
           GraduationPlan |-> Reference("graduationPlans",
             [educationOrganizationId |-> "$.graduationPlanReference.educationOrganizationId",
              graduationSchoolYear |-> "$.graduationPlanReference.graduationSchoolYear"],
             <<"educationOrganizationId", "graduationSchoolYear">>)]),
  feederSchoolAssociations |->
    Plain(<<"FeederSchool", "School">>, <<"schoolId">>,
          [FeederSchool |-> Reference("schools", [schoolId |-> "$.feederSchoolReference.schoolId"],
                                      <<"schoolId">>),
           School |-> Reference("schools", [schoolId |-> PathS], <<"schoolId">>)]),
  gradeLevelDescriptors |->
    [Plain(<<>>, <<>>, <<>>) EXCEPT !.kind = "descriptor", !.required = {"$.uri"}],
  schoolYearTypes |->
    [Plain(<<>>, <<>>, <<>>) EXCEPT !.kind = "schoolYear", !.required = {"$.schoolYear"}]]

MCSchema == DataStandard

MCAbstract == [EducationOrganization |-> <<"educationOrganizationId">>,
               GeneralStudentProgramAssociation |-> <<"educationOrganizationId", "studentUniqueId">>]

MCCollections == {PathC, PathN, PathG}
MCForeign == {"elsewhere"}
MCSplit == 3 :> [first |-> 2, rest |-> << <<"schoolId", 1>>, <<"sessionName", 2>> >>]

------------------------------------------------------------------------------
Write(kind, res, body) ==
  [kind |-> kind, resource |-> res, body |-> body,
   parameters |-> {}, limit |-> "absent", offset |-> "absent"]
Post(res, body) == Write("insert", res, body)
Query(res, parameters, limit, offset) ==
  [kind |-> "query", resource |-> res, body |-> <<>>,
   parameters |-> parameters, limit |-> limit, offset |-> offset]

School(levels) == ("$.schoolId" :> <<1>>) @@ (PathG :> levels)
Period(n, s) == ("$.classPeriodName" :> <<n>>) @@ (PathS :> <<s>>)
OfferingOf(code, s, t, name) ==
  ("$.localCourseCode" :> <<code>>) @@ (PathS :> <<s>>) @@ (PathSes :> <<t>>)
  @@ ("$.sessionReference.sessionName" :> <<name>>)
Offering(s, t) == OfferingOf(2, s, t, 2)
SectionOf(code, s, name, periods, schools) ==
  ("$.sectionIdentifier" :> <<1>>) @@ ("$.courseOfferingReference.localCourseCode" :> <<code>>)
  @@ (PathO :> <<s>>) @@ ("$.courseOfferingReference.sessionName" :> <<name>>)
  @@ (PathC :> schools) @@ (PathN :> periods)
Section(s, periods, schools) == SectionOf(2, s, 2, periods, schools)
OfEdOrg(key, n) == (PathE :> <<1>>) @@ (key :> <<n>>)
General(s, e) == ("$.surveyIdentifier" :> <<1>>) @@ ("$.generalReference.studentUniqueId" :> <<s>>)
                 @@ ("$.generalReference.educationOrganizationId" :> <<e>>)
Plan(y) == ("$.studentReference.studentUniqueId" :> <<1>>)
           @@ ("$.graduationPlanReference.educationOrganizationId" :> <<1>>)
           @@ ("$.graduationPlanReference.graduationSchoolYear" :> <<y>>)
Feeder(f, s) == ("$.feederSchoolReference.schoolId" :> <<f>>) @@ (PathS :> <<s>>)
WithUnknown(body) == body @@ ("$.unknown" :> <<1>>)
WithId(body) == body @@ ("$.id" :> <<1>>)

(* Documents that others refer to, and queries that are passed on, not      *)
(* validated, or refused for their pagination.                              *)
Referents ==
  {Post("schools", School(<<1>>)), Post("schools", WithUnknown(School(<<>>))),
   Post("classPeriods", Period(1, 2)), Post("classPeriods", Period(2, 1)),
   Post("courseOfferings", Offering(1, 1)), Post("courseOfferings", Offering(1, 2)),
   Post("courseOfferings", OfferingOf(2, 1, 1, 3)), Post("elsewhere", <<>>),
   Post("studentProgramAssociations", OfEdOrg("$.studentReference.studentUniqueId", 2)),
   Post("graduationPlans", OfEdOrg(PathY, 2)), Post("graduationPlans", PathE :> <<1>>),
   Post("gradeLevelDescriptors", "$.uri" :> <<1>>), Post("schoolYearTypes", "$.schoolYear" :> <<1>>),
   Post("nowhere", <<>>), Query("classPeriods", {}, "absent", "absent"),
   Query("classPeriods", {"known"}, "number", "number"),
   Query("classPeriods", {"known"}, "absent", "number"), Query("sections", {}, "refused", "absent")}
Referrers ==
  {Post("classPeriods", WithUnknown(Period(1, 1))), Post("classPeriods", WithId(Period(2, 1))),
   Write("update", "classPeriods", Period(2, 1)), Write("update", "classPeriods", WithId(Period(2, 2))),
   Post("sections", Section(1, <<1, 2>>, <<1, 1>>)), Post("sections", Section(1, <<1, 2>>, <<1, 2>>)),
   Post("sections", Section(2, <<2, 1>>, <<2, 2>>)), Post("sections", Section(1, <<>>, <<>>)),
   Post("sections", SectionOf(3, 1, 2, <<>>, <<>>)), Post("courseOfferings", OfferingOf(3, 1, 1, 2)),
   Post("programs", OfEdOrg("$.programName", 2)),
   Post("surveyProgramAssociations", General(2, 1)), Post("surveyProgramAssociations", General(1, 2)),
   Post("studentSchoolAssociations", Plan(2))}
Others == {Query("classPeriods", {"unknown"}, "absent", "absent")}

MCInputs == <<Referents, Referrers, Others>>

\* A School with two grade levels.
DescriptorInputs == << {Post("schools", School(<<1, 2>>))} >>

\* An association of a school with the school that feeds it.
FeederInputs == << {Post("feederSchoolAssociations", Feeder(2, 1))} >>
==============================================================================
