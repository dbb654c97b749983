\* One payload of this page and one from elsewhere, one submission under way at
\* a time (MCListedStore has several), in one second or in two, before and after
\* a restart; a table of one row, so that the list is cut; and a refresh of the
\* timer under way beside that of the form and the first one.
SPECIFICATION Spec
CONSTANTS
  Payloads = {a, b}
  Mine = {a}
  Timers = {t1}
  Limit = 1
  Submissions = {s1}
  Times = {1, 2}
  MaxRestarts = 1
  None = None
PROPERTIES SubmissionIsShown PageRecovers
